----------------------------- MODULE SessionProofs ----------------------------
(***************************************************************************)
(* Theorems about Session, for all tables of descriptors that a compiler   *)
(* and validation grant, all lines, paths and files, any number of         *)
(* handles, any width of bytes and words, and failures at any time.        *)
(*                                                                         *)
(*   - induction, by way of sets of numbers, for what is defined by the    *)
(*     depth of nesting: places, JSON, printing, paths                     *)
(*   - the places of an instance: within it, apart from one another        *)
(*   - numbers, memory, and which writes keep an instance whole            *)
(*   - decoding, encoding and printing                                     *)
(*   - numbers from and to bytes; what is encoded, decoded again           *)
(*   - paths, and those that the editor composes                           *)
(*   - the inductive invariant SessionInv, part by part and step by step   *)
(*   - what it means for the user                                          *)
(***************************************************************************)
EXTENDS Session, WellFoundedInduction, FiniteSetTheorems, SequenceTheorems, TLAPS

-----------------------------------------------------------------------------
(* Induction, by way of sets of numbers                                    *)

\* A set of numbers has a least one.
LEMMA LeastNumber ==
    ASSUME NEW T \in SUBSET Nat, T # {}
    PROVE  \E m \in T : \A n \in T : m <= n
<1> DEFINE Less == {p \in Nat \X Nat : p[1] < p[2]}
<1>1. Less = OpToRel(<, Nat)
  BY DEF OpToRel
<1>2. IsWellFoundedOn(Less, Nat)
  BY <1>1, NatLessThanWellFounded
<1>3. PICK m \in T : \A n \in T : <<n, m>> \notin Less
  <2> HIDE DEF Less
  <2> QED BY <1>2, WFMin, Zenon
<1>4. ASSUME NEW n \in T, n < m PROVE <<n, m>> \in Less
  <2>1. <<n, m>> \in Nat \X Nat
    OBVIOUS
  <2> QED BY <2>1, <1>4
<1>5. \A n \in T : ~(n < m)
  BY <1>3, <1>4, Zenon
<1> QED BY <1>5

\* What holds of 0, and of k whenever it holds of k - 1, holds up to n.
LEMMA CountUp ==
    ASSUME NEW n \in Nat, NEW T, 0 \in T, \A k \in 1..n : k - 1 \in T => k \in T
    PROVE  0..n \subseteq T
<1> SUFFICES ASSUME (0..n) \ T # {} PROVE FALSE
  BY Zenon
<1>1. (0..n) \ T \in SUBSET Nat
  OBVIOUS
<1>2. PICK m \in (0..n) \ T : \A k \in (0..n) \ T : m <= k
  BY <1>1, LeastNumber, Zenon
<1>3. m \in 1..n /\ m - 1 \in 0..n /\ ~(m <= m - 1)
  BY <1>2
<1>4. m - 1 \in T
  BY <1>2, <1>3
<1> QED BY <1>2, <1>3, <1>4

\* A set of numbers that has one has a first one.
LEMMA FirstIs ==
    ASSUME NEW T \in SUBSET Nat, T # {}, NEW m, m = CHOOSE n \in T : \A k \in T : n <= k
    PROVE  m \in T /\ \A k \in T : m <= k
<1>1. \E n \in T : \A k \in T : n <= k
  BY LeastNumber
<1> QED BY <1>1

-----------------------------------------------------------------------------
(* What the recursive functions satisfy                                    *)

\* The places of a structure, from those of the structures nested in it.
LEMMA PlacesAre ==
    ASSUME NEW table, Len(table) \in Nat
    PROVE  \A depth \in 0..Len(table) : \A i \in 1..Len(table) : \A base \in Nat :
             Places(table)[depth][i][base] =
                IF depth = 0 THEN {} ELSE PlacesIn(Places(table)[depth - 1], table[i].fields, base)
<1> DEFINE N == Len(table)
           Step(depth, before) ==
             [i \in 1..Len(table) |-> [base \in Nat |-> IF depth = 0 THEN {} ELSE PlacesIn(before, table[i].fields, base)]]
           Right(f, m) == f = [depth \in 0..m |-> Step(depth, f[depth - 1])]
           T == {m \in 0..N : \E f : Right(f, m)}
<1>1. \A a, b : Step(0, a) = Step(0, b)
  OBVIOUS
<1>2. Places(table) = CHOOSE f : Right(f, N)
  BY DEF Places, Depths
<1> HIDE DEF Step
<1>3. 0 \in T
  <2> DEFINE f == [depth \in 0..0 |-> Step(0, 0)]
  <2>1. \A depth \in 0..0 : Step(depth, f[depth - 1]) = Step(0, 0)
    BY <1>1
  <2>2. Right(f, 0)
    BY <2>1
  <2> QED BY <2>2
<1>4. ASSUME NEW m \in 1..N, m - 1 \in T PROVE m \in T
  <2>1. PICK g : Right(g, m - 1)
    BY <1>4
  <2> DEFINE f == [k \in 0..m |-> IF k = m THEN Step(m, g[m - 1]) ELSE g[k]]
  <2>2. \A k \in 0..m : f[k] = Step(k, f[k - 1])
    <3> TAKE k \in 0..m
    <3>1. CASE k = m
      BY <3>1
    <3>2. CASE k # m /\ k = 0
      BY <2>1, <3>2, <1>1
    <3>3. CASE k # m /\ k # 0
      <4>1. k \in 0..(m - 1) /\ k - 1 \in 0..m /\ k - 1 # m
        BY <3>3
      <4>2. f[k] = g[k] /\ f[k - 1] = g[k - 1]
        BY <3>3, <4>1
      <4> QED BY <2>1, <4>1, <4>2
    <3> QED BY <3>1, <3>2, <3>3
  <2>3. f = [k \in 0..m |-> f[k]]
    OBVIOUS
  <2> HIDE DEF f
  <2>4. Right(f, m)
    BY <2>2, <2>3
  <2> HIDE DEF Right
  <2> QED BY <2>4, <1>4
<1>5. N \in T
  <2> HIDE DEF T
  <2>1. \A m \in 1..N : m - 1 \in T => m \in T
    BY <1>4
  <2>2. 0..N \subseteq T
    BY <1>3, <2>1, CountUp
  <2> QED BY <2>2
<1>6. Right(Places(table), N)
  <2> HIDE DEF Right
  <2> QED BY <1>2, <1>5
<1>7. \A depth \in 0..N : Places(table)[depth] = Step(depth, Places(table)[depth - 1])
  BY <1>6
<1> USE DEF Step
<1> HIDE DEF Right, T
<1>8. ASSUME NEW depth \in 0..N, NEW i \in 1..Len(table), NEW base \in Nat
      PROVE  Step(depth, Places(table)[depth - 1])[i][base] =
                IF depth = 0 THEN {} ELSE PlacesIn(Places(table)[depth - 1], table[i].fields, base)
  OBVIOUS
<1> HIDE DEF Step
<1> QED BY <1>7, <1>8

\* The JSON text of a structure, from those of the structures nested in it.
LEMMA JsonIs ==
    ASSUME NEW table, NEW memory, Len(table) \in Nat
    PROVE  \A depth \in 0..Len(table) : \A i \in 1..Len(table) : \A base \in Nat :
             struct_to_json(table, memory)[depth][i][base] =
                IF depth = 0 THEN TooDeep ELSE fields_to_json(struct_to_json(table, memory)[depth - 1], table[i].fields, memory, base)
<1> DEFINE N == Len(table)
           Step(depth, before) ==
             [i \in 1..Len(table) |-> [base \in Nat |-> IF depth = 0 THEN TooDeep ELSE fields_to_json(before, table[i].fields, memory, base)]]
           Right(f, m) == f = [depth \in 0..m |-> Step(depth, f[depth - 1])]
           T == {m \in 0..N : \E f : Right(f, m)}
<1>1. \A a, b : Step(0, a) = Step(0, b)
  OBVIOUS
<1>2. struct_to_json(table, memory) = CHOOSE f : Right(f, N)
  BY DEF struct_to_json, Depths
<1> HIDE DEF Step
<1>3. 0 \in T
  <2> DEFINE f == [depth \in 0..0 |-> Step(0, 0)]
  <2>1. \A depth \in 0..0 : Step(depth, f[depth - 1]) = Step(0, 0)
    BY <1>1
  <2>2. Right(f, 0)
    BY <2>1
  <2> QED BY <2>2
<1>4. ASSUME NEW m \in 1..N, m - 1 \in T PROVE m \in T
  <2>1. PICK g : Right(g, m - 1)
    BY <1>4
  <2> DEFINE f == [k \in 0..m |-> IF k = m THEN Step(m, g[m - 1]) ELSE g[k]]
  <2>2. \A k \in 0..m : f[k] = Step(k, f[k - 1])
    <3> TAKE k \in 0..m
    <3>1. CASE k = m
      BY <3>1
    <3>2. CASE k # m /\ k = 0
      BY <2>1, <3>2, <1>1
    <3>3. CASE k # m /\ k # 0
      <4>1. k \in 0..(m - 1) /\ k - 1 \in 0..m /\ k - 1 # m
        BY <3>3
      <4>2. f[k] = g[k] /\ f[k - 1] = g[k - 1]
        BY <3>3, <4>1
      <4> QED BY <2>1, <4>1, <4>2
    <3> QED BY <3>1, <3>2, <3>3
  <2>3. f = [k \in 0..m |-> f[k]]
    OBVIOUS
  <2> HIDE DEF f
  <2>4. Right(f, m)
    BY <2>2, <2>3
  <2> HIDE DEF Right
  <2> QED BY <2>4, <1>4
<1>5. N \in T
  <2> HIDE DEF T
  <2>1. \A m \in 1..N : m - 1 \in T => m \in T
    BY <1>4
  <2>2. 0..N \subseteq T
    BY <1>3, <2>1, CountUp
  <2> QED BY <2>2
<1>6. Right(struct_to_json(table, memory), N)
  <2> HIDE DEF Right
  <2> QED BY <1>2, <1>5
<1>7. \A depth \in 0..N : struct_to_json(table, memory)[depth] = Step(depth, struct_to_json(table, memory)[depth - 1])
  BY <1>6
<1> USE DEF Step
<1> HIDE DEF Right, T
<1>8. ASSUME NEW depth \in 0..N, NEW i \in 1..Len(table), NEW base \in Nat
      PROVE  Step(depth, struct_to_json(table, memory)[depth - 1])[i][base] =
                IF depth = 0 THEN TooDeep ELSE fields_to_json(struct_to_json(table, memory)[depth - 1], table[i].fields, memory, base)
  OBVIOUS
<1> HIDE DEF Step
<1> QED BY <1>7, <1>8

\* Whether a structure is printed in full, from those nested in it.
LEMMA PrintIs ==
    ASSUME NEW table, NEW memory, Len(table) \in Nat
    PROVE  \A depth \in 0..Len(table) : \A i \in 1..Len(table) : \A base \in Nat :
             print_struct(table, memory)[depth][i][base] =
                IF depth = 0 THEN "CORRUPT_DESCRIPTOR" ELSE print_fields(print_struct(table, memory)[depth - 1], table[i].fields, memory, base)
<1> DEFINE N == Len(table)
           Step(depth, before) ==
             [i \in 1..Len(table) |-> [base \in Nat |-> IF depth = 0 THEN "CORRUPT_DESCRIPTOR" ELSE print_fields(before, table[i].fields, memory, base)]]
           Right(f, m) == f = [depth \in 0..m |-> Step(depth, f[depth - 1])]
           T == {m \in 0..N : \E f : Right(f, m)}
<1>1. \A a, b : Step(0, a) = Step(0, b)
  OBVIOUS
<1>2. print_struct(table, memory) = CHOOSE f : Right(f, N)
  BY DEF print_struct, Depths
<1> HIDE DEF Step
<1>3. 0 \in T
  <2> DEFINE f == [depth \in 0..0 |-> Step(0, 0)]
  <2>1. \A depth \in 0..0 : Step(depth, f[depth - 1]) = Step(0, 0)
    BY <1>1
  <2>2. Right(f, 0)
    BY <2>1
  <2> QED BY <2>2
<1>4. ASSUME NEW m \in 1..N, m - 1 \in T PROVE m \in T
  <2>1. PICK g : Right(g, m - 1)
    BY <1>4
  <2> DEFINE f == [k \in 0..m |-> IF k = m THEN Step(m, g[m - 1]) ELSE g[k]]
  <2>2. \A k \in 0..m : f[k] = Step(k, f[k - 1])
    <3> TAKE k \in 0..m
    <3>1. CASE k = m
      BY <3>1
    <3>2. CASE k # m /\ k = 0
      BY <2>1, <3>2, <1>1
    <3>3. CASE k # m /\ k # 0
      <4>1. k \in 0..(m - 1) /\ k - 1 \in 0..m /\ k - 1 # m
        BY <3>3
      <4>2. f[k] = g[k] /\ f[k - 1] = g[k - 1]
        BY <3>3, <4>1
      <4> QED BY <2>1, <4>1, <4>2
    <3> QED BY <3>1, <3>2, <3>3
  <2>3. f = [k \in 0..m |-> f[k]]
    OBVIOUS
  <2> HIDE DEF f
  <2>4. Right(f, m)
    BY <2>2, <2>3
  <2> HIDE DEF Right
  <2> QED BY <2>4, <1>4
<1>5. N \in T
  <2> HIDE DEF T
  <2>1. \A m \in 1..N : m - 1 \in T => m \in T
    BY <1>4
  <2>2. 0..N \subseteq T
    BY <1>3, <2>1, CountUp
  <2> QED BY <2>2
<1>6. Right(print_struct(table, memory), N)
  <2> HIDE DEF Right
  <2> QED BY <1>2, <1>5
<1>7. \A depth \in 0..N : print_struct(table, memory)[depth] = Step(depth, print_struct(table, memory)[depth - 1])
  BY <1>6
<1> USE DEF Step
<1> HIDE DEF Right, T
<1>8. ASSUME NEW depth \in 0..N, NEW i \in 1..Len(table), NEW base \in Nat
      PROVE  Step(depth, print_struct(table, memory)[depth - 1])[i][base] =
                IF depth = 0 THEN "CORRUPT_DESCRIPTOR" ELSE print_fields(print_struct(table, memory)[depth - 1], table[i].fields, memory, base)
  OBVIOUS
<1> HIDE DEF Step
<1> QED BY <1>7, <1>8

\* The writes that decode a structure, from those for the structures nested in it.
LEMMA WritesAre ==
    ASSUME NEW table, NEW json, Len(table) \in Nat
    PROVE  \A depth \in 0..Len(table) : \A i \in 1..Len(table) : \A item \in ItemsWithin(table, json)[Len(table) - depth] : \A base \in Nat :
             struct_from_json(table, json)[depth][i][item][base] =
                IF depth = 0 THEN TooDeep ELSE fields_from_json(struct_from_json(table, json)[depth - 1], table[i].fields, item, base)
<1> DEFINE N == Len(table)
           Step(depth, before) ==
             [i \in 1..Len(table) |-> [item \in ItemsWithin(table, json)[Len(table) - depth] |-> [base \in Nat |-> IF depth = 0 THEN TooDeep ELSE fields_from_json(before, table[i].fields, item, base)]]]
           Right(f, m) == f = [depth \in 0..m |-> Step(depth, f[depth - 1])]
           T == {m \in 0..N : \E f : Right(f, m)}
<1>1. \A a, b : Step(0, a) = Step(0, b)
  OBVIOUS
<1>2. struct_from_json(table, json) = CHOOSE f : Right(f, N)
  BY DEF struct_from_json, Depths
<1> HIDE DEF Step
<1>3. 0 \in T
  <2> DEFINE f == [depth \in 0..0 |-> Step(0, 0)]
  <2>1. \A depth \in 0..0 : Step(depth, f[depth - 1]) = Step(0, 0)
    BY <1>1
  <2>2. Right(f, 0)
    BY <2>1
  <2> QED BY <2>2
<1>4. ASSUME NEW m \in 1..N, m - 1 \in T PROVE m \in T
  <2>1. PICK g : Right(g, m - 1)
    BY <1>4
  <2> DEFINE f == [k \in 0..m |-> IF k = m THEN Step(m, g[m - 1]) ELSE g[k]]
  <2>2. \A k \in 0..m : f[k] = Step(k, f[k - 1])
    <3> TAKE k \in 0..m
    <3>1. CASE k = m
      BY <3>1
    <3>2. CASE k # m /\ k = 0
      BY <2>1, <3>2, <1>1
    <3>3. CASE k # m /\ k # 0
      <4>1. k \in 0..(m - 1) /\ k - 1 \in 0..m /\ k - 1 # m
        BY <3>3
      <4>2. f[k] = g[k] /\ f[k - 1] = g[k - 1]
        BY <3>3, <4>1
      <4> QED BY <2>1, <4>1, <4>2
    <3> QED BY <3>1, <3>2, <3>3
  <2>3. f = [k \in 0..m |-> f[k]]
    OBVIOUS
  <2> HIDE DEF f
  <2>4. Right(f, m)
    BY <2>2, <2>3
  <2> HIDE DEF Right
  <2> QED BY <2>4, <1>4
<1>5. N \in T
  <2> HIDE DEF T
  <2>1. \A m \in 1..N : m - 1 \in T => m \in T
    BY <1>4
  <2>2. 0..N \subseteq T
    BY <1>3, <2>1, CountUp
  <2> QED BY <2>2
<1>6. Right(struct_from_json(table, json), N)
  <2> HIDE DEF Right
  <2> QED BY <1>2, <1>5
<1>7. \A depth \in 0..N : struct_from_json(table, json)[depth] = Step(depth, struct_from_json(table, json)[depth - 1])
  BY <1>6
<1> USE DEF Step
<1> HIDE DEF Right, T
<1>8. ASSUME NEW depth \in 0..N, NEW i \in 1..Len(table), NEW item \in ItemsWithin(table, json)[Len(table) - depth], NEW base \in Nat
      PROVE  Step(depth, struct_from_json(table, json)[depth - 1])[i][item][base] =
                IF depth = 0 THEN TooDeep ELSE fields_from_json(struct_from_json(table, json)[depth - 1], table[i].fields, item, base)
  OBVIOUS
<1> HIDE DEF Step
<1> QED BY <1>7, <1>8

\* The items of a JSON text, level by level.
LEMMA ItemsAre ==
    ASSUME NEW table, NEW json, Len(table) \in Nat
    PROVE  \A depth \in 0..Len(table) :
             ItemsWithin(table, json)[depth] =
                IF depth = 0 THEN {json} ELSE UNION {ItemsOf(item) : item \in ItemsWithin(table, json)[depth - 1]}
<1> DEFINE N == Len(table)
           Step(depth, before) ==
             IF depth = 0 THEN {json} ELSE UNION {ItemsOf(item) : item \in before}
           Right(f, m) == f = [depth \in 0..m |-> Step(depth, f[depth - 1])]
           T == {m \in 0..N : \E f : Right(f, m)}
<1>1. \A a, b : Step(0, a) = Step(0, b)
  OBVIOUS
<1>2. ItemsWithin(table, json) = CHOOSE f : Right(f, N)
  BY DEF ItemsWithin, Depths
<1> HIDE DEF Step
<1>3. 0 \in T
  <2> DEFINE f == [depth \in 0..0 |-> Step(0, 0)]
  <2>1. \A depth \in 0..0 : Step(depth, f[depth - 1]) = Step(0, 0)
    BY <1>1
  <2>2. Right(f, 0)
    BY <2>1
  <2> QED BY <2>2
<1>4. ASSUME NEW m \in 1..N, m - 1 \in T PROVE m \in T
  <2>1. PICK g : Right(g, m - 1)
    BY <1>4
  <2> DEFINE f == [k \in 0..m |-> IF k = m THEN Step(m, g[m - 1]) ELSE g[k]]
  <2>2. \A k \in 0..m : f[k] = Step(k, f[k - 1])
    <3> TAKE k \in 0..m
    <3>1. CASE k = m
      BY <3>1
    <3>2. CASE k # m /\ k = 0
      BY <2>1, <3>2, <1>1
    <3>3. CASE k # m /\ k # 0
      <4>1. k \in 0..(m - 1) /\ k - 1 \in 0..m /\ k - 1 # m
        BY <3>3
      <4>2. f[k] = g[k] /\ f[k - 1] = g[k - 1]
        BY <3>3, <4>1
      <4> QED BY <2>1, <4>1, <4>2
    <3> QED BY <3>1, <3>2, <3>3
  <2>3. f = [k \in 0..m |-> f[k]]
    OBVIOUS
  <2> HIDE DEF f
  <2>4. Right(f, m)
    BY <2>2, <2>3
  <2> HIDE DEF Right
  <2> QED BY <2>4, <1>4
<1>5. N \in T
  <2> HIDE DEF T
  <2>1. \A m \in 1..N : m - 1 \in T => m \in T
    BY <1>4
  <2>2. 0..N \subseteq T
    BY <1>3, <2>1, CountUp
  <2> QED BY <2>2
<1>6. Right(ItemsWithin(table, json), N)
  <2> HIDE DEF Right
  <2> QED BY <1>2, <1>5
<1>7. \A depth \in 0..N : ItemsWithin(table, json)[depth] = Step(depth, ItemsWithin(table, json)[depth - 1])
  BY <1>6
<1> USE DEF Step
<1> HIDE DEF Right, T
<1>8. ASSUME NEW depth \in 0..N
      PROVE  Step(depth, ItemsWithin(table, json)[depth - 1]) =
                IF depth = 0 THEN {json} ELSE UNION {ItemsOf(item) : item \in ItemsWithin(table, json)[depth - 1]}
  OBVIOUS
<1> HIDE DEF Step
<1> QED BY <1>7, <1>8

\* What each write makes of an instance.
LEMMA InstancesAre ==
    ASSUME NEW memory, NEW writes, Len(writes) \in Nat
    PROVE  \A n \in 0..Len(writes) :
             Instances(memory, writes)[n] =
                IF n = 0 THEN memory ELSE Put(Instances(memory, writes)[n - 1], writes[n].address, writes[n].bytes)
<1> DEFINE N == Len(writes)
           Step(n, before) ==
             IF n = 0 THEN memory ELSE Put(before, writes[n].address, writes[n].bytes)
           Right(f, m) == f = [n \in 0..m |-> Step(n, f[n - 1])]
           T == {m \in 0..N : \E f : Right(f, m)}
<1>1. \A a, b : Step(0, a) = Step(0, b)
  OBVIOUS
<1>2. Instances(memory, writes) = CHOOSE f : Right(f, N)
  BY DEF Instances
<1> HIDE DEF Step
<1>3. 0 \in T
  <2> DEFINE f == [n \in 0..0 |-> Step(0, 0)]
  <2>1. \A n \in 0..0 : Step(n, f[n - 1]) = Step(0, 0)
    BY <1>1
  <2>2. Right(f, 0)
    BY <2>1
  <2> QED BY <2>2
<1>4. ASSUME NEW m \in 1..N, m - 1 \in T PROVE m \in T
  <2>1. PICK g : Right(g, m - 1)
    BY <1>4
  <2> DEFINE f == [k \in 0..m |-> IF k = m THEN Step(m, g[m - 1]) ELSE g[k]]
  <2>2. \A k \in 0..m : f[k] = Step(k, f[k - 1])
    <3> TAKE k \in 0..m
    <3>1. CASE k = m
      BY <3>1
    <3>2. CASE k # m /\ k = 0
      BY <2>1, <3>2, <1>1
    <3>3. CASE k # m /\ k # 0
      <4>1. k \in 0..(m - 1) /\ k - 1 \in 0..m /\ k - 1 # m
        BY <3>3
      <4>2. f[k] = g[k] /\ f[k - 1] = g[k - 1]
        BY <3>3, <4>1
      <4> QED BY <2>1, <4>1, <4>2
    <3> QED BY <3>1, <3>2, <3>3
  <2>3. f = [k \in 0..m |-> f[k]]
    OBVIOUS
  <2> HIDE DEF f
  <2>4. Right(f, m)
    BY <2>2, <2>3
  <2> HIDE DEF Right
  <2> QED BY <2>4, <1>4
<1>5. N \in T
  <2> HIDE DEF T
  <2>1. \A m \in 1..N : m - 1 \in T => m \in T
    BY <1>4
  <2>2. 0..N \subseteq T
    BY <1>3, <2>1, CountUp
  <2> QED BY <2>2
<1>6. Right(Instances(memory, writes), N)
  <2> HIDE DEF Right
  <2> QED BY <1>2, <1>5
<1>7. \A n \in 0..N : Instances(memory, writes)[n] = Step(n, Instances(memory, writes)[n - 1])
  BY <1>6
<1> USE DEF Step
<1> HIDE DEF Right, T
<1>8. ASSUME NEW n \in 0..N
      PROVE  Step(n, Instances(memory, writes)[n - 1]) =
                IF n = 0 THEN memory ELSE Put(Instances(memory, writes)[n - 1], writes[n].address, writes[n].bytes)
  OBVIOUS
<1> HIDE DEF Step
<1> QED BY <1>7, <1>8

\* Where each segment of a path leads.
LEMMA ResolvedAre ==
    ASSUME NEW table, NEW i, NEW path, Len(path) \in Nat
    PROVE  \A n \in 1..Len(path) :
             resolved(table, i, path)[n] =
                IF n = 1 THEN resolve_segment(table[i], 0, path[1], 1 = Len(path)) ELSE IF resolved(table, i, path)[n - 1].code # "OK" THEN resolved(table, i, path)[n - 1] ELSE resolve_segment(table[resolved(table, i, path)[n - 1].field.nested], resolved(table, i, path)[n - 1].address, path[n], n = Len(path))
<1> DEFINE N == Len(path)
           Step(n, before) ==
             IF n = 1 THEN resolve_segment(table[i], 0, path[1], 1 = Len(path)) ELSE IF before.code # "OK" THEN before ELSE resolve_segment(table[before.field.nested], before.address, path[n], n = Len(path))
           Right(f, m) == f = [n \in 1..m |-> Step(n, f[n - 1])]
           T == {m \in 0..N : \E f : Right(f, m)}
<1>1. \A a, b : Step(1, a) = Step(1, b)
  OBVIOUS
<1>2. resolved(table, i, path) = CHOOSE f : Right(f, N)
  BY DEF resolved
<1> HIDE DEF Step
<1>3. 0 \in T
  <2> DEFINE f == [n \in 1..0 |-> 0]
  <2>1. Right(f, 0)
    OBVIOUS
  <2> HIDE DEF f, Right
  <2> QED BY <2>1
<1>4. ASSUME NEW m \in 1..N, m - 1 \in T PROVE m \in T
  <2>1. PICK g : Right(g, m - 1)
    BY <1>4
  <2> DEFINE f == [k \in 1..m |-> IF k = m THEN Step(m, g[m - 1]) ELSE g[k]]
  <2>2. \A k \in 1..m : f[k] = Step(k, f[k - 1])
    <3> TAKE k \in 1..m
    <3>1. CASE k = m
      <4>1. k # 1 => f[k - 1] = g[m - 1]
        BY <3>1
      <4>2. f[k] = Step(m, g[m - 1])
        BY <3>1
      <4> QED BY <1>1, <3>1, <4>1, <4>2
    <3>2. CASE k # m /\ k = 1
      BY <2>1, <3>2, <1>1
    <3>3. CASE k # m /\ k # 1
      <4>1. k \in 1..(m - 1) /\ k - 1 \in 1..m /\ k - 1 # m
        BY <3>3
      <4>2. f[k] = g[k] /\ f[k - 1] = g[k - 1]
        BY <3>3, <4>1
      <4> QED BY <2>1, <4>1, <4>2
    <3> QED BY <3>1, <3>2, <3>3
  <2>3. f = [k \in 1..m |-> f[k]]
    OBVIOUS
  <2> HIDE DEF f
  <2>4. Right(f, m)
    BY <2>2, <2>3
  <2> HIDE DEF Right
  <2> QED BY <2>4, <1>4
<1>5. N \in T
  <2> HIDE DEF T
  <2>1. \A m \in 1..N : m - 1 \in T => m \in T
    BY <1>4
  <2>2. 0..N \subseteq T
    BY <1>3, <2>1, CountUp
  <2> QED BY <2>2
<1>6. Right(resolved(table, i, path), N)
  <2> HIDE DEF Right
  <2> QED BY <1>2, <1>5
<1>7. \A n \in 1..N : resolved(table, i, path)[n] = Step(n, resolved(table, i, path)[n - 1])
  BY <1>6
<1> USE DEF Step
<1> HIDE DEF Right, T
<1>8. ASSUME NEW n \in 1..N
      PROVE  Step(n, resolved(table, i, path)[n - 1]) =
                IF n = 1 THEN resolve_segment(table[i], 0, path[1], 1 = Len(path)) ELSE IF resolved(table, i, path)[n - 1].code # "OK" THEN resolved(table, i, path)[n - 1] ELSE resolve_segment(table[resolved(table, i, path)[n - 1].field.nested], resolved(table, i, path)[n - 1].address, path[n], n = Len(path))
  OBVIOUS
<1> HIDE DEF Step
<1> QED BY <1>7, <1>8

\* A concatenation, one sequence after the other.
LEMMA FlatIs ==
    ASSUME NEW s, Len(s) \in Nat \ {0}
    PROVE  \E f : /\ FlattenSeq(s) = f[Len(s)]
                 /\ \A i \in 1..Len(s) : f[i] = IF i = 1 THEN s[i] ELSE f[i - 1] \o s[i]
<1> DEFINE N == Len(s)
           Step(i, before) ==
             IF i = 1 THEN s[i] ELSE before \o s[i]
           Right(f, m) == f = [i \in 1..m |-> Step(i, f[i - 1])]
           Flat == CHOOSE f : Right(f, N)
           T == {m \in 0..N : \E f : Right(f, m)}
<1>1. \A a, b : Step(1, a) = Step(1, b)
  OBVIOUS
<1>2. FlattenSeq(s) = Flat[Len(s)]
  BY DEF FlattenSeq
<1> HIDE DEF Step
<1>3. 0 \in T
  <2> DEFINE f == [i \in 1..0 |-> 0]
  <2>1. Right(f, 0)
    OBVIOUS
  <2> HIDE DEF f, Right
  <2> QED BY <2>1
<1>4. ASSUME NEW m \in 1..N, m - 1 \in T PROVE m \in T
  <2>1. PICK g : Right(g, m - 1)
    BY <1>4
  <2> DEFINE f == [k \in 1..m |-> IF k = m THEN Step(m, g[m - 1]) ELSE g[k]]
  <2>2. \A k \in 1..m : f[k] = Step(k, f[k - 1])
    <3> TAKE k \in 1..m
    <3>1. CASE k = m
      <4>1. k # 1 => f[k - 1] = g[m - 1]
        BY <3>1
      <4>2. f[k] = Step(m, g[m - 1])
        BY <3>1
      <4> QED BY <1>1, <3>1, <4>1, <4>2
    <3>2. CASE k # m /\ k = 1
      BY <2>1, <3>2, <1>1
    <3>3. CASE k # m /\ k # 1
      <4>1. k \in 1..(m - 1) /\ k - 1 \in 1..m /\ k - 1 # m
        BY <3>3
      <4>2. f[k] = g[k] /\ f[k - 1] = g[k - 1]
        BY <3>3, <4>1
      <4> QED BY <2>1, <4>1, <4>2
    <3> QED BY <3>1, <3>2, <3>3
  <2>3. f = [k \in 1..m |-> f[k]]
    OBVIOUS
  <2> HIDE DEF f
  <2>4. Right(f, m)
    BY <2>2, <2>3
  <2> HIDE DEF Right
  <2> QED BY <2>4, <1>4
<1>5. N \in T
  <2> HIDE DEF T
  <2>1. \A m \in 1..N : m - 1 \in T => m \in T
    BY <1>4
  <2>2. 0..N \subseteq T
    BY <1>3, <2>1, CountUp
  <2> QED BY <2>2
<1>6. Right(Flat, N)
  <2> HIDE DEF Right
  <2> QED BY <1>5
<1>7. \A i \in 1..N : Flat[i] = Step(i, Flat[i - 1])
  BY <1>6
<1> USE DEF Step
<1> HIDE DEF Right, T
<1>8. ASSUME NEW i \in 1..N
      PROVE  Step(i, Flat[i - 1]) =
                IF i = 1 THEN s[i] ELSE Flat[i - 1] \o s[i]
  OBVIOUS
<1> HIDE DEF Step, Flat
<1>9. \A i \in 1..Len(s) : Flat[i] = IF i = 1 THEN s[i] ELSE Flat[i - 1] \o s[i]
  BY <1>7, <1>8
<1> QED BY <1>2, <1>9

-----------------------------------------------------------------------------
(* Sequences of results                                                    *)

\* A sequence has the elements of its range.
LEMMA SeqIs ==
    ASSUME NEW s, IsSeq(s)
    PROVE  /\ s \in Seq(Range(s)) /\ DOMAIN s = 1..Len(s)
           /\ \A n \in 1..Len(s) : s[n] \in Range(s)
<1>1. Len(s) \in Nat /\ s = [n \in 1..Len(s) |-> s[n]]
  BY DEF IsSeq
<1>2. DOMAIN s = 1..Len(s)
  BY <1>1
<1>3. Range(s) = {s[n] : n \in DOMAIN s}
  BY Zenon DEF Range
<1>4. \A n \in 1..Len(s) : s[n] \in Range(s)
  BY <1>2, <1>3
<1> HIDE DEF Range
<1>5. [n \in 1..Len(s) |-> s[n]] \in Seq(Range(s))
  BY <1>1, <1>4, IsASeq
<1> QED BY <1>1, <1>2, <1>4, <1>5

\* A concatenation has what its parts have.
LEMMA FlattenIs ==
    ASSUME NEW s, IsSeq(s), NEW V, \A i \in 1..Len(s) : s[i] \in Seq(V)
    PROVE  /\ FlattenSeq(s) \in Seq(V)
           /\ \A x : x \in Range(FlattenSeq(s)) <=> \E i \in 1..Len(s) : x \in Range(s[i])
<1>1. Len(s) \in Nat /\ s = [n \in 1..Len(s) |-> s[n]]
  BY DEF IsSeq
<1>2. CASE Len(s) = 0
  <2>1. s = <<>>
    BY <1>1, <1>2
  <2>2. FlattenSeq(s) = <<>>
    BY <1>2, <2>1 DEF FlattenSeq
  <2>3. \A x : x \notin Range(<<>>)
    BY DEF Range
  <2> QED BY <1>2, <2>2, <2>3
<1>3. CASE Len(s) # 0
  <2>1. PICK f : /\ FlattenSeq(s) = f[Len(s)]
                 /\ \A i \in 1..Len(s) : f[i] = IF i = 1 THEN s[i] ELSE f[i - 1] \o s[i]
    BY <1>1, <1>3, FlatIs
  <2> DEFINE Right(m) ==
                f[m] \in Seq(V) /\ \A x : x \in Range(f[m]) <=> \E i \in 1..m : x \in Range(s[i])
             T == {m \in 0..Len(s) : m # 0 => Right(m)}
  <2>2. 0 \in T
    BY <1>1
  <2>3. ASSUME NEW m \in 1..Len(s), m - 1 \in T PROVE m \in T
    <3>1. CASE m = 1
      <4>1. f[m] = s[m] /\ s[m] \in Seq(V)
        BY <2>1, <3>1
      <4>2. \A i : i \in 1..m <=> i = m
        BY <3>1
      <4> QED BY <4>1, <4>2, <1>1
    <3>2. CASE m # 1
      <4>1. m - 1 \in 1..Len(s) /\ Right(m - 1)
        BY <2>3, <3>2, <1>1
      <4>2. f[m] = f[m - 1] \o s[m] /\ s[m] \in Seq(V)
        BY <2>1, <3>2
      <4>3. Range(f[m]) = Range(f[m - 1]) \cup Range(s[m])
        BY <4>1, <4>2, RangeConcatenation
      <4>4. f[m] \in Seq(V)
        BY <4>1, <4>2
      <4>5. \A i : i \in 1..m <=> (i \in 1..(m - 1) \/ i = m)
        BY <1>1
      <4>6. \A x : x \in Range(f[m]) <=> \E i \in 1..m : x \in Range(s[i])
        BY <4>1, <4>3, <4>5
      <4> QED BY <4>4, <4>6, <1>1
    <3> QED BY <3>1, <3>2
  <2>4. Len(s) \in T
    <3> HIDE DEF T
    <3>1. \A m \in 1..Len(s) : m - 1 \in T => m \in T
      BY <2>3
    <3>2. 0..Len(s) \subseteq T
      BY <1>1, <2>2, <3>1, CountUp
    <3> QED BY <1>1, <3>2
  <2> QED BY <1>3, <2>1, <2>4
<1> QED BY <1>2, <1>3

\* Steps succeed if each does; else the values are those up to a failure.
LEMMA SequentiallyIs ==
    ASSUME NEW r, Len(r) \in Nat
    PROVE  LET all == Sequentially(r) IN
           /\ all.code = "OK" <=> \A n \in 1..Len(r) : r[n].code = "OK"
           /\ all.code = "OK" => all.value = [n \in 1..Len(r) |-> r[n].value]
           /\ \E m \in 0..Len(r) : all.value = [n \in 1..m |-> r[n].value]
<1> DEFINE failed == {n \in 1..Len(r) : r[n].code # "OK"}
           first == CHOOSE n \in failed : \A m \in failed : n <= m
<1>1. CASE failed = {}
  <2>1. Sequentially(r) = Result("OK", [n \in 1..Len(r) |-> r[n].value])
    BY <1>1 DEF Sequentially
  <2>2. Sequentially(r).code = "OK"
        /\ Sequentially(r).value = [n \in 1..Len(r) |-> r[n].value]
    BY <2>1 DEF Result
  <2> QED BY <1>1, <2>2
<1>2. CASE failed # {}
  <2>1. first \in failed
    <3>1. failed \in SUBSET Nat
      OBVIOUS
    <3> HIDE DEF failed
    <3> QED BY <3>1, <1>2, FirstIs
  <2>2. Sequentially(r) = Result(r[first].code, [n \in 1..first |-> r[n].value])
    BY <1>2 DEF Sequentially
  <2> HIDE DEF first
  <2>3. Sequentially(r).code = r[first].code
        /\ Sequentially(r).value = [n \in 1..first |-> r[n].value]
    BY <2>2 DEF Result
  <2> QED BY <2>1, <2>3
<1> QED BY <1>1, <1>2

\* The same, of steps that each yield a sequence (members, elements).
LEMMA AllIs ==
    ASSUME NEW r, Len(r) \in Nat, NEW V, \A n \in 1..Len(r) : r[n].value \in Seq(V)
    PROVE  /\ All(r).code = "OK" <=> \A n \in 1..Len(r) : r[n].code = "OK"
           /\ All(r).value \in Seq(V)
           /\ \A x \in Range(All(r).value) : \E n \in 1..Len(r) : x \in Range(r[n].value)
           /\ All(r).code = "OK" =>
                \A n \in 1..Len(r) : \A x \in Range(r[n].value) : x \in Range(All(r).value)
<1> DEFINE each == Sequentially(r)
<1>1. All(r).code = each.code /\ All(r).value = FlattenSeq(each.value)
  BY DEF All, Result
<1>2. PICK m \in 0..Len(r) : each.value = [n \in 1..m |-> r[n].value]
  BY SequentiallyIs
<1>3. each.code = "OK" <=> \A n \in 1..Len(r) : r[n].code = "OK"
  BY SequentiallyIs
<1>4. each.code = "OK" => each.value = [n \in 1..Len(r) |-> r[n].value]
  BY SequentiallyIs
<1> HIDE DEF each
<1>5. Len(each.value) = m /\ IsSeq(each.value)
  BY <1>2 DEF IsSeq
<1>6. \A n \in 1..m : each.value[n] = r[n].value /\ n \in 1..Len(r)
  BY <1>2
<1>7. \A n \in 1..Len(each.value) : each.value[n] \in Seq(V)
  BY <1>5, <1>6
<1>8. /\ FlattenSeq(each.value) \in Seq(V)
      /\ \A x : x \in Range(FlattenSeq(each.value))
                  <=> \E n \in 1..Len(each.value) : x \in Range(each.value[n])
  BY <1>5, <1>7, FlattenIs
<1>9. each.code = "OK" => \A n \in 1..Len(r) : n \in 1..m
  <2>1. Len([n \in 1..Len(r) |-> r[n].value]) = Len(r)
    OBVIOUS
  <2> QED BY <1>4, <1>5, <2>1
<1> QED BY <1>1, <1>3, <1>5, <1>6, <1>8, <1>9

\* There is no first error exactly if there is none.
LEMMA FirstErrorIs ==
    ASSUME NEW codes, Len(codes) \in Nat
    PROVE  FirstError(codes) = "OK" <=> \A n \in 1..Len(codes) : codes[n] = "OK"
<1> DEFINE failed == {n \in 1..Len(codes) : codes[n] # "OK"}
           first == CHOOSE n \in failed : \A m \in failed : n <= m
<1>1. CASE failed = {}
  BY <1>1 DEF FirstError
<1>2. CASE failed # {}
  <2>1. first \in failed
    <3>1. failed \in SUBSET Nat
      OBVIOUS
    <3> HIDE DEF failed
    <3> QED BY <3>1, <1>2, FirstIs
  <2>2. FirstError(codes) = codes[first]
    BY <1>2 DEF FirstError
  <2> HIDE DEF first
  <2> QED BY <2>1, <2>2
<1> QED BY <1>1, <1>2

-----------------------------------------------------------------------------
(* Structures that are valid, by the depth of what they nest               *)

IsTable(table) ==
    IsSeq(table) /\ \A i \in 1..Len(table) : IsDescriptor(table, table[i])

\* A structure that is valid and comes to at most n structures.
Ranked(table, i, n) ==
    /\ i \in 1..Len(table)
    /\ validate(table, i) = "OK"
    /\ Cardinality(Reached(table, {i})) <= n

\* The tables of SessionAssumption, part by part.
LEMMA TableIs ==
    ASSUME NEW table, IsTable(table)
    PROVE  /\ Len(table) \in Nat /\ DOMAIN table = 1..Len(table)
           /\ \A i \in 1..Len(table) :
                /\ IsDescriptor(table, table[i])
                /\ Len(table[i].fields) \in Nat
                /\ IsSeq(table[i].fields)
BY SeqIs DEF IsTable, IsDescriptor, IsSeq

\* What is reached from what is reached is reached.
LEMMA ReachedIs ==
    ASSUME NEW table, NEW i, i \in DOMAIN table
    PROVE  /\ Reached(table, {i}) \subseteq DOMAIN table
           /\ i \in Reached(table, {i})
           /\ \A j \in Reached(table, {i}) : Reached(table, {j}) \subseteq Reached(table, {i})
           /\ \A n \in NestedIn(table, {i}) :
                  Reached(table, {n}) \subseteq Reached(table, NestedIn(table, {i}))
           /\ \A n \in NestedIn(table, {i}) : n \in DOMAIN table => n \in Reached(table, {i})
<1>1. Reached(table, {i}) \subseteq DOMAIN table
  BY DEF Reached
<1>2. i \in Reached(table, {i})
  BY DEF Reached
<1>3. ASSUME NEW j \in Reached(table, {i})
      PROVE  Reached(table, {j}) \subseteq Reached(table, {i})
  BY DEF Reached
<1>4. ASSUME NEW n \in NestedIn(table, {i})
      PROVE  Reached(table, {n}) \subseteq Reached(table, NestedIn(table, {i}))
  BY DEF Reached
<1>5. ASSUME NEW n \in NestedIn(table, {i}), n \in DOMAIN table
      PROVE  n \in Reached(table, {i})
  <2>1. ASSUME NEW all \in SUBSET DOMAIN table, {i} \subseteq all,
               NestedIn(table, all) \subseteq all
        PROVE  n \in all
    <3>1. n \in Nested(table[i])
      BY <1>5 DEF NestedIn
    <3>2. n \in NestedIn(table, all)
      BY <2>1, <3>1 DEF NestedIn
    <3> QED BY <2>1, <3>2
  <2> QED BY <1>5, <2>1 DEF Reached
<1> QED BY <1>1, <1>2, <1>3, <1>4, <1>5

\* No more structures are reached than there are.
LEMMA ReachedFinite ==
    ASSUME NEW table, IsTable(table), NEW set
    PROVE  /\ IsFiniteSet(Reached(table, set))
           /\ Cardinality(Reached(table, set)) \in 0..Len(table)
<1>1. Len(table) \in Nat /\ Reached(table, set) \subseteq 1..Len(table)
  BY TableIs DEF Reached
<1>2. IsFiniteSet(1..Len(table)) /\ Cardinality(1..Len(table)) = Len(table)
  <2>1. 1 \in Int /\ Len(table) \in Int
    BY <1>1
  <2>2. /\ IsFiniteSet(1..Len(table))
        /\ Cardinality(1..Len(table)) = IF 1 > Len(table) THEN 0 ELSE Len(table) - 1 + 1
    BY <2>1, FS_Interval, Zenon
  <2> QED BY <1>1, <2>2
<1>3. IsFiniteSet(Reached(table, set))
      /\ Cardinality(Reached(table, set)) <= Cardinality(1..Len(table))
  BY <1>1, <1>2, FS_Subset
<1>4. Cardinality(Reached(table, set)) \in Nat
  BY <1>3, FS_CardinalityType
<1> QED BY <1>1, <1>2, <1>3, <1>4

\* A valid structure has valid fields, and what they nest is valid and comes
\* to fewer structures.
LEMMA RankedIs ==
    ASSUME NEW table, IsTable(table), NEW i, NEW n \in Nat, Ranked(table, i, n)
    PROVE  /\ n # 0
           /\ i \in 1..Len(table) /\ table[i].size \in Nat
           /\ \A k \in 1..Len(table[i].fields) :
                LET f == table[i].fields[k] IN
                /\ FieldValid(table, table[i], f)
                /\ {f.offset, f.element_size, f.element_count, f.char_buffer_size}
                      \subseteq Nat
                /\ f.kind = "STRUCT" =>
                     /\ Ranked(table, f.nested, n - 1)
                     /\ f.element_size = table[f.nested].size
<1>0. i \in 1..Len(table) /\ validate(table, i) = "OK"
      /\ Cardinality(Reached(table, {i})) <= n
  BY DEF Ranked
<1>1. DOMAIN table = 1..Len(table) /\ i \in DOMAIN table /\ IsDescriptor(table, table[i])
  BY <1>0, TableIs
<1>2. \A j \in Reached(table, {i}) : /\ DescriptorValid(table, table[j])
                                     /\ j \notin Reached(table, NestedIn(table, {j}))
  BY <1>0 DEF validate
<1>3. i \in Reached(table, {i})
  BY <1>1, ReachedIs
<1>4. n # 0
  <2>1. Cardinality(Reached(table, {i})) # 0
    BY <1>3, ReachedFinite, FS_EmptySet
  <2>2. Cardinality(Reached(table, {i})) \in Nat
    BY ReachedFinite
  <2> QED BY <1>0, <2>1, <2>2
<1>5. ASSUME NEW k \in 1..Len(table[i].fields)
      PROVE  LET f == table[i].fields[k] IN
                /\ FieldValid(table, table[i], f)
                /\ {f.offset, f.element_size, f.element_count, f.char_buffer_size}
                      \subseteq Nat
                /\ f.kind = "STRUCT" =>
                     /\ Ranked(table, f.nested, n - 1)
                     /\ f.element_size = table[f.nested].size
  <2> DEFINE f == table[i].fields[k]
  <2>1. FieldValid(table, table[i], f)
    BY <1>2, <1>3 DEF DescriptorValid
  <2>2. {f.offset, f.element_size, f.element_count, f.char_buffer_size} \subseteq Nat
        /\ f.nested \in 0..Len(table)
    BY <1>1 DEF IsDescriptor
  <2>3. ASSUME f.kind = "STRUCT"
        PROVE  Ranked(table, f.nested, n - 1) /\ f.element_size = table[f.nested].size
    <3>1. f.nested # NoNested /\ f.element_size = table[f.nested].size
      BY <2>1, <2>3 DEF FieldValid
    <3>2. f.nested \in 1..Len(table) /\ f.nested \in DOMAIN table
      BY <1>1, <2>2, <3>1, TableIs DEF NoNested
    <3>3. f.nested \in NestedIn(table, {i})
      <4>1. f.nested \in Nested(table[i])
        BY <3>1 DEF Nested
      <4> QED BY <4>1 DEF NestedIn
    <3>4. f.nested \in Reached(table, {i})
      BY <1>1, <3>2, <3>3, ReachedIs
    <3>5. Reached(table, {f.nested}) \subseteq Reached(table, {i})
      BY <1>1, <3>4, ReachedIs
    <3>6. i \notin Reached(table, {f.nested})
      <4>1. Reached(table, {f.nested}) \subseteq Reached(table, NestedIn(table, {i}))
        BY <1>1, <3>3, ReachedIs
      <4> QED BY <4>1, <1>2, <1>3
    <3>7. validate(table, f.nested) = "OK"
      BY <1>2, <3>5 DEF validate
    <3>8. Cardinality(Reached(table, {f.nested})) < Cardinality(Reached(table, {i}))
      <4>1. Reached(table, {f.nested}) # Reached(table, {i})
        BY <1>3, <3>6
      <4>2. IsFiniteSet(Reached(table, {i}))
        BY ReachedFinite
      <4>3. /\ Cardinality(Reached(table, {f.nested})) <= Cardinality(Reached(table, {i}))
            /\ Cardinality(Reached(table, {f.nested})) # Cardinality(Reached(table, {i}))
        BY <3>5, <4>1, <4>2, FS_Subset
      <4>4. /\ Cardinality(Reached(table, {f.nested})) \in Nat
            /\ Cardinality(Reached(table, {i})) \in Nat
        BY ReachedFinite
      <4> QED BY <4>3, <4>4
    <3>9. Cardinality(Reached(table, {f.nested})) <= n - 1
      <4>1. /\ Cardinality(Reached(table, {f.nested})) \in Nat
            /\ Cardinality(Reached(table, {i})) \in Nat
        BY ReachedFinite
      <4> QED BY <4>1, <3>8, <1>0
    <3> QED BY <3>1, <3>2, <3>7, <3>9 DEF Ranked
  <2> QED BY <2>1, <2>2, <2>3
<1>6. table[i].size \in Nat
  BY <1>1 DEF IsDescriptor
<1> QED BY <1>0, <1>4, <1>5, <1>6

\* Every valid structure comes to at most as many as there are.
LEMMA RankedTop ==
    ASSUME NEW table, IsTable(table), NEW i \in 1..Len(table), validate(table, i) = "OK"
    PROVE  Ranked(table, i, Len(table))
BY TableIs, ReachedFinite DEF Ranked

-----------------------------------------------------------------------------
(* Where the values of a structure lie                                     *)

\* The bytes that one element of a field takes.
ElementSize(f) == IF f.kind = "CHAR_ARRAY" THEN f.char_buffer_size ELSE f.element_size

Bytes(address, size) == address..(address + size - 1)
ElementBytes(f, address) == Bytes(address, ElementSize(f))
FieldBytes(f, base) == Bytes(base + f.offset, FieldSize(f))

\* A field of a structure that is valid.
IsField(table, f) ==
    \E i \in 1..Len(table) :
        /\ Ranked(table, i, Len(table))
        /\ \E k \in 1..Len(table[i].fields) : f = table[i].fields[k]

Natural(f) ==
    f.offset \in Nat /\ f.element_size \in Nat /\ f.element_count \in Nat
    /\ f.char_buffer_size \in Nat

\* What validation and the compiler grant of a field.
LEMMA FieldIs ==
    ASSUME NEW table, IsTable(table), NEW f, IsField(table, f)
    PROVE  /\ Natural(f) /\ f.element_count # 0 /\ f.element_size # 0
           /\ f.kind \in Kinds
           /\ f.kind = "CHAR_ARRAY" => f.element_count = 1 /\ f.char_buffer_size # 0
           /\ f.kind \in {"FLOAT", "DOUBLE"} =>
                f.element_size = IF f.kind = "FLOAT" THEN FloatSize ELSE DoubleSize
           /\ is_hex(f) => f.kind \in Integral /\ f.element_size = 1 /\ f.element_count > 1
           /\ f.kind = "STRUCT" => f.nested \in 1..Len(table)
                                   /\ Ranked(table, f.nested, Len(table))
<1>0. PICK i \in 1..Len(table) : /\ Ranked(table, i, Len(table))
                                 /\ \E k \in 1..Len(table[i].fields) : f = table[i].fields[k]
  BY DEF IsField
<1>1. PICK k \in 1..Len(table[i].fields) : f = table[i].fields[k]
  BY <1>0
<1>2. Len(table) \in Nat /\ IsDescriptor(table, table[i])
  BY <1>1, TableIs
<1>3. /\ FieldValid(table, table[i], f) /\ Natural(f)
      /\ f.kind = "STRUCT" => Ranked(table, f.nested, Len(table) - 1)
  BY <1>0, <1>1, <1>2, RankedIs DEF Natural
<1>4. /\ f.kind \in Kinds /\ f.element_size # 0 /\ f.element_count # 0
      /\ f.kind = "CHAR_ARRAY" => f.element_count = 1 /\ f.char_buffer_size # 0
  BY <1>3 DEF FieldValid, ShapeValid
<1>5. f.kind \in {"FLOAT", "DOUBLE"} =>
           f.element_size = IF f.kind = "FLOAT" THEN FloatSize ELSE DoubleSize
  BY <1>1, <1>2 DEF IsDescriptor
<1>6. is_hex(f) => f.kind \in Integral /\ f.element_size = 1 /\ f.element_count > 1
  BY <1>3 DEF FieldValid, MetaAttributesValid, is_hex, is_byte_array
<1>7. f.kind = "STRUCT" => f.nested \in 1..Len(table) /\ Ranked(table, f.nested, Len(table))
  <2>1. Cardinality(Reached(table, {f.nested})) \in Nat
    BY ReachedFinite
  <2> QED BY <1>2, <1>3, <2>1 DEF Ranked
<1> QED BY <1>3, <1>4, <1>5, <1>6, <1>7

\* Elements lie one after the other.
LEMMA Products ==
    ASSUME NEW s \in Nat, NEW c \in Nat, NEW m \in 1..c
    PROVE  /\ (m - 1) * s \in Nat /\ (m - 1) * s + s <= c * s
           /\ \A l \in 1..c : m < l => (m - 1) * s + s <= (l - 1) * s
<1>1. PICK u \in Nat : u = m - 1
  OBVIOUS
<1>2. u * s \in Nat
  BY SMT
<1>3. \A l \in 1..(c + 1) : m < l => u * s + s <= (l - 1) * s
  <2> SUFFICES ASSUME NEW l \in 1..(c + 1), m < l PROVE u * s + s <= (l - 1) * s
    OBVIOUS
  <2>1. PICK v \in Nat : l - 1 = u + 1 + v
    <3>1. l - 1 - u - 1 \in Nat
      BY <1>1
    <3> QED BY <3>1, <1>1
  <2>2. (u + 1 + v) * s = u * s + s + v * s /\ v * s \in Nat
    BY SMT
  <2> QED BY <1>2, <2>1, <2>2
<1>4. c + 1 \in 1..(c + 1) /\ m < c + 1
  OBVIOUS
<1>5. u * s + s <= c * s
  BY <1>3, <1>4
<1> QED BY <1>1, <1>2, <1>3, <1>5

\* Sizes and offsets are numbers.
LEMMA SizesAre ==
    ASSUME NEW table, IsTable(table), NEW f, IsField(table, f)
    PROVE  FieldSize(f) \in Nat /\ ElementSize(f) \in Nat /\ f.offset \in Nat
<1>1. Natural(f)
  BY FieldIs
<1>2. f.element_count * f.element_size \in Nat
  BY <1>1 DEF Natural
<1> QED BY <1>1, <1>2 DEF FieldSize, ElementSize, Natural

\* Bytes from a to a + s, within those from b to b + t.
LEMMA BytesWithin ==
    ASSUME NEW a \in Nat, NEW s \in Nat, NEW b \in Nat, NEW t \in Nat, b <= a, a + s <= b + t
    PROVE  Bytes(a, s) \subseteq Bytes(b, t)
BY DEF Bytes

\* Bytes from a to a + s, after or before those from b to b + t.
LEMMA BytesApart ==
    ASSUME NEW a \in Nat, NEW s \in Nat, NEW b \in Nat, NEW t \in Nat,
           a + s <= b \/ b + t <= a
    PROVE  Bytes(a, s) \cap Bytes(b, t) = {}
BY DEF Bytes

\* A field lies within a structure that is as large as its end.
LEMMA FieldWithin ==
    ASSUME NEW f, f.offset \in Nat, FieldSize(f) \in Nat, NEW base \in Nat, NEW size \in Nat,
           f.offset + FieldSize(f) <= size
    PROVE  FieldBytes(f, base) \subseteq Bytes(base, size)
BY DEF FieldBytes, Bytes

\* Fields, one of which ends where the other begins or before, share no byte.
LEMMA FieldsApart ==
    ASSUME NEW f, f.offset \in Nat, FieldSize(f) \in Nat,
           NEW g, g.offset \in Nat, FieldSize(g) \in Nat, NEW base \in Nat,
           f.offset + FieldSize(f) <= g.offset \/ g.offset + FieldSize(g) <= f.offset
    PROVE  FieldBytes(f, base) \cap FieldBytes(g, base) = {}
BY DEF FieldBytes, Bytes

\* An element lies in its field, and after those before it.
LEMMA ElementLies ==
    ASSUME NEW table, IsTable(table), NEW f, IsField(table, f), NEW base \in Nat,
           NEW m \in 1..f.element_count
    PROVE  LET a == element_address(f, base, m - 1) IN
           /\ a \in Nat
           /\ base + f.offset <= a /\ a + ElementSize(f) <= base + f.offset + FieldSize(f)
           /\ \A l \in 1..f.element_count : m < l =>
                a + ElementSize(f) <= element_address(f, base, l - 1)
<1>1. /\ Natural(f)
      /\ f.kind = "CHAR_ARRAY" => f.element_count = 1
  BY FieldIs
<1>2. (m - 1) * f.element_size \in Nat
      /\ (m - 1) * f.element_size + f.element_size <= f.element_count * f.element_size
      /\ \A l \in 1..f.element_count :
            m < l => (m - 1) * f.element_size + f.element_size <= (l - 1) * f.element_size
  BY <1>1, Products DEF Natural
<1>3. element_address(f, base, m - 1) = base + f.offset + (m - 1) * f.element_size
  BY DEF element_address
<1>4. element_address(f, base, m - 1) \in Nat
      /\ base + f.offset <= element_address(f, base, m - 1)
  BY <1>1, <1>2, <1>3 DEF Natural
<1>5. CASE f.kind = "CHAR_ARRAY"
  <2>1. m = 1 /\ f.element_count = 1
    BY <1>1, <1>5
  <2>2. element_address(f, base, m - 1) = base + f.offset
    BY <1>1, <1>3, <2>1 DEF Natural
  <2>3. ElementSize(f) = f.char_buffer_size /\ FieldSize(f) = f.char_buffer_size
    BY <1>5 DEF ElementSize, FieldSize
  <2>4. base + f.offset + f.char_buffer_size \in Nat
    BY <1>1 DEF Natural
  <2> QED BY <1>4, <2>1, <2>2, <2>3, <2>4
<1>6. CASE f.kind # "CHAR_ARRAY"
  <2>1. ElementSize(f) = f.element_size /\ FieldSize(f) = f.element_count * f.element_size
    BY <1>6 DEF ElementSize, FieldSize
  <2>2. PICK x \in Nat : x = (m - 1) * f.element_size
    BY <1>2
  <2>3. PICK y \in Int : y = f.element_count * f.element_size
    BY <1>1 DEF Natural
  <2>4. element_address(f, base, m - 1) + ElementSize(f) <= base + f.offset + FieldSize(f)
    BY <1>1, <1>2, <1>3, <2>1, <2>2, <2>3 DEF Natural
  <2>5. ASSUME NEW l \in 1..f.element_count, m < l
        PROVE  element_address(f, base, m - 1) + ElementSize(f)
                  <= element_address(f, base, l - 1)
    <3>1. PICK z \in Int : z = (l - 1) * f.element_size
      BY <1>1 DEF Natural
    <3>2. x + f.element_size <= z
      BY <1>2, <2>2, <2>5, <3>1
    <3>3. element_address(f, base, l - 1) = base + f.offset + z
      BY <3>1 DEF element_address
    <3> QED BY <1>1, <1>3, <2>1, <2>2, <3>2, <3>3 DEF Natural
  <2> QED BY <1>4, <2>4, <2>5
<1> QED BY <1>5, <1>6

\* The same, of the bytes.
LEMMA ElementIs ==
    ASSUME NEW table, IsTable(table), NEW f, IsField(table, f), NEW base \in Nat,
           NEW m \in 1..f.element_count
    PROVE  /\ element_address(f, base, m - 1) \in Nat
           /\ ElementBytes(f, element_address(f, base, m - 1)) \subseteq FieldBytes(f, base)
           /\ \A l \in 1..f.element_count : m # l =>
                ElementBytes(f, element_address(f, base, m - 1))
                  \cap ElementBytes(f, element_address(f, base, l - 1)) = {}
<1>1. FieldSize(f) \in Nat /\ ElementSize(f) \in Nat /\ f.offset \in Nat
      /\ f.element_count \in Nat
  BY SizesAre, FieldIs DEF Natural
<1>2. PICK a \in Nat : a = element_address(f, base, m - 1)
  BY ElementLies
<1>3. base + f.offset <= a /\ a + ElementSize(f) <= base + f.offset + FieldSize(f)
  BY <1>2, ElementLies
<1>4. ElementBytes(f, a) \subseteq FieldBytes(f, base)
  <2>1. base + f.offset \in Nat
    BY <1>1
  <2> QED BY <1>1, <1>3, <2>1, BytesWithin DEF ElementBytes, FieldBytes
<1>5. ASSUME NEW l \in 1..f.element_count, m # l
      PROVE  ElementBytes(f, a) \cap ElementBytes(f, element_address(f, base, l - 1)) = {}
  <2>1. PICK b \in Nat : b = element_address(f, base, l - 1)
    BY ElementLies
  <2>2. m < l \/ l < m
    BY <1>5, <1>1
  <2>3. a + ElementSize(f) <= b \/ b + ElementSize(f) <= a
    BY <1>2, <2>1, <2>2, ElementLies
  <2>4. ElementBytes(f, a) \cap ElementBytes(f, b) = {}
    BY <1>1, <2>3, BytesApart DEF ElementBytes
  <2> QED BY <2>1, <2>4
<1> QED BY <1>2, <1>4, <1>5

\* The fields of a valid structure lie in it and share no byte.
LEMMA FieldsOf ==
    ASSUME NEW table, IsTable(table), NEW n \in 0..Len(table), NEW i, Ranked(table, i, n)
    PROVE  /\ Ranked(table, i, Len(table))
           /\ \A k \in 1..Len(table[i].fields) :
                LET f == table[i].fields[k] IN
                /\ IsField(table, f)
                /\ f.kind = "STRUCT" => /\ Ranked(table, f.nested, n - 1)
                                        /\ ElementSize(f) = table[f.nested].size
                /\ \A base \in Nat :
                     /\ FieldBytes(f, base) \subseteq Bytes(base, table[i].size)
                     /\ \A m \in 1..Len(table[i].fields) : m # k =>
                          FieldBytes(f, base) \cap FieldBytes(table[i].fields[m], base) = {}
<1>1. Len(table) \in Nat /\ i \in 1..Len(table)
  BY TableIs DEF Ranked
<1>2. Ranked(table, i, Len(table))
  <2>1. Cardinality(Reached(table, {i})) \in Nat
    BY ReachedFinite
  <2> QED BY <1>1, <2>1 DEF Ranked
<1>3. IsDescriptor(table, table[i]) /\ table[i].size \in Nat
  BY <1>1, TableIs DEF IsDescriptor
<1>4. ASSUME NEW k \in 1..Len(table[i].fields)
      PROVE  LET f == table[i].fields[k] IN
                /\ IsField(table, f)
                /\ f.kind = "STRUCT" => /\ Ranked(table, f.nested, n - 1)
                                        /\ ElementSize(f) = table[f.nested].size
                /\ \A base \in Nat :
                     /\ FieldBytes(f, base) \subseteq Bytes(base, table[i].size)
                     /\ \A m \in 1..Len(table[i].fields) : m # k =>
                          FieldBytes(f, base) \cap FieldBytes(table[i].fields[m], base) = {}
  <2>1. \A h \in 1..Len(table[i].fields) : IsField(table, table[i].fields[h])
    BY <1>1, <1>2 DEF IsField
  <2>2. PICK f : f = table[i].fields[k]
    OBVIOUS
  <2>3. IsField(table, f)
    BY <2>1, <2>2
  <2>4. FieldValid(table, table[i], f)
        /\ (f.kind = "STRUCT" => /\ Ranked(table, f.nested, n - 1)
                                 /\ f.element_size = table[f.nested].size)
    BY <1>1, <2>2, RankedIs
  <2>5. f.offset \in Nat /\ FieldSize(f) \in Nat
    BY <2>3, SizesAre
  <2>6. f.offset + FieldSize(f) <= table[i].size
    <3>1. f.offset <= table[i].size /\ FieldSize(f) <= table[i].size - f.offset
      BY <2>4 DEF FieldValid
    <3> QED BY <2>5, <3>1, <1>3
  <2>7. ASSUME NEW base \in Nat
        PROVE  /\ FieldBytes(f, base) \subseteq Bytes(base, table[i].size)
               /\ \A m \in 1..Len(table[i].fields) : m # k =>
                    FieldBytes(f, base) \cap FieldBytes(table[i].fields[m], base) = {}
    <3>2. FieldBytes(f, base) \subseteq Bytes(base, table[i].size)
      BY <2>5, <2>6, <1>3, FieldWithin
    <3>3. ASSUME NEW m \in 1..Len(table[i].fields), m # k
          PROVE  FieldBytes(f, base) \cap FieldBytes(table[i].fields[m], base) = {}
      <4>1. PICK g : g = table[i].fields[m]
        OBVIOUS
      <4>2. g.offset \in Nat /\ FieldSize(g) \in Nat
        BY <2>1, <4>1, SizesAre
      <4>3. f.offset + FieldSize(f) <= g.offset \/ g.offset + FieldSize(g) <= f.offset
        BY <1>3, <2>2, <3>3, <4>1 DEF IsDescriptor
      <4>5. FieldBytes(f, base) \cap FieldBytes(g, base) = {}
        BY <2>5, <4>2, <4>3, FieldsApart
      <4> QED BY <4>1, <4>5
    <3> QED BY <3>2, <3>3
  <2>8. f.kind = "STRUCT" => ElementSize(f) = f.element_size
    BY DEF ElementSize
  <2> QED BY <2>2, <2>3, <2>4, <2>7, <2>8
<1> QED BY <1>2, <1>4

\* A field of a structure that comes to at most n structures.
FieldWith(table, i, n, f, base) ==
    /\ IsField(table, f)
    /\ f.kind = "STRUCT" => /\ Ranked(table, f.nested, n - 1)
                            /\ ElementSize(f) = table[f.nested].size
    /\ FieldBytes(f, base) \subseteq Bytes(base, table[i].size)

\* The same, of one field.
LEMMA FieldOf ==
    ASSUME NEW table, IsTable(table), NEW n \in 0..Len(table), NEW i, Ranked(table, i, n),
           NEW k \in 1..Len(table[i].fields), NEW f, f = table[i].fields[k],
           NEW base \in Nat
    PROVE  FieldWith(table, i, n, f, base)
<1>1. LET g == table[i].fields[k] IN
      /\ IsField(table, g)
      /\ g.kind = "STRUCT" => /\ Ranked(table, g.nested, n - 1)
                              /\ ElementSize(g) = table[g.nested].size
      /\ \A b \in Nat :
           /\ FieldBytes(g, b) \subseteq Bytes(b, table[i].size)
           /\ \A m \in 1..Len(table[i].fields) : m # k =>
                FieldBytes(g, b) \cap FieldBytes(table[i].fields[m], b) = {}
  BY FieldsOf
<1> QED BY <1>1 DEF FieldWith
\* A place: a field, that is no structure, at an address.
IsPlace(table, p) ==
    /\ IsField(table, p.field) /\ p.field.kind # "STRUCT"
    /\ p.address \in Nat

PlaceBytes(p) == ElementBytes(p.field, p.address)

\* The places of element m of field k of a structure.
Here(table, n, i, base, k, m) ==
    PlacesAt(Places(table)[n], table[i].fields[k],
             element_address(table[i].fields[k], base, m - 1))

\* A place of a structure is one of some element of some field.
LEMMA PlaceIs ==
    ASSUME NEW table, IsTable(table), NEW n \in 1..Len(table), NEW i \in 1..Len(table),
           NEW base \in Nat
    PROVE  \A p : p \in Places(table)[n][i][base] <=>
             \E k \in 1..Len(table[i].fields) :
                \E m \in 1..table[i].fields[k].element_count :
                    p \in Here(table, n - 1, i, base, k, m)
<1>1. Len(table) \in Nat /\ n \in 0..Len(table) /\ n # 0
  BY TableIs
<1>2. Places(table)[n][i][base] = PlacesIn(Places(table)[n - 1], table[i].fields, base)
  BY <1>1, PlacesAre
<1>3. \A p, nested, f : p \in PlacesOf(nested, f, base) <=>
          \E m \in 1..f.element_count : p \in PlacesAt(nested, f, element_address(f, base, m - 1))
  BY Zenon DEF PlacesOf
<1>4. \A p, nested, fields : p \in PlacesIn(nested, fields, base) <=>
          \E k \in 1..Len(fields) : p \in PlacesOf(nested, fields[k], base)
  BY Zenon DEF PlacesIn
<1>5. \A p, k : p \in PlacesOf(Places(table)[n - 1], table[i].fields[k], base) <=>
          \E m \in 1..table[i].fields[k].element_count :
              p \in Here(table, n - 1, i, base, k, m)
  BY <1>3 DEF Here
<1> SUFFICES ASSUME NEW p
             PROVE  p \in Places(table)[n][i][base] <=>
                      \E k \in 1..Len(table[i].fields) :
                         \E m \in 1..table[i].fields[k].element_count :
                             p \in Here(table, n - 1, i, base, k, m)
  OBVIOUS
<1>6. p \in Places(table)[n][i][base] <=>
        \E k \in 1..Len(table[i].fields) :
           p \in PlacesOf(Places(table)[n - 1], table[i].fields[k], base)
  <2>1. PICK fields : fields = table[i].fields
    OBVIOUS
  <2>2. PICK nested : nested = Places(table)[n - 1]
    OBVIOUS
  <2>3. p \in PlacesIn(nested, fields, base) <=>
          \E k \in 1..Len(fields) : p \in PlacesOf(nested, fields[k], base)
    BY <1>4, Zenon
  <2>4. Places(table)[n][i][base] = PlacesIn(nested, fields, base)
    BY <1>2, <2>1, <2>2, Zenon
  <2> QED BY <2>1, <2>2, <2>3, <2>4
<1> QED BY <1>5, <1>6, Zenon

\* The places of a structure lie in it, and two are the same or share no byte.
LEMMA PlacesLie ==
    ASSUME NEW table, IsTable(table), NEW n \in 0..Len(table)
    PROVE  \A i, base : Ranked(table, i, n) /\ base \in Nat =>
             /\ \A p \in Places(table)[n][i][base] :
                  IsPlace(table, p) /\ PlaceBytes(p) \subseteq Bytes(base, table[i].size)
             /\ \A p, q \in Places(table)[n][i][base] :
                  p = q \/ PlaceBytes(p) \cap PlaceBytes(q) = {}
<1> DEFINE Lie(m) == \A i, base : Ranked(table, i, m) /\ base \in Nat =>
             /\ \A p \in Places(table)[m][i][base] :
                  IsPlace(table, p) /\ PlaceBytes(p) \subseteq Bytes(base, table[i].size)
             /\ \A p, q \in Places(table)[m][i][base] :
                  p = q \/ PlaceBytes(p) \cap PlaceBytes(q) = {}
           T == {m \in 0..n : Lie(m)}
<1>0. Len(table) \in Nat /\ n \in Nat
  BY TableIs
<1>1. 0 \in T
  <2>1. \A i : ~Ranked(table, i, 0)
    BY RankedIs
  <2> QED BY <1>0, <2>1
<1>2. ASSUME NEW m \in 1..n, m - 1 \in T PROVE m \in T
  <2>1. SUFFICES ASSUME NEW i, NEW base \in Nat, Ranked(table, i, m)
                 PROVE
             /\ \A p \in Places(table)[m][i][base] :
                  IsPlace(table, p) /\ PlaceBytes(p) \subseteq Bytes(base, table[i].size)
             /\ \A p, q \in Places(table)[m][i][base] :
                  p = q \/ PlaceBytes(p) \cap PlaceBytes(q) = {}
    OBVIOUS
  <2>2. m \in 0..Len(table) /\ m - 1 \in 0..Len(table) /\ i \in 1..Len(table)
        /\ m \in 1..Len(table)
    BY <1>0, <2>1, RankedIs
  <2>3. \A p : p \in Places(table)[m][i][base] <=>
            \E k \in 1..Len(table[i].fields) :
               \E l \in 1..table[i].fields[k].element_count :
                  p \in Here(table, m - 1, i, base, k, l)
    <3> HIDE DEF Lie, T
    <3> QED BY <2>2, PlaceIs
  <2>4. ASSUME NEW k \in 1..Len(table[i].fields), NEW l \in 1..table[i].fields[k].element_count
        PROVE  /\ \A p \in Here(table, m - 1, i, base, k, l) :
                    /\ IsPlace(table, p)
                    /\ PlaceBytes(p) \subseteq
                         ElementBytes(table[i].fields[k],
                                      element_address(table[i].fields[k], base, l - 1))
                    /\ PlaceBytes(p) \subseteq FieldBytes(table[i].fields[k], base)
               /\ \A p, q \in Here(table, m - 1, i, base, k, l) : p = q \/ PlaceBytes(p) \cap PlaceBytes(q) = {}
    <3>1. PICK f : f = table[i].fields[k]
      OBVIOUS
    <3>2. PICK a : a = element_address(f, base, l - 1)
      OBVIOUS
    <3>3. /\ IsField(table, f)
          /\ f.kind = "STRUCT" => /\ Ranked(table, f.nested, m - 1)
                                  /\ ElementSize(f) = table[f.nested].size
      <4>1. FieldWith(table, i, m, f, base)
        BY <2>1, <2>2, <3>1, FieldOf
      <4> QED BY <4>1 DEF FieldWith
    <3>4. a \in Nat /\ ElementBytes(f, a) \subseteq FieldBytes(f, base)
      BY <3>1, <3>2, <3>3, ElementIs
    <3>5. Lie(m - 1)
      BY <1>2
    <3> HIDE DEF Lie, T
    <3>6. f.kind = "STRUCT" =>
             /\ \A p \in Places(table)[m - 1][f.nested][a] :
                  IsPlace(table, p) /\ PlaceBytes(p) \subseteq Bytes(a, table[f.nested].size)
             /\ \A p, q \in Places(table)[m - 1][f.nested][a] :
                  p = q \/ PlaceBytes(p) \cap PlaceBytes(q) = {}
      BY <3>3, <3>4, <3>5 DEF Lie
    <3>7. Here(table, m - 1, i, base, k, l) = PlacesAt(Places(table)[m - 1], f, a)
      BY <3>1, <3>2 DEF Here
    <3>8. \A p \in Here(table, m - 1, i, base, k, l) : IsPlace(table, p) /\ PlaceBytes(p) \subseteq ElementBytes(f, a)
      <4>1. CASE f.kind = "STRUCT"
        BY <3>3, <3>6, <3>7, <4>1 DEF PlacesAt, ElementBytes
      <4>2. CASE f.kind # "STRUCT"
        BY <3>3, <3>4, <3>7, <4>2 DEF PlacesAt, IsPlace, PlaceBytes
      <4> QED BY <4>1, <4>2
    <3>9. \A p, q \in Here(table, m - 1, i, base, k, l) : p = q \/ PlaceBytes(p) \cap PlaceBytes(q) = {}
      <4>1. CASE f.kind = "STRUCT"
        BY <3>6, <3>7, <4>1 DEF PlacesAt
      <4>2. CASE f.kind # "STRUCT"
        BY <3>7, <4>2 DEF PlacesAt
      <4> QED BY <4>1, <4>2
    <3> QED BY <3>1, <3>2, <3>4, <3>8, <3>9
  <2>5. \A k \in 1..Len(table[i].fields) :
           /\ FieldBytes(table[i].fields[k], base) \subseteq Bytes(base, table[i].size)
           /\ IsField(table, table[i].fields[k])
           /\ \A h \in 1..Len(table[i].fields) : h # k =>
                FieldBytes(table[i].fields[k], base)
                  \cap FieldBytes(table[i].fields[h], base) = {}
    BY <2>1, <2>2, FieldsOf
  <2>6. \A p \in Places(table)[m][i][base] :
            IsPlace(table, p) /\ PlaceBytes(p) \subseteq Bytes(base, table[i].size)
    BY <2>3, <2>4, <2>5
  <2>7. ASSUME NEW p \in Places(table)[m][i][base], NEW q \in Places(table)[m][i][base]
        PROVE  p = q \/ PlaceBytes(p) \cap PlaceBytes(q) = {}
    <3>1. PICK k \in 1..Len(table[i].fields) :
             \E l \in 1..table[i].fields[k].element_count : p \in Here(table, m - 1, i, base, k, l)
      BY <2>3
    <3>2. PICK l \in 1..table[i].fields[k].element_count : p \in Here(table, m - 1, i, base, k, l)
      BY <3>1
    <3>3. PICK h \in 1..Len(table[i].fields) :
             \E j \in 1..table[i].fields[h].element_count : q \in Here(table, m - 1, i, base, h, j)
      BY <2>3
    <3>4. PICK j \in 1..table[i].fields[h].element_count : q \in Here(table, m - 1, i, base, h, j)
      BY <3>3
    <3>5. CASE k # h
      <4>1. FieldBytes(table[i].fields[k], base) \cap FieldBytes(table[i].fields[h], base) = {}
        BY <2>5, <3>5
      <4> QED BY <2>4, <3>2, <3>4, <4>1
    <3>6. CASE k = h /\ l # j
      <4>1. ElementBytes(table[i].fields[k], element_address(table[i].fields[k], base, l - 1))
              \cap ElementBytes(table[i].fields[k],
                                element_address(table[i].fields[k], base, j - 1)) = {}
        BY <2>5, <3>6, ElementIs
      <4> QED BY <2>4, <3>2, <3>4, <3>6, <4>1
    <3>7. CASE k = h /\ l = j
      BY <2>4, <3>2, <3>4, <3>7
    <3> QED BY <3>5, <3>6, <3>7
  <2> QED BY <2>6, <2>7
<1>3. n \in T
  <2> HIDE DEF T
  <2>1. \A m \in 1..n : m - 1 \in T => m \in T
    BY <1>2
  <2>2. 0..n \subseteq T
    BY <1>0, <1>1, <2>1, CountUp
  <2> QED BY <1>0, <2>2
<1> QED BY <1>3

-----------------------------------------------------------------------------
(* Numbers, sequences and memory                                           *)

\* A power of the number of byte values, factor by factor.
LEMMA PowersAre ==
    ASSUME NEW n \in Nat
    PROVE  \E f : /\ Combinations(n) = f[n]
                 /\ \A k \in 0..n : f[k] = IF k = 0 THEN 1 ELSE ByteValues * f[k - 1]
<1> DEFINE N == n
           Step(k, before) ==
             IF k = 0 THEN 1 ELSE ByteValues * before
           Right(f, m) == f = [k \in 0..m |-> Step(k, f[k - 1])]
           Values == CHOOSE f : Right(f, N)
           T == {m \in 0..N : \E f : Right(f, m)}
<1>1. \A a, b : Step(0, a) = Step(0, b)
  OBVIOUS
<1>2. Combinations(n) = Values[n]
  BY DEF Combinations
<1> HIDE DEF Step
<1>3. 0 \in T
  <2> DEFINE f == [k \in 0..0 |-> Step(0, 0)]
  <2>1. \A k \in 0..0 : Step(k, f[k - 1]) = Step(0, 0)
    BY <1>1
  <2>2. Right(f, 0)
    BY <2>1
  <2> QED BY <2>2
<1>4. ASSUME NEW m \in 1..N, m - 1 \in T PROVE m \in T
  <2>1. PICK g : Right(g, m - 1)
    BY <1>4
  <2> DEFINE f == [k \in 0..m |-> IF k = m THEN Step(m, g[m - 1]) ELSE g[k]]
  <2>2. \A k \in 0..m : f[k] = Step(k, f[k - 1])
    <3> TAKE k \in 0..m
    <3>1. CASE k = m
      BY <3>1
    <3>2. CASE k # m /\ k = 0
      BY <2>1, <3>2, <1>1
    <3>3. CASE k # m /\ k # 0
      <4>1. k \in 0..(m - 1) /\ k - 1 \in 0..m /\ k - 1 # m
        BY <3>3
      <4>2. f[k] = g[k] /\ f[k - 1] = g[k - 1]
        BY <3>3, <4>1
      <4> QED BY <2>1, <4>1, <4>2
    <3> QED BY <3>1, <3>2, <3>3
  <2>3. f = [k \in 0..m |-> f[k]]
    OBVIOUS
  <2> HIDE DEF f
  <2>4. Right(f, m)
    BY <2>2, <2>3
  <2> HIDE DEF Right
  <2> QED BY <2>4, <1>4
<1>5. N \in T
  <2> HIDE DEF T
  <2>1. \A m \in 1..N : m - 1 \in T => m \in T
    BY <1>4
  <2>2. 0..N \subseteq T
    BY <1>3, <2>1, CountUp
  <2> QED BY <2>2
<1>6. Right(Values, N)
  <2> HIDE DEF Right
  <2> QED BY <1>5
<1>7. \A k \in 0..N : Values[k] = Step(k, Values[k - 1])
  BY <1>6
<1> USE DEF Step
<1> HIDE DEF Right, T
<1>8. ASSUME NEW k \in 0..N
      PROVE  Step(k, Values[k - 1]) =
                IF k = 0 THEN 1 ELSE ByteValues * Values[k - 1]
  OBVIOUS
<1> HIDE DEF Step, Values
<1>9. \A k \in 0..n : Values[k] = IF k = 0 THEN 1 ELSE ByteValues * Values[k - 1]
  BY <1>7, <1>8
<1> QED BY <1>2, <1>9

\* The powers of the number of byte values, by the next one.
LEMMA CombinationsAre ==
    ASSUME NEW n \in Nat
    PROVE  /\ Combinations(n) \in Nat \ {0}
           /\ Combinations(0) = 1
           /\ Combinations(n + 1) = ByteValues * Combinations(n)
<1>0. ByteValues \in Nat /\ ByteValues > 1
  BY ValuesAssumption
<1>1. ASSUME NEW m \in Nat
      PROVE  \E f : /\ Combinations(m) = f[m]
                    /\ f[0] = 1
                    /\ \A k \in 1..m : f[k] = ByteValues * f[k - 1]
                    /\ \A k \in 0..m : f[k] \in Nat \ {0}
  <2>1. PICK f : /\ Combinations(m) = f[m]
                 /\ \A k \in 0..m : f[k] = IF k = 0 THEN 1 ELSE ByteValues * f[k - 1]
    BY PowersAre
  <2>2. f[0] = 1
    BY <2>1
  <2>3. \A k \in 1..m : f[k] = ByteValues * f[k - 1]
    BY <2>1
  <2>4. \A k \in 0..m : f[k] \in Nat \ {0}
    <3> DEFINE T == {k \in 0..m : f[k] \in Nat \ {0}}
    <3>1. 0 \in T
      BY <2>2
    <3>2. ASSUME NEW k \in 1..m, k - 1 \in T PROVE k \in T
      <4>1. PICK v \in Nat \ {0} : v = f[k - 1]
        BY <3>2
      <4>2. ByteValues * v \in Nat \ {0}
        BY <1>0
      <4> QED BY <2>3, <4>1, <4>2
    <3> HIDE DEF T
    <3>3. \A k \in 1..m : k - 1 \in T => k \in T
      BY <3>2
    <3>4. 0..m \subseteq T
      BY <3>1, <3>3, CountUp
    <3> QED BY <3>4 DEF T
  <2> QED BY <2>1, <2>2, <2>3, <2>4
<1>2. PICK f : /\ Combinations(n) = f[n]
               /\ f[0] = 1
               /\ \A k \in 1..n : f[k] = ByteValues * f[k - 1]
               /\ \A k \in 0..n : f[k] \in Nat \ {0}
  BY <1>1
<1>3. PICK g : /\ Combinations(n + 1) = g[n + 1]
               /\ g[0] = 1
               /\ \A k \in 1..(n + 1) : g[k] = ByteValues * g[k - 1]
  <2>1. n + 1 \in Nat
    OBVIOUS
  <2> QED BY <1>1, <2>1
<1>4. g[n] = f[n]
  <2> DEFINE T == {k \in 0..n : g[k] = f[k]}
  <2>1. 0 \in T
    BY <1>2, <1>3
  <2>2. ASSUME NEW k \in 1..n, k - 1 \in T PROVE k \in T
    <3>1. f[k] = ByteValues * f[k - 1] /\ g[k] = ByteValues * g[k - 1]
      BY <1>2, <1>3
    <3> QED BY <2>2, <3>1
  <2> HIDE DEF T
  <2>3. \A k \in 1..n : k - 1 \in T => k \in T
    BY <2>2
  <2>4. 0..n \subseteq T
    BY <2>1, <2>3, CountUp
  <2> QED BY <2>4 DEF T
<1>5. Combinations(0) = 1
  <2>1. \E h : Combinations(0) = h[0] /\ h[0] = 1
    BY <1>1
  <2> QED BY <2>1
<1>6. g[n + 1] = ByteValues * g[n]
  <2>1. n + 1 \in 1..(n + 1) /\ (n + 1) - 1 = n
    OBVIOUS
  <2> QED BY <2>1, <1>3
<1> QED BY <1>2, <1>3, <1>4, <1>5, <1>6

\* The bytes of a number.
LEMMA BytesOfIs ==
    ASSUME NEW size \in Nat, NEW value \in Int
    PROVE  BytesOf(value, size) \in Seq(Byte) /\ Len(BytesOf(value, size)) = size
<1>1. ByteValues \in Nat \ {0}
  BY ValuesAssumption
<1>2. ASSUME NEW k \in 1..size
      PROVE  (value \div Combinations(k - 1)) % ByteValues \in Byte
  <2>1. PICK c \in Nat \ {0} : c = Combinations(k - 1)
    BY CombinationsAre
  <2>2. PICK q \in Int : q = value \div c
    BY <2>1
  <2>3. q % ByteValues \in 0..(ByteValues - 1)
    BY <1>1
  <2> QED BY <2>1, <2>2, <2>3 DEF Byte
<1>3. [k \in 1..size |-> (value \div Combinations(k - 1)) % ByteValues] \in Seq(Byte)
  BY <1>2, IsASeq
<1> QED BY <1>3 DEF BytesOf

\* Sequences of the library are sequences here.
LEMMA SequenceIs ==
    ASSUME NEW S, NEW s \in Seq(S)
    PROVE  IsSeq(s)
<1>1. Len(s) \in Nat /\ s \in [1..Len(s) -> S]
  BY LenProperties
<1>2. s = [n \in 1..Len(s) |-> s[n]]
  BY <1>1
<1> QED BY <1>1, <1>2 DEF IsSeq

\* A sequence and one element more.
LEMMA AppendIs ==
    ASSUME NEW s, IsSeq(s), NEW x
    PROVE  /\ IsSeq(Append(s, x)) /\ Append(s, x) # <<>>
           /\ Len(Append(s, x)) = Len(s) + 1
           /\ \A n \in 1..Len(s) : Append(s, x)[n] = s[n]
           /\ Append(s, x)[Len(s) + 1] = x
<1> DEFINE S == Range(s) \cup {x}
<1>1. s \in Seq(S)
  BY SeqIs, SeqMonotonic, Zenon
<1>2. x \in S
  OBVIOUS
<1> HIDE DEF S
<1>3. Append(s, x) \in Seq(S) /\ Len(s) \in Nat
  BY <1>1, <1>2
<1>4. IsSeq(Append(s, x))
  BY <1>3, SequenceIs
<1> QED BY <1>1, <1>2, <1>3, <1>4

\* A sequence without its last element.
LEMMA FrontIs ==
    ASSUME NEW s, IsSeq(s), s # <<>>
    PROVE  /\ IsSeq(Front(s)) /\ Len(s) \in Nat \ {0}
           /\ Len(Front(s)) = Len(s) - 1
           /\ Front(s) = <<>> <=> Len(s) = 1
           /\ \A n \in 1..(Len(s) - 1) : Front(s)[n] = s[n]
<1>1. s \in Seq(Range(s))
  BY SeqIs
<1>2. PICK S : s \in Seq(S)
  BY <1>1
<1>3. Len(s) \in Nat \ {0}
  BY <1>2, EmptySeq
<1>4. Front(s) = SubSeq(s, 1, Len(s) - 1)
  BY DEF Front
<1>5. /\ Front(s) \in Seq(S) /\ Len(Front(s)) = Len(s) - 1
      /\ \A n \in 1..(Len(s) - 1) : Front(s)[n] = s[n]
  <2>1. \A n \in 1..(Len(s) - 1) : s[n] \in S
    BY <1>2, <1>3
  <2>2. 1 \in Int /\ Len(s) - 1 \in Int
    BY <1>3
  <2>3. /\ SubSeq(s, 1, Len(s) - 1) \in Seq(S)
        /\ Len(SubSeq(s, 1, Len(s) - 1))
              = IF 1 <= Len(s) - 1 THEN (Len(s) - 1) - 1 + 1 ELSE 0
        /\ \A n \in 1..((Len(s) - 1) - 1 + 1) :
              SubSeq(s, 1, Len(s) - 1)[n] = s[1 + n - 1]
    BY <2>1, <2>2, SubSeqProperties
  <2>4. Len(SubSeq(s, 1, Len(s) - 1)) = Len(s) - 1
    <3>1. PICK n \in Nat : n = Len(s) - 1
      BY <1>3
    <3>2. Len(SubSeq(s, 1, n)) = IF 1 <= n THEN n - 1 + 1 ELSE 0
      BY <2>3, <3>1
    <3>3. (IF 1 <= n THEN n - 1 + 1 ELSE 0) = n
      OBVIOUS
    <3> QED BY <3>1, <3>2, <3>3
  <2>5. \A n \in 1..(Len(s) - 1) : SubSeq(s, 1, Len(s) - 1)[n] = s[n]
    <3>1. (Len(s) - 1) - 1 + 1 = Len(s) - 1
      BY <1>3
    <3>2. \A n \in 1..(Len(s) - 1) : 1 + n - 1 = n
      BY <1>3
    <3> QED BY <2>3, <3>1, <3>2
  <2> QED BY <1>4, <2>3, <2>4, <2>5
<1>6. IsSeq(Front(s))
  BY <1>5, SequenceIs
<1>7. Front(s) = <<>> <=> Len(s) = 1
  <2>1. Front(s) = <<>> <=> Len(Front(s)) = 0
    BY <1>5
  <2> QED BY <2>1, <1>3, <1>5
<1> QED BY <1>3, <1>5, <1>6, <1>7

\* What a write makes of a memory.
LEMMA PutIs ==
    ASSUME NEW memory, Len(memory) \in Nat, NEW address \in Nat, NEW bytes \in Seq(Byte)
    PROVE  LET after == Put(memory, address, bytes) IN
           /\ IsSeq(after) /\ Len(after) = Len(memory)
           /\ \A b \in 1..Len(memory) :
                /\ b - address \in 1..Len(bytes) =>
                      after[b] = bytes[b - address] /\ after[b] \in Byte
                /\ b - address \notin 1..Len(bytes) => after[b] = memory[b]
<1>1. Put(memory, address, bytes) = [i \in 1..Len(memory) |->
          IF i - address \in 1..Len(bytes) THEN bytes[i - address] ELSE memory[i]]
  BY DEF Put
<1>2. Len(Put(memory, address, bytes)) = Len(memory)
  BY <1>1
<1>3. IsSeq(Put(memory, address, bytes))
  BY <1>1, <1>2 DEF IsSeq
<1> QED BY <1>1, <1>2, <1>3

\* A slice that lies within a memory.
LEMMA SliceIs ==
    ASSUME NEW memory, Len(memory) \in Nat, NEW address \in Nat, NEW size \in Nat
    PROVE  /\ Len(Slice(memory, address, size)) = size
           /\ \A n \in 1..size : Slice(memory, address, size)[n] = memory[address + n]
           /\ HasNUL(Slice(memory, address, size)) <=>
                 \E b \in Bytes(address, size) : memory[b + 1] = NUL
<1>1. Slice(memory, address, size) = SubSeq(memory, address + 1, address + size)
  BY DEF Slice
<1>2. SubSeq(memory, address + 1, address + size)
         = [n \in 1..size |-> memory[address + n]]
  BY DEF SubSeq
<1>3. /\ Len(Slice(memory, address, size)) = size
      /\ \A n \in 1..size : Slice(memory, address, size)[n] = memory[address + n]
  BY <1>1, <1>2
<1>4. ASSUME NEW n \in 1..size, memory[address + n] = NUL
      PROVE  \E b \in Bytes(address, size) : memory[b + 1] = NUL
  <2>1. address + n - 1 \in Bytes(address, size) /\ address + n - 1 + 1 = address + n
    BY DEF Bytes
  <2> QED BY <2>1, <1>4
<1>5. ASSUME NEW b \in Bytes(address, size), memory[b + 1] = NUL
      PROVE  \E n \in 1..size : memory[address + n] = NUL
  <2>1. b + 1 - address \in 1..size /\ address + (b + 1 - address) = b + 1
    BY DEF Bytes
  <2> QED BY <2>1, <1>5
<1> QED BY <1>3, <1>4, <1>5 DEF HasNUL
-----------------------------------------------------------------------------
(* Writes to an instance                                                   *)

AllPlaces(table, i) == Places(table)[Len(table)][i][0]

IsInstance(memory, size) ==
    /\ IsSeq(memory) /\ Len(memory) = size
    /\ \A b \in 1..size : memory[b] \in Byte

\* Every text has its end.
Legible(places, memory) ==
    \A p \in places : p.field.kind = "CHAR_ARRAY" =>
        HasNUL(Slice(memory, p.address, p.field.char_buffer_size))

\* Besides, all that belongs to no value is zero.
Whole(table, i, memory) ==
    /\ Legible(AllPlaces(table, i), memory)
    /\ \A b \in 1..table[i].size : b - 1 \notin Covered(table, i) => memory[b] = 0

\* A write that only changes values, and a text only to one that has its end.
Fits(places, w) ==
    /\ w.address \in Nat /\ w.bytes \in Seq(Byte)
    /\ \A b \in Bytes(w.address, Len(w.bytes)) : \E p \in places : b \in PlaceBytes(p)
    /\ \A p \in places : p.field.kind = "CHAR_ARRAY" =>
          \/ Bytes(w.address, Len(w.bytes)) \cap PlaceBytes(p) = {}
          \/ /\ w.address = p.address /\ Len(w.bytes) <= ElementSize(p.field)
             /\ HasNUL(w.bytes)

FittingWrites(places) ==
    {w \in [address : Nat, bytes : Seq(Byte)] : Fits(places, w)}

\* PlacesLie, of a whole instance.
LEMMA AllPlacesLie ==
    ASSUME NEW table, IsTable(table), NEW i, Ranked(table, i, Len(table))
    PROVE  /\ \A p \in AllPlaces(table, i) :
                /\ IsPlace(table, p) /\ p.address \in Nat /\ ElementSize(p.field) \in Nat
                /\ PlaceBytes(p) = Bytes(p.address, ElementSize(p.field))
                /\ PlaceBytes(p) \subseteq Bytes(0, table[i].size)
           /\ \A p, q \in AllPlaces(table, i) :
                p = q \/ PlaceBytes(p) \cap PlaceBytes(q) = {}
           /\ table[i].size \in Nat
<1>1. Len(table) \in Nat /\ Len(table) \in 0..Len(table) /\ 0 \in Nat
  BY TableIs
<1>2. /\ \A p \in AllPlaces(table, i) :
           IsPlace(table, p) /\ PlaceBytes(p) \subseteq Bytes(0, table[i].size)
      /\ \A p, q \in AllPlaces(table, i) :
           p = q \/ PlaceBytes(p) \cap PlaceBytes(q) = {}
  BY <1>1, PlacesLie DEF AllPlaces
<1>3. \A p \in AllPlaces(table, i) :
         /\ p.address \in Nat /\ ElementSize(p.field) \in Nat
         /\ PlaceBytes(p) = Bytes(p.address, ElementSize(p.field))
  BY <1>2, SizesAre DEF IsPlace, PlaceBytes, ElementBytes
<1>4. table[i].size \in Nat
  BY <1>1, RankedIs
<1> QED BY <1>2, <1>3, <1>4

\* The covered bytes are those of the places.
LEMMA CoveredIs ==
    ASSUME NEW table, IsTable(table), NEW i, Ranked(table, i, Len(table)), NEW b
    PROVE  b \in Covered(table, i) <=> \E p \in AllPlaces(table, i) : b \in PlaceBytes(p)
<1>1. ASSUME NEW p \in AllPlaces(table, i)
      PROVE  Extent(p.field, p.address, FALSE) = PlaceBytes(p)
  <2>1. /\ p.address \in Nat /\ ElementSize(p.field) \in Nat
        /\ PlaceBytes(p) = Bytes(p.address, ElementSize(p.field))
    BY AllPlacesLie
  <2>2. Extent(p.field, p.address, FALSE)
           = p.address..(p.address - 1 + ElementSize(p.field))
    BY DEF Extent, ElementSize, FieldSize
  <2>3. p.address - 1 + ElementSize(p.field) = p.address + ElementSize(p.field) - 1
    BY <2>1
  <2> QED BY <2>1, <2>2, <2>3 DEF Bytes
<1>2. b \in Covered(table, i) <=>
         \E p \in AllPlaces(table, i) : b \in Extent(p.field, p.address, FALSE)
  BY Zenon DEF Covered, AllPlaces
<1> QED BY <1>1, <1>2

\* A write leaves an instance an instance.
LEMMA PutTyped ==
    ASSUME NEW size \in Nat, NEW memory, IsInstance(memory, size),
           NEW address \in Nat, NEW bytes \in Seq(Byte)
    PROVE  IsInstance(Put(memory, address, bytes), size)
<1>1. Len(memory) = size /\ Len(memory) \in Nat
  BY DEF IsInstance
<1>2. /\ IsSeq(Put(memory, address, bytes)) /\ Len(Put(memory, address, bytes)) = size
      /\ \A b \in 1..size : Put(memory, address, bytes)[b] \in Byte
  <2>1. \A b \in 1..size : memory[b] \in Byte
    BY DEF IsInstance
  <2> QED BY <1>1, <2>1, PutIs
<1> QED BY <1>2 DEF IsInstance

\* Such a write keeps an instance whole.
LEMMA PutKeeps ==
    ASSUME NEW table, IsTable(table), NEW i, Ranked(table, i, Len(table)),
           NEW memory, IsInstance(memory, table[i].size),
           NEW w, Fits(AllPlaces(table, i), w)
    PROVE  LET after == Put(memory, w.address, w.bytes) IN
           /\ IsInstance(after, table[i].size)
           /\ Whole(table, i, memory) => Whole(table, i, after)
<1>1. PICK after : after = Put(memory, w.address, w.bytes)
  OBVIOUS
<1>2. PICK address \in Nat : address = w.address
  BY DEF Fits
<1>3. PICK bytes \in Seq(Byte) : bytes = w.bytes
  BY DEF Fits
<1>4. PICK size \in Nat : size = table[i].size
  BY AllPlacesLie
<1>5. Len(memory) = size /\ Len(memory) \in Nat /\ Len(bytes) \in Nat
  BY <1>4 DEF IsInstance
<1>6. /\ IsSeq(after) /\ Len(after) = size
      /\ \A b \in 1..size :
           /\ b - address \in 1..Len(bytes) => after[b] = bytes[b - address]
           /\ b - address \notin 1..Len(bytes) => after[b] = memory[b]
  <2>1. LET put == Put(memory, address, bytes) IN
        /\ IsSeq(put) /\ Len(put) = Len(memory)
        /\ \A b \in 1..Len(memory) :
             /\ b - address \in 1..Len(bytes) => put[b] = bytes[b - address]
             /\ b - address \notin 1..Len(bytes) => put[b] = memory[b]
    BY <1>5, PutIs, ZenonT(60)
  <2>2. after = Put(memory, address, bytes)
    BY <1>1, <1>2, <1>3
  <2> QED BY <1>5, <2>1, <2>2
<1>7. IsInstance(after, size)
  BY <1>1, <1>2, <1>3, <1>4, PutTyped
<1>8. \A b \in 0..(size - 1) :
         b \notin Bytes(address, Len(bytes)) => after[b + 1] = memory[b + 1]
  <2> SUFFICES ASSUME NEW b \in 0..(size - 1), b \notin Bytes(address, Len(bytes))
               PROVE  after[b + 1] = memory[b + 1]
    OBVIOUS
  <2>1. b + 1 \in 1..size
    OBVIOUS
  <2>2. b + 1 - address \notin 1..Len(bytes)
    BY <1>5 DEF Bytes
  <2> QED BY <1>6, <2>1, <2>2
<1>9. ASSUME Whole(table, i, memory)
      PROVE  Whole(table, i, after)
  <2>1. ASSUME NEW p \in AllPlaces(table, i), p.field.kind = "CHAR_ARRAY"
        PROVE  HasNUL(Slice(after, p.address, p.field.char_buffer_size))
    <3>1. ElementSize(p.field) = p.field.char_buffer_size
      BY <2>1 DEF ElementSize
    <3>2. PICK s \in Nat : s = p.field.char_buffer_size
      BY <3>1, AllPlacesLie
    <3>3. PICK a \in Nat : a = p.address
      BY AllPlacesLie
    <3>4. PlaceBytes(p) = Bytes(a, s) /\ Bytes(a, s) \subseteq Bytes(0, size)
      BY <1>4, <3>1, <3>2, <3>3, AllPlacesLie
    <3>5. HasNUL(Slice(memory, a, s))
      BY <1>9, <2>1, <3>2, <3>3 DEF Whole, Legible
    <3>6. Bytes(0, size) = 0..(size - 1)
      BY DEF Bytes
    <3>7. CASE Bytes(address, Len(bytes)) \cap Bytes(a, s) = {}
      <4>1. PICK b \in Bytes(a, s) : memory[b + 1] = NUL
        BY <1>5, <3>5, SliceIs, ZenonT(60)
      <4>2. after[b + 1] = NUL
        BY <1>8, <3>4, <3>6, <3>7, <4>1
      <4>3. Len(after) \in Nat
        BY <1>6
      <4> QED BY <3>2, <3>3, <4>1, <4>2, <4>3, SliceIs
    <3>8. CASE address = a /\ Len(bytes) <= s /\ HasNUL(bytes)
      <4>1. PICK n \in 1..Len(bytes) : bytes[n] = NUL
        BY <3>8 DEF HasNUL
      <4>2. a + n - 1 \in Bytes(a, s) /\ a + n - 1 + 1 = a + n
        BY <1>5, <3>8 DEF Bytes
      <4>3. a + n - 1 \in 0..(size - 1)
        BY <3>4, <3>6, <4>2
      <4>4. a + n \in 1..size /\ a + n - a = n
        BY <4>3
      <4>5. after[a + n] = NUL
        BY <1>6, <3>8, <4>1, <4>4
      <4>6. \E b \in Bytes(a, s) : after[b + 1] = NUL
        BY <4>2, <4>5
      <4>7. Len(after) \in Nat
        BY <1>6
      <4> QED BY <3>2, <3>3, <4>6, <4>7, SliceIs
    <3>9. \/ Bytes(address, Len(bytes)) \cap Bytes(a, s) = {}
          \/ address = a /\ Len(bytes) <= s /\ HasNUL(bytes)
      BY <1>2, <1>3, <2>1, <3>1, <3>2, <3>3, <3>4 DEF Fits
    <3> QED BY <3>7, <3>8, <3>9
  <2>2. ASSUME NEW b \in 1..size, b - 1 \notin Covered(table, i)
        PROVE  after[b] = 0
    <3>1. memory[b] = 0
      BY <1>4, <1>9, <2>2 DEF Whole
    <3>2. b - 1 \notin Bytes(address, Len(bytes))
      BY <1>2, <1>3, <2>2, CoveredIs DEF Fits
    <3>3. b - 1 \in 0..(size - 1) /\ b - 1 + 1 = b
      OBVIOUS
    <3> QED BY <1>8, <3>1, <3>2, <3>3
  <2> QED BY <1>4, <2>1, <2>2 DEF Whole, Legible
<1> QED BY <1>1, <1>4, <1>7, <1>9

\* So do several, one after the other.
LEMMA WritesKeep ==
    ASSUME NEW table, IsTable(table), NEW i, Ranked(table, i, Len(table)),
           NEW memory, IsInstance(memory, table[i].size),
           NEW writes \in Seq(FittingWrites(AllPlaces(table, i)))
    PROVE  LET after == AfterWrites(memory, writes) IN
           /\ IsInstance(after, table[i].size)
           /\ Whole(table, i, memory) => Whole(table, i, after)
<1> DEFINE after(n) == Instances(memory, writes)[n]
           Good(n) == /\ IsInstance(after(n), table[i].size)
                      /\ Whole(table, i, memory) => Whole(table, i, after(n))
           T == {n \in 0..Len(writes) : Good(n)}
<1>1. /\ Len(writes) \in Nat
      /\ \A n \in 1..Len(writes) : Fits(AllPlaces(table, i), writes[n])
  <2>1. \A n \in 1..Len(writes) : writes[n] \in FittingWrites(AllPlaces(table, i))
    BY ElementOfSeq
  <2> QED BY <2>1, LenProperties DEF FittingWrites
<1>2. 0 \in T
  <2>1. after(0) = memory
    BY <1>1, InstancesAre
  <2> QED BY <1>1, <2>1
<1>3. ASSUME NEW n \in 1..Len(writes), n - 1 \in T PROVE n \in T
  <2>1. after(n) = Put(after(n - 1), writes[n].address, writes[n].bytes)
    BY <1>1, InstancesAre
  <2>2. Fits(AllPlaces(table, i), writes[n])
    BY <1>1
  <2>3. Good(n - 1)
    BY <1>3
  <2> HIDE DEF after
  <2>4. Good(n)
    BY <2>1, <2>2, <2>3, PutKeeps
  <2> QED BY <2>4
<1> HIDE DEF T
<1>4. \A n \in 1..Len(writes) : n - 1 \in T => n \in T
  BY <1>3
<1>5. 0..Len(writes) \subseteq T
  BY <1>1, <1>2, <1>4, CountUp
<1> QED BY <1>1, <1>5 DEF AfterWrites, T

\* A value that is written where it belongs fits.
LEMMA ScalarFits ==
    ASSUME NEW table, IsTable(table), NEW i, Ranked(table, i, Len(table)),
           NEW p \in AllPlaces(table, i), NEW bytes \in Seq(Byte),
           Len(bytes) <= ElementSize(p.field),
           p.field.kind = "CHAR_ARRAY" => HasNUL(bytes)
    PROVE  Write(p.address, bytes) \in FittingWrites(AllPlaces(table, i))
<1>1. PICK w : w = Write(p.address, bytes)
  OBVIOUS
<1>2. w.address = p.address /\ w.bytes = bytes
  BY <1>1 DEF Write
<1>3. p.address \in Nat /\ ElementSize(p.field) \in Nat
      /\ PlaceBytes(p) = Bytes(p.address, ElementSize(p.field))
  BY AllPlacesLie
<1>4. Bytes(p.address, Len(bytes)) \subseteq PlaceBytes(p)
  BY <1>3 DEF Bytes
<1>5. ASSUME NEW q \in AllPlaces(table, i), q.field.kind = "CHAR_ARRAY"
      PROVE  \/ Bytes(p.address, Len(bytes)) \cap PlaceBytes(q) = {}
             \/ p.address = q.address /\ Len(bytes) <= ElementSize(q.field) /\ HasNUL(bytes)
  <2>1. p = q \/ PlaceBytes(p) \cap PlaceBytes(q) = {}
    BY AllPlacesLie
  <2> QED BY <1>4, <1>5, <2>1
<1>6. Fits(AllPlaces(table, i), w)
  BY <1>2, <1>3, <1>4, <1>5 DEF Fits
<1> QED BY <1>1, <1>2, <1>3, <1>6 DEF FittingWrites, Write

\* So do the bytes of an array, all at once.
LEMMA HexFits ==
    ASSUME NEW table, IsTable(table), NEW i, Ranked(table, i, Len(table)),
           NEW f, IsField(table, f), is_hex(f), NEW address \in Nat,
           NEW bytes \in Seq(Byte), Len(bytes) = f.element_count,
           \A m \in 1..f.element_count :
              [field |-> f, address |-> address + (m - 1) * f.element_size]
                 \in AllPlaces(table, i)
    PROVE  Write(address, bytes) \in FittingWrites(AllPlaces(table, i))
<1>1. PICK w : w = Write(address, bytes)
  OBVIOUS
<1>2. w.address = address /\ w.bytes = bytes
  BY <1>1 DEF Write
<1>3. f.kind \in Integral /\ f.element_size = 1 /\ f.element_count \in Nat
  BY FieldIs DEF Natural
<1>4. f.kind # "CHAR_ARRAY" /\ ElementSize(f) = 1
  BY <1>3 DEF Integral, ElementSize
<1>5. ASSUME NEW b \in Bytes(address, Len(bytes))
      PROVE  \E p \in AllPlaces(table, i) : p.field = f /\ b \in PlaceBytes(p)
  <2>1. PICK m \in 1..f.element_count : b = address + (m - 1)
    <3>1. PICK c \in Nat : c = f.element_count
      BY <1>3
    <3>2. b \in address..(address + c - 1)
      BY <3>1 DEF Bytes
    <3>3. PICK n \in 1..c : n = b - address + 1
      BY <3>2
    <3>4. b = address + (n - 1)
      BY <3>2, <3>3
    <3> QED BY <3>1, <3>4
  <2>2. (m - 1) * f.element_size = m - 1
    BY <1>3
  <2>3. PICK p \in AllPlaces(table, i) : p = [field |-> f, address |-> b]
    BY <2>1, <2>2
  <2>4. b \in Nat
    BY <2>1
  <2>5. b \in Bytes(b, 1)
    BY <2>4 DEF Bytes
  <2> QED BY <1>4, <2>3, <2>5 DEF PlaceBytes, ElementBytes
<1>6. ASSUME NEW q \in AllPlaces(table, i), q.field.kind = "CHAR_ARRAY"
      PROVE  Bytes(address, Len(bytes)) \cap PlaceBytes(q) = {}
  <2>1. ASSUME NEW b \in Bytes(address, Len(bytes)), b \in PlaceBytes(q) PROVE FALSE
    <3>1. PICK p \in AllPlaces(table, i) : p.field = f /\ b \in PlaceBytes(p)
      BY <1>5
    <3>2. p # q
      BY <1>4, <1>6, <3>1
    <3> QED BY <2>1, <3>1, <3>2, AllPlacesLie
  <2> QED BY <2>1
<1>7. Fits(AllPlaces(table, i), w)
  BY <1>2, <1>5, <1>6 DEF Fits
<1> QED BY <1>1, <1>2, <1>7 DEF FittingWrites, Write
-----------------------------------------------------------------------------
(* What is shown in full has texts with their ends, and can be saved       *)

\* The places of an element that is no structure: its own.
LEMMA HereIs ==
    ASSUME NEW table, IsTable(table), NEW n \in 1..Len(table), NEW i, Ranked(table, i, n),
           NEW base \in Nat, NEW k \in 1..Len(table[i].fields),
           NEW m \in 1..table[i].fields[k].element_count
    PROVE  LET f == table[i].fields[k]
               a == element_address(f, base, m - 1)
           IN
           /\ IsField(table, f) /\ a \in Nat
           /\ f.kind = "STRUCT" =>
                /\ Ranked(table, f.nested, n - 1)
                /\ Here(table, n - 1, i, base, k, m) = Places(table)[n - 1][f.nested][a]
           /\ f.kind # "STRUCT" =>
                Here(table, n - 1, i, base, k, m) = {[field |-> f, address |-> a]}
           /\ Here(table, n - 1, i, base, k, m) \subseteq Places(table)[n][i][base]
<1>a. PICK f : f = table[i].fields[k]
  OBVIOUS
<1>b. PICK a : a = element_address(f, base, m - 1)
  OBVIOUS
<1>1. n \in 0..Len(table) /\ i \in 1..Len(table)
  BY TableIs DEF Ranked
<1>2. IsField(table, f) /\ (f.kind = "STRUCT" => Ranked(table, f.nested, n - 1))
  <2>1. FieldWith(table, i, n, f, base)
    BY <1>1, <1>a, FieldOf
  <2> QED BY <2>1 DEF FieldWith
<1>3. a \in Nat
  BY <1>2, <1>a, <1>b, ElementIs
<1>4. Here(table, n - 1, i, base, k, m) = PlacesAt(Places(table)[n - 1], f, a)
  BY <1>a, <1>b DEF Here
<1>5. Here(table, n - 1, i, base, k, m) \subseteq Places(table)[n][i][base]
  BY <1>1, PlaceIs
<1>6. /\ f.kind = "STRUCT" =>
           PlacesAt(Places(table)[n - 1], f, a) = Places(table)[n - 1][f.nested][a]
      /\ f.kind # "STRUCT" =>
           PlacesAt(Places(table)[n - 1], f, a) = {[field |-> f, address |-> a]}
  BY DEF PlacesAt
<1> QED BY <1>a, <1>b, <1>2, <1>3, <1>4, <1>5, <1>6

\* What print_write shows in full has an end for each text.
LEMMA PrintReads ==
    ASSUME NEW table, IsTable(table), NEW memory, NEW n \in 0..Len(table)
    PROVE  \A i, base :
             /\ Ranked(table, i, n) /\ base \in Nat
             /\ print_struct(table, memory)[n][i][base] = "OK"
             => Legible(Places(table)[n][i][base], memory)
<1> DEFINE Reads(m) == \A i, base :
             /\ Ranked(table, i, m) /\ base \in Nat
             /\ print_struct(table, memory)[m][i][base] = "OK"
             => Legible(Places(table)[m][i][base], memory)
           T == {m \in 0..n : Reads(m)}
<1>0. Len(table) \in Nat /\ n \in Nat
  BY TableIs
<1>1. 0 \in T
  <2>1. \A i : ~Ranked(table, i, 0)
    BY RankedIs
  <2> QED BY <1>0, <2>1
<1>2. ASSUME NEW m \in 1..n, m - 1 \in T PROVE m \in T
  <2>0. Reads(m - 1)
    BY <1>2
  <2> SUFFICES ASSUME NEW i, NEW base, Ranked(table, i, m), base \in Nat,
                      print_struct(table, memory)[m][i][base] = "OK"
               PROVE  Legible(Places(table)[m][i][base], memory)
    OBVIOUS
  <2> DEFINE nested == print_struct(table, memory)[m - 1]
             fields == table[i].fields
  <2> HIDE DEF Reads, T
  <2>1. m \in 0..Len(table) /\ m \in 1..Len(table) /\ m # 0 /\ i \in 1..Len(table)
        /\ Len(fields) \in Nat
    BY <1>0, TableIs DEF Ranked
  <2>2. print_fields(nested, fields, memory, base) = "OK"
    BY <1>0, <2>1, PrintIs
  <2> HIDE DEF nested
  <2>3. \A k \in 1..Len(fields) : print_field(nested, fields[k], memory, base) = "OK"
    <3>1. PICK codes : codes = [k \in 1..Len(fields) |->
                                   print_field(nested, fields[k], memory, base)]
      OBVIOUS
    <3>2. Len(codes) = Len(fields)
          /\ \A k \in 1..Len(fields) : codes[k] = print_field(nested, fields[k], memory, base)
      BY <2>1, <3>1
    <3>3. FirstError(codes) = "OK"
      BY <2>2, <3>1 DEF print_fields
    <3> QED BY <2>1, <3>2, <3>3, FirstErrorIs
  <2>4. ASSUME NEW k \in 1..Len(fields), NEW l \in 1..fields[k].element_count
        PROVE  Legible(Here(table, m - 1, i, base, k, l), memory)
    <3>1. PICK f : f = fields[k]
      OBVIOUS
    <3>2. PICK a : a = element_address(f, base, l - 1)
      OBVIOUS
    <3>3. /\ IsField(table, f) /\ a \in Nat
          /\ f.kind = "STRUCT" =>
               /\ Ranked(table, f.nested, m - 1)
               /\ Here(table, m - 1, i, base, k, l) = Places(table)[m - 1][f.nested][a]
          /\ f.kind # "STRUCT" =>
               Here(table, m - 1, i, base, k, l) = {[field |-> f, address |-> a]}
      <4>1. LET g == table[i].fields[k]
                b == element_address(g, base, l - 1)
            IN
            /\ IsField(table, g) /\ b \in Nat
            /\ g.kind = "STRUCT" =>
                 /\ Ranked(table, g.nested, m - 1)
                 /\ Here(table, m - 1, i, base, k, l) = Places(table)[m - 1][g.nested][b]
            /\ g.kind # "STRUCT" =>
                 Here(table, m - 1, i, base, k, l) = {[field |-> g, address |-> b]}
            /\ Here(table, m - 1, i, base, k, l) \subseteq Places(table)[m][i][base]
        BY <2>1, HereIs
      <4> QED BY <3>1, <3>2, <4>1
    <3>4. CASE f.kind \notin {"STRUCT", "CHAR_ARRAY"}
      BY <3>3, <3>4 DEF Legible
    <3>5. CASE f.kind \in {"STRUCT", "CHAR_ARRAY"}
      <4>1. ~is_hex(f)
        BY <3>3, <3>5, FieldIs DEF Integral
      <4>2. print_element(nested, f, memory, a) = "OK"
        <5>1. PICK codes : codes = [h \in 1..f.element_count |->
                 print_element(nested, f, memory, element_address(f, base, h - 1))]
          OBVIOUS
        <5>2. f.element_count \in Nat
          BY <3>3, FieldIs DEF Natural
        <5>3. Len(codes) = f.element_count
              /\ codes[l] = print_element(nested, f, memory, a)
          BY <3>1, <3>2, <5>1, <5>2
        <5>4. FirstError(codes) = "OK"
          BY <2>3, <3>1, <4>1, <5>1 DEF print_field
        <5> QED BY <3>1, <5>2, <5>3, <5>4, FirstErrorIs
      <4>3. CASE f.kind = "STRUCT"
        <5>1. print_struct(table, memory)[m - 1][f.nested][a] = "OK"
          BY <4>2, <4>3 DEF print_element, nested
        <5> QED BY <2>0, <3>3, <4>3, <5>1 DEF Reads
      <4>4. CASE f.kind = "CHAR_ARRAY"
        <5>1. HasNUL(Slice(memory, a, f.char_buffer_size))
          BY <4>2, <4>4 DEF print_element
        <5> QED BY <3>3, <4>4, <5>1 DEF Legible
      <4> QED BY <3>5, <4>3, <4>4
    <3> QED BY <3>4, <3>5
  <2>5. \A p \in Places(table)[m][i][base] :
            \E k \in 1..Len(fields) : \E l \in 1..fields[k].element_count :
                p \in Here(table, m - 1, i, base, k, l)
    BY <2>1, PlaceIs
  <2> QED BY <2>4, <2>5 DEF Legible
<1>3. n \in T
  <2> HIDE DEF T
  <2>1. \A m \in 1..n : m - 1 \in T => m \in T
    BY <1>2
  <2>2. 0..n \subseteq T
    BY <1>0, <1>1, <2>1, CountUp
  <2> QED BY <1>0, <2>2
<1> QED BY <1>3

\* An instance in which each text has its end can be encoded.
LEMMA LegibleSaves ==
    ASSUME NEW table, IsTable(table), NEW memory, NEW n \in 0..Len(table)
    PROVE  \A i, base :
             /\ Ranked(table, i, n) /\ base \in Nat
             /\ Legible(Places(table)[n][i][base], memory)
             => struct_to_json(table, memory)[n][i][base].code = "OK"
<1> DEFINE Saves(m) == \A i, base :
             /\ Ranked(table, i, m) /\ base \in Nat
             /\ Legible(Places(table)[m][i][base], memory)
             => struct_to_json(table, memory)[m][i][base].code = "OK"
           T == {m \in 0..n : Saves(m)}
<1>0. Len(table) \in Nat /\ n \in Nat
  BY TableIs
<1>1. 0 \in T
  <2>1. \A i : ~Ranked(table, i, 0)
    BY RankedIs
  <2> QED BY <1>0, <2>1
<1>2. ASSUME NEW m \in 1..n, m - 1 \in T PROVE m \in T
  <2>0. Saves(m - 1)
    BY <1>2
  <2> SUFFICES ASSUME NEW i, NEW base, Ranked(table, i, m), base \in Nat,
                      Legible(Places(table)[m][i][base], memory)
               PROVE  struct_to_json(table, memory)[m][i][base].code = "OK"
    OBVIOUS
  <2> DEFINE nested == struct_to_json(table, memory)[m - 1]
             fields == table[i].fields
  <2> HIDE DEF Saves, T
  <2>1. m \in 0..Len(table) /\ m \in 1..Len(table) /\ m # 0 /\ i \in 1..Len(table)
        /\ Len(fields) \in Nat
    BY <1>0, TableIs DEF Ranked
  <2>2. struct_to_json(table, memory)[m][i][base]
           = fields_to_json(nested, fields, memory, base)
    BY <1>0, <2>1, JsonIs
  <2>3. ASSUME NEW k \in 1..Len(fields), NEW l \in 1..fields[k].element_count
        PROVE  element_to_json(nested, fields[k], memory,
                               element_address(fields[k], base, l - 1)).code = "OK"
    <3>1. PICK f : f = fields[k]
      OBVIOUS
    <3>2. PICK a : a = element_address(f, base, l - 1)
      OBVIOUS
    <3>3. /\ IsField(table, f) /\ a \in Nat
          /\ f.kind = "STRUCT" =>
               /\ Ranked(table, f.nested, m - 1)
               /\ Here(table, m - 1, i, base, k, l) = Places(table)[m - 1][f.nested][a]
          /\ f.kind # "STRUCT" =>
               Here(table, m - 1, i, base, k, l) = {[field |-> f, address |-> a]}
          /\ Here(table, m - 1, i, base, k, l) \subseteq Places(table)[m][i][base]
      <4>1. LET g == table[i].fields[k]
                b == element_address(g, base, l - 1)
            IN
            /\ IsField(table, g) /\ b \in Nat
            /\ g.kind = "STRUCT" =>
                 /\ Ranked(table, g.nested, m - 1)
                 /\ Here(table, m - 1, i, base, k, l) = Places(table)[m - 1][g.nested][b]
            /\ g.kind # "STRUCT" =>
                 Here(table, m - 1, i, base, k, l) = {[field |-> g, address |-> b]}
            /\ Here(table, m - 1, i, base, k, l) \subseteq Places(table)[m][i][base]
        BY <2>1, HereIs
      <4> QED BY <3>1, <3>2, <4>1
    <3>4. Legible(Here(table, m - 1, i, base, k, l), memory)
      BY <3>3 DEF Legible
    <3>5. CASE f.kind = "STRUCT"
      <4>1. struct_to_json(table, memory)[m - 1][f.nested][a].code = "OK"
        BY <2>0, <3>3, <3>4, <3>5 DEF Saves
      <4> QED BY <3>1, <3>2, <3>5, <4>1 DEF element_to_json, nested
    <3>6. CASE f.kind # "STRUCT"
      <4>1. f.kind = "CHAR_ARRAY" => HasNUL(Slice(memory, a, f.char_buffer_size))
        <5>1. PICK p : p = [field |-> f, address |-> a]
          OBVIOUS
        <5>2. p \in Here(table, m - 1, i, base, k, l) /\ p.field = f /\ p.address = a
          BY <3>3, <3>6, <5>1
        <5> QED BY <3>4, <5>2 DEF Legible
      <4>2. /\ f.kind \in Kinds
            /\ f.kind \in {"FLOAT", "DOUBLE"} =>
                 f.element_size = IF f.kind = "FLOAT" THEN FloatSize ELSE DoubleSize
        BY <3>3, FieldIs
      <4>3. scalar_to_json(f, memory, a).code = "OK"
        <5>1. CASE f.kind = "SIGNED_INTEGER"
          BY <5>1 DEF scalar_to_json, Result
        <5>2. CASE f.kind = "UNSIGNED_INTEGER"
          BY <5>2 DEF scalar_to_json, Result
        <5>3. CASE f.kind \in {"FLOAT", "DOUBLE"}
          BY <4>2, <5>3 DEF scalar_to_json, Result
        <5>4. CASE f.kind = "CHAR_ARRAY"
          BY <4>1, <5>4 DEF scalar_to_json, Result
        <5> QED BY <3>6, <4>2, <5>1, <5>2, <5>3, <5>4 DEF Kinds, Integral
      <4> QED BY <3>1, <3>2, <3>6, <4>3 DEF element_to_json
    <3> QED BY <3>5, <3>6
  <2> HIDE DEF nested
  <2>4. ASSUME NEW k \in 1..Len(fields)
        PROVE  member_to_json(nested, fields[k], memory, base).code = "OK"
    <3>1. PICK f : f = fields[k]
      OBVIOUS
    <3>2. IsField(table, f) /\ f.element_count \in Nat /\ 1 \in 1..f.element_count
      <4>1. IsField(table, f)
        <5>1. FieldWith(table, i, m, f, base)
          BY <2>1, <3>1, FieldOf
        <5> QED BY <5>1 DEF FieldWith
      <4>2. f.element_count \in Nat /\ f.element_count # 0
        BY <4>1, FieldIs DEF Natural
      <4> QED BY <4>1, <4>2
    <3>3. field_to_json(nested, f, memory, base).code = "OK"
      <4>1. CASE is_hex(f)
        BY <4>1 DEF field_to_json, Result
      <4>2. CASE ~is_hex(f) /\ ~is_array(f)
        <5>1. field_to_json(nested, f, memory, base)
                 = element_to_json(nested, f, memory, element_address(f, base, 1 - 1))
          BY <4>2 DEF field_to_json
        <5> QED BY <2>3, <3>1, <3>2, <5>1
      <4>3. CASE ~is_hex(f) /\ is_array(f)
        <5>1. PICK results : results = [h \in 1..f.element_count |->
                 element_to_json(nested, f, memory, element_address(f, base, h - 1))]
          OBVIOUS
        <5>2. Len(results) = f.element_count
              /\ \A h \in 1..f.element_count : results[h].code = "OK"
          BY <2>3, <3>1, <3>2, <5>1
        <5>3. Sequentially(results).code = "OK"
          BY <3>2, <5>2, SequentiallyIs
        <5>4. field_to_json(nested, f, memory, base).code = Sequentially(results).code
          BY <4>3, <5>1 DEF field_to_json, Result
        <5> QED BY <5>3, <5>4
      <4> QED BY <4>1, <4>2, <4>3
    <3> QED BY <3>1, <3>3 DEF member_to_json, Result
  <2>5. fields_to_json(nested, fields, memory, base).code = "OK"
    <3>1. PICK results : results = [k \in 1..Len(fields) |->
             member_to_json(nested, fields[k], memory, base)]
      OBVIOUS
    <3>2. Len(results) = Len(fields)
          /\ \A k \in 1..Len(fields) : results[k].code = "OK"
      BY <2>1, <2>4, <3>1
    <3>3. Sequentially(results).code = "OK"
      BY <2>1, <3>2, SequentiallyIs
    <3>4. All(results).code = Sequentially(results).code
      BY DEF All, Result
    <3>5. fields_to_json(nested, fields, memory, base).code = All(results).code
      BY <3>1 DEF fields_to_json, Result
    <3> QED BY <3>3, <3>4, <3>5
  <2> QED BY <2>2, <2>5
<1>3. n \in T
  <2> HIDE DEF T
  <2>1. \A m \in 1..n : m - 1 \in T => m \in T
    BY <1>2
  <2>2. 0..n \subseteq T
    BY <1>0, <1>1, <2>1, CountUp
  <2> QED BY <1>0, <2>2
<1> QED BY <1>3
-----------------------------------------------------------------------------
(* Decoding writes values where they belong                                *)

\* The address of an element, from that of the first.
LEMMA AddressIs ==
    ASSUME NEW f, Natural(f), NEW base \in Nat, NEW m \in 1..f.element_count
    PROVE  element_address(f, base, 0) + (m - 1) * f.element_size
              = element_address(f, base, m - 1)
<1>1. PICK s \in Nat : s = f.element_size
  BY DEF Natural
<1>2. PICK x \in Int : x = (m - 1) * s
  BY DEF Natural
<1>3. 0 * s = 0
  OBVIOUS
<1>4. f.offset \in Nat
  BY DEF Natural
<1>5. element_address(f, base, 0) = base + f.offset + 0
      /\ element_address(f, base, m - 1) = base + f.offset + x
  BY <1>1, <1>2, <1>3 DEF element_address
<1> QED BY <1>1, <1>2, <1>4, <1>5

\* A rounded number is a number.
LEMMA InfinityIs ==
    ASSUME NEW size \in Nat, NEW value \in Int
    PROVE  Rounded(size, value) \in Int
<1>1. PICK c \in Nat : c = Combinations(size)
  BY CombinationsAre
<1> QED BY <1>1 DEF Rounded, Infinity

\* The bytes of a text and its end.
LEMMA TextIs ==
    ASSUME NEW characters \in Seq(Byte)
    PROVE  /\ Append(characters, NUL) \in Seq(Byte)
           /\ Len(Append(characters, NUL)) = Len(characters) + 1
           /\ HasNUL(Append(characters, NUL))
<1>1. NUL \in Byte
  BY ValuesAssumption DEF NUL, Byte
<1>2. /\ Append(characters, NUL) \in Seq(Byte)
      /\ Len(Append(characters, NUL)) = Len(characters) + 1
      /\ Append(characters, NUL)[Len(characters) + 1] = NUL
      /\ Len(characters) \in Nat
  BY <1>1
<1>3. Len(characters) + 1 \in 1..Len(Append(characters, NUL))
  BY <1>2
<1> QED BY <1>2, <1>3 DEF HasNUL

\* What scalar_from_json writes fits the place that it is for.
LEMMA ScalarFromJson ==
    ASSUME NEW table, IsTable(table), NEW t, Ranked(table, t, Len(table)),
           NEW f, NEW a, [field |-> f, address |-> a] \in AllPlaces(table, t),
           NEW item, IsItem(item)
    PROVE  scalar_from_json(f, item, a).value \in Seq(FittingWrites(AllPlaces(table, t)))
<1> DEFINE V == FittingWrites(AllPlaces(table, t))
<1>1. PICK p \in AllPlaces(table, t) : p = [field |-> f, address |-> a]
  OBVIOUS
<1>2. p.field = f /\ p.address = a
  BY <1>1
<1>3. IsField(table, f) /\ f.kind # "STRUCT"
  BY <1>2, AllPlacesLie DEF IsPlace
<1>4. f.kind \in Kinds /\ Natural(f)
  BY <1>3, FieldIs
<1>5. \A bytes \in Seq(Byte) :
         /\ Len(bytes) <= ElementSize(f)
         /\ f.kind = "CHAR_ARRAY" => HasNUL(bytes)
         => Write(a, bytes) \in V
  BY <1>2, ScalarFits
<1> HIDE DEF V
<1>6. \A bytes : Write(a, bytes) \in V => Written(a, bytes).value \in Seq(V)
  BY DEF Written, Result
<1>7. \A code : Fails(code).value \in Seq(V)
  BY DEF Fails, Result
<1>8. ASSUME NEW v \in Int, f.kind # "CHAR_ARRAY"
      PROVE  Written(a, BytesOf(v, f.element_size)).value \in Seq(V)
  <2>1. BytesOf(v, f.element_size) \in Seq(Byte)
        /\ Len(BytesOf(v, f.element_size)) = f.element_size
    BY <1>4, BytesOfIs DEF Natural
  <2>2. ElementSize(f) = f.element_size /\ f.element_size \in Nat
    BY <1>4, <1>8 DEF ElementSize, Natural
  <2>3. Write(a, BytesOf(v, f.element_size)) \in V
    BY <1>5, <1>8, <2>1, <2>2
  <2> QED BY <1>6, <2>3
<1>9. CASE f.kind \in Integral
  <2>1. item.type = "number" => item.number \in Int
    BY DEF IsItem
  <2>2. f.kind # "CHAR_ARRAY"
    BY <1>9 DEF Integral
  <2>3. \/ scalar_from_json(f, item, a) = Written(a, BytesOf(item.number, f.element_size))
           /\ item.type = "number"
        \/ scalar_from_json(f, item, a) = Fails("INVALID_ARGUMENT")
        \/ scalar_from_json(f, item, a) = Fails("OUT_OF_RANGE")
    <3>1. CASE f.kind = "SIGNED_INTEGER"
      BY <3>1, Zenon DEF scalar_from_json, Integral
    <3>2. CASE f.kind = "UNSIGNED_INTEGER"
      <4>1. f.kind # "SIGNED_INTEGER"
        BY <3>2
      <4> QED BY <3>2, <4>1, Zenon DEF scalar_from_json, Integral
    <3> QED BY <1>9, <3>1, <3>2 DEF Integral
  <2> QED BY <1>7, <1>8, <2>1, <2>2, <2>3 DEF V
<1>10. CASE f.kind \in {"FLOAT", "DOUBLE"}
  <2>1. item.type = "number" => Rounded(f.element_size, item.number) \in Int
    BY <1>4, InfinityIs DEF IsItem, Natural
  <2>2. f.kind # "CHAR_ARRAY" /\ f.kind \notin Integral
    BY <1>10 DEF Integral
  <2>3. \/ /\ scalar_from_json(f, item, a)
                 = Written(a, BytesOf(Rounded(f.element_size, item.number), f.element_size))
           /\ item.type = "number"
        \/ \E code : scalar_from_json(f, item, a) = Fails(code)
    BY <1>10, <2>2 DEF scalar_from_json
  <2> QED BY <1>7, <1>8, <2>1, <2>2, <2>3 DEF V
<1>11. CASE f.kind = "CHAR_ARRAY"
  <2>1. \/ /\ item.type = "string" /\ text_fits(f, item.string)
           /\ scalar_from_json(f, item, a)
                 = Written(a, Append(item.string.characters, NUL))
        \/ \E code : scalar_from_json(f, item, a) = Fails(code)
    BY <1>11 DEF scalar_from_json, Integral
  <2>2. ASSUME item.type = "string", text_fits(f, item.string)
        PROVE  Write(a, Append(item.string.characters, NUL)) \in V
    <3>1. PICK characters \in Seq(Byte) : characters = item.string.characters
      BY <2>2 DEF IsItem, IsText
    <3>2. Len(characters) < f.char_buffer_size
      BY <2>2, <3>1 DEF text_fits
    <3>3. /\ Append(characters, NUL) \in Seq(Byte)
          /\ Len(Append(characters, NUL)) = Len(characters) + 1
          /\ HasNUL(Append(characters, NUL))
      BY TextIs
    <3>4. ElementSize(f) = f.char_buffer_size /\ f.char_buffer_size \in Nat
          /\ Len(characters) \in Nat
      BY <1>4, <1>11 DEF ElementSize, Natural
    <3>5. Len(Append(characters, NUL)) <= ElementSize(f)
      BY <3>2, <3>3, <3>4
    <3> QED BY <1>5, <3>1, <3>3, <3>5
  <2> QED BY <1>6, <1>7, <2>1, <2>2 DEF V
<1> QED BY <1>3, <1>4, <1>9, <1>10, <1>11 DEF Kinds

\* The member of a key is one of the items of an object, and so are its elements.
LEMMA MemberIs ==
    ASSUME NEW json, IsItem(json), json.type = "object", NEW key, HasMember(json, key)
    PROVE  /\ MemberOf(json, key) \in ItemsOf(json)
           /\ IsItem(MemberOf(json, key)) /\ MemberOf(json, key).type = "array" =>
                \A h \in 1..Len(MemberOf(json, key).array) :
                   MemberOf(json, key).array[h] \in ItemsOf(json)
<1> DEFINE named == {n \in 1..Len(json.object) : json.object[n].key = key}
           items == {json.object[n].item : n \in 1..Len(json.object)}
<1>1. named # {} /\ named \in SUBSET Nat
  BY DEF HasMember
<1>2. PICK l \in named : \A m \in named : l <= m
  <2> HIDE DEF named
  <2> QED BY <1>1, LeastNumber
<1>3. \A m \in 1..(l - 1) : json.object[m].key # key
  BY <1>2
<1>4. \E n \in 1..Len(json.object) :
         json.object[n].key = key /\ \A m \in 1..(n - 1) : json.object[m].key # key
  BY <1>2, <1>3
<1>5. PICK n \in 1..Len(json.object) : MemberOf(json, key) = json.object[n].item
  BY <1>4 DEF MemberOf
<1>6. MemberOf(json, key) \in items
  BY <1>5
<1> HIDE DEF items
<1>7. ItemsOf(json) = items \cup UNION {Range(x.array) : x \in {y \in items : y.type = "array"}}
  BY DEF ItemsOf, items
<1>8. PICK x : x = MemberOf(json, key)
  OBVIOUS
<1>9. ASSUME IsItem(x), x.type = "array", NEW h \in 1..Len(x.array)
      PROVE  x.array[h] \in ItemsOf(json)
  <2>1. x.array[h] \in Range(x.array)
    BY <1>9, SeqIs DEF IsItem
  <2>2. x \in {y \in items : y.type = "array"}
    BY <1>6, <1>8, <1>9
  <2> QED BY <1>7, <2>1, <2>2, Zenon
<1> QED BY <1>6, <1>7, <1>8, <1>9
\* JSON items that are well-formed, those within them included.
Closed(S) == \A x \in S : IsItem(x) /\ ItemsOf(x) \subseteq S
IsGood(item) == \E S : item \in S /\ Closed(S)

\* All items within one that is well-formed are items.
LEMMA ItemsGood ==
    ASSUME NEW table, IsTable(table), NEW json, IsGood(json), NEW n \in 0..Len(table)
    PROVE  \A x \in ItemsWithin(table, json)[n] : IsItem(x)
<1>1. PICK S : json \in S /\ Closed(S)
  BY DEF IsGood
<1> DEFINE T == {m \in 0..n : ItemsWithin(table, json)[m] \subseteq S}
<1>2. Len(table) \in Nat /\ n \in Nat
  BY TableIs
<1>3. 0 \in T
  <2>1. ItemsWithin(table, json)[0] = {json}
    <3>1. 0 \in 0..Len(table)
      BY <1>2
    <3> QED BY <1>2, <3>1, ItemsAre
  <2> QED BY <1>1, <1>2, <2>1
<1>4. ASSUME NEW m \in 1..n, m - 1 \in T PROVE m \in T
  <2>1. m \in 0..Len(table) /\ m # 0
    BY <1>2
  <2>2. ItemsWithin(table, json)[m]
           = UNION {ItemsOf(item) : item \in ItemsWithin(table, json)[m - 1]}
    BY <1>2, <2>1, ItemsAre, ZenonT(60)
  <2>3. \A x \in ItemsWithin(table, json)[m - 1] : ItemsOf(x) \subseteq S
    BY <1>1, <1>4 DEF Closed
  <2>4. ItemsWithin(table, json)[m] \subseteq S
    BY <2>2, <2>3, Zenon
  <2> QED BY <2>4
<1> HIDE DEF T
<1>5. \A m \in 1..n : m - 1 \in T => m \in T
  BY <1>4
<1>6. 0..n \subseteq T
  BY <1>2, <1>3, <1>5, CountUp
<1>7. ItemsWithin(table, json)[n] \subseteq S
  BY <1>2, <1>6 DEF T
<1> QED BY <1>1, <1>7 DEF Closed

\* The items within an item are at the next depth.
LEMMA ItemsDeeper ==
    ASSUME NEW table, IsTable(table), NEW json, NEW n \in 1..Len(table),
           NEW item \in ItemsWithin(table, json)[n - 1]
    PROVE  ItemsOf(item) \subseteq ItemsWithin(table, json)[n]
<1>1. Len(table) \in Nat /\ n \in 0..Len(table) /\ n # 0
  BY TableIs
<1>2. ItemsWithin(table, json)[n] = UNION {ItemsOf(x) : x \in ItemsWithin(table, json)[n - 1]}
  BY <1>1, ItemsAre, ZenonT(60)
<1> QED BY <1>2, Zenon

\* All that struct_from_json writes fits, wherever it fails.
LEMMA DecodeFits ==
    ASSUME NEW table, IsTable(table), NEW t, Ranked(table, t, Len(table)),
           NEW json, IsGood(json), NEW n \in 0..Len(table)
    PROVE  \A i, item, base :
             /\ Ranked(table, i, n) /\ base \in Nat
             /\ item \in ItemsWithin(table, json)[Len(table) - n]
             /\ Places(table)[n][i][base] \subseteq AllPlaces(table, t)
             => struct_from_json(table, json)[n][i][item][base].value
                   \in Seq(FittingWrites(AllPlaces(table, t)))
<1> DEFINE V == FittingWrites(AllPlaces(table, t))
           Fit(m) == \A i, item, base :
             /\ Ranked(table, i, m) /\ base \in Nat
             /\ item \in ItemsWithin(table, json)[Len(table) - m]
             /\ Places(table)[m][i][base] \subseteq AllPlaces(table, t)
             => struct_from_json(table, json)[m][i][item][base].value \in Seq(V)
           T == {m \in 0..n : Fit(m)}
<1>0. Len(table) \in Nat /\ n \in Nat
  BY TableIs
<1>1. 0 \in T
  <2>1. \A i : ~Ranked(table, i, 0)
    BY RankedIs
  <2> QED BY <1>0, <2>1
<1>2. ASSUME NEW m \in 1..n, m - 1 \in T PROVE m \in T
  <2>0. Fit(m - 1)
    BY <1>2
  <2> SUFFICES ASSUME NEW i, NEW item, NEW base, Ranked(table, i, m), base \in Nat,
                      item \in ItemsWithin(table, json)[Len(table) - m],
                      Places(table)[m][i][base] \subseteq AllPlaces(table, t)
               PROVE  struct_from_json(table, json)[m][i][item][base].value \in Seq(V)
    OBVIOUS
  <2> DEFINE nested == struct_from_json(table, json)[m - 1]
             fields == table[i].fields
             deeper == ItemsWithin(table, json)[Len(table) - (m - 1)]
  <2> HIDE DEF Fit, T
  <2>1. m \in 0..Len(table) /\ m \in 1..Len(table) /\ m # 0 /\ i \in 1..Len(table)
        /\ Len(fields) \in Nat
    BY <1>0, TableIs DEF Ranked
  <2>2. struct_from_json(table, json)[m][i][item][base]
           = fields_from_json(nested, fields, item, base)
    BY <1>0, <2>1, WritesAre
  <2>3. IsItem(item) /\ ItemsOf(item) \subseteq deeper
    <3>1. Len(table) - m \in 0..Len(table) /\ Len(table) - (m - 1) \in 1..Len(table)
          /\ (Len(table) - (m - 1)) - 1 = Len(table) - m
      BY <1>0
    <3>2. IsItem(item)
      BY <3>1, ItemsGood
    <3>3. ItemsOf(item) \subseteq deeper
      BY <3>1, ItemsDeeper
    <3> QED BY <3>2, <3>3
  <2>4. \A x \in deeper : IsItem(x)
    <3>1. Len(table) - (m - 1) \in 0..Len(table)
      BY <1>0
    <3> QED BY <3>1, ItemsGood
  <2>5. \A code : Fails(code).value \in Seq(V) /\ Result(code, <<>>).value \in Seq(V)
    BY DEF Fails, Result
  <2>6. ASSUME NEW k \in 1..Len(fields), NEW l \in 1..fields[k].element_count,
               NEW x \in deeper
        PROVE  element_from_json(nested, fields[k], x,
                                 element_address(fields[k], base, l - 1)).value \in Seq(V)
    <3>1. PICK f : f = fields[k]
      OBVIOUS
    <3>2. PICK a : a = element_address(f, base, l - 1)
      OBVIOUS
    <3>3. /\ IsField(table, f) /\ a \in Nat
          /\ f.kind = "STRUCT" =>
               /\ Ranked(table, f.nested, m - 1)
               /\ Here(table, m - 1, i, base, k, l) = Places(table)[m - 1][f.nested][a]
          /\ f.kind # "STRUCT" =>
               Here(table, m - 1, i, base, k, l) = {[field |-> f, address |-> a]}
          /\ Here(table, m - 1, i, base, k, l) \subseteq Places(table)[m][i][base]
      <4>1. LET g == table[i].fields[k]
                b == element_address(g, base, l - 1)
            IN
            /\ IsField(table, g) /\ b \in Nat
            /\ g.kind = "STRUCT" =>
                 /\ Ranked(table, g.nested, m - 1)
                 /\ Here(table, m - 1, i, base, k, l) = Places(table)[m - 1][g.nested][b]
            /\ g.kind # "STRUCT" =>
                 Here(table, m - 1, i, base, k, l) = {[field |-> g, address |-> b]}
            /\ Here(table, m - 1, i, base, k, l) \subseteq Places(table)[m][i][base]
        BY <2>1, HereIs
      <4> QED BY <3>1, <3>2, <4>1
    <3>4. CASE f.kind = "STRUCT"
      <4>1. struct_from_json(table, json)[m - 1][f.nested][x][a].value \in Seq(V)
        BY <2>0, <3>3, <3>4 DEF Fit
      <4> QED BY <3>1, <3>2, <3>4, <4>1 DEF element_from_json, nested
    <3>5. CASE f.kind # "STRUCT"
      <4>1. [field |-> f, address |-> a] \in AllPlaces(table, t)
        BY <3>3, <3>5
      <4>2. scalar_from_json(f, x, a).value \in Seq(V)
        BY <2>4, <4>1, ScalarFromJson
      <4> QED BY <3>1, <3>2, <3>5, <4>2 DEF element_from_json
    <3> QED BY <3>4, <3>5
  <2> HIDE DEF nested, deeper
  <2>7. ASSUME NEW k \in 1..Len(fields), item.type = "object"
        PROVE  field_from_json(nested, fields[k], item, base).value \in Seq(V)
    <3>1. PICK f : f = fields[k]
      OBVIOUS
    <3>2. IsField(table, f) /\ Natural(f) /\ 1 \in 1..f.element_count
      <4>1. IsField(table, f)
        <5>1. FieldWith(table, i, m, f, base)
          BY <2>1, <3>1, FieldOf
        <5> QED BY <5>1 DEF FieldWith
      <4>2. Natural(f) /\ f.element_count # 0
        BY <4>1, FieldIs
      <4> QED BY <4>1, <4>2 DEF Natural
    <3>3. PICK x : x = MemberOf(item, json_key(f))
      OBVIOUS
    <3>4. PICK first : first = element_address(f, base, 0)
      OBVIOUS
    <3>5. CASE Ignored(f)
      BY <2>5, <3>1, <3>5 DEF field_from_json
    <3>6. CASE ~Ignored(f) /\ ~HasMember(item, json_key(f))
      BY <2>5, <3>1, <3>6 DEF field_from_json
    <3>7. CASE ~Ignored(f) /\ HasMember(item, json_key(f))
      <4>1. x \in deeper /\ IsItem(x)
            /\ (x.type = "array" => \A h \in 1..Len(x.array) : x.array[h] \in deeper)
        <5>1. x \in deeper /\ IsItem(x)
          BY <2>3, <2>4, <2>7, <3>3, <3>7, MemberIs
        <5> QED BY <2>3, <2>7, <3>3, <3>7, <5>1, MemberIs
      <4>2. CASE is_hex(f)
        <5>1. CASE x.type = "string" /\ bytes_from_hex(f.element_count, x.string)
          <6>1. field_from_json(nested, f, item, base) = Written(first, x.string.hex)
            BY <3>3, <3>4, <3>7, <4>2, <5>1 DEF field_from_json
          <6>2. x.string.hex \in Seq(Byte) /\ Len(x.string.hex) = f.element_count
            BY <4>1, <5>1 DEF IsItem, IsText, bytes_from_hex
          <6>3. first \in Nat
            <7>1. element_address(f, base, 1 - 1) \in Nat
              BY <3>2, ElementIs
            <7> QED BY <3>4, <7>1
          <6>4. f.kind # "STRUCT"
            BY <3>2, <4>2, FieldIs DEF Integral
          <6>5. \A h \in 1..f.element_count :
                  [field |-> f, address |-> first + (h - 1) * f.element_size]
                     \in AllPlaces(table, t)
            <7> SUFFICES ASSUME NEW h \in 1..f.element_count
                         PROVE  [field |-> f, address |-> first + (h - 1) * f.element_size]
                                   \in AllPlaces(table, t)
              OBVIOUS
            <7>1. first + (h - 1) * f.element_size = element_address(f, base, h - 1)
              BY <3>2, <3>4, AddressIs
            <7>2. LET g == table[i].fields[k]
                      b == element_address(g, base, h - 1)
                  IN
                  /\ IsField(table, g) /\ b \in Nat
                  /\ g.kind = "STRUCT" =>
                       /\ Ranked(table, g.nested, m - 1)
                       /\ Here(table, m - 1, i, base, k, h) = Places(table)[m - 1][g.nested][b]
                  /\ g.kind # "STRUCT" =>
                       Here(table, m - 1, i, base, k, h) = {[field |-> g, address |-> b]}
                  /\ Here(table, m - 1, i, base, k, h) \subseteq Places(table)[m][i][base]
              <8>1. h \in 1..table[i].fields[k].element_count
                BY <3>1
              <8> QED BY <2>1, <8>1, HereIs
            <7> QED BY <3>1, <6>4, <7>1, <7>2
          <6>6. Write(first, x.string.hex) \in V
            BY <3>2, <4>2, <6>2, <6>3, <6>5, HexFits
          <6> QED BY <3>1, <6>1, <6>6 DEF Written, Result
        <5>2. CASE ~(x.type = "string" /\ bytes_from_hex(f.element_count, x.string))
          <6>1. \/ field_from_json(nested, f, item, base) = Fails("INVALID_ARGUMENT")
                \/ field_from_json(nested, f, item, base) = Fails("INVALID_ENCODING")
            BY <3>3, <3>7, <4>2, <5>2 DEF field_from_json
          <6> QED BY <2>5, <3>1, <6>1
        <5> QED BY <5>1, <5>2
      <4>3. CASE ~is_hex(f) /\ ~is_array(f)
        <5>1. field_from_json(nested, f, item, base)
                 = element_from_json(nested, f, x, element_address(f, base, 1 - 1))
          BY <3>3, <3>7, <4>3 DEF field_from_json
        <5> QED BY <2>6, <3>1, <3>2, <4>1, <5>1
      <4>4. CASE /\ ~is_hex(f) /\ is_array(f)
                 /\ x.type # "array" \/ Len(x.array) # f.element_count
        <5>1. field_from_json(nested, f, item, base) = Fails("INVALID_ARGUMENT")
          BY <3>3, <3>7, <4>4 DEF field_from_json
        <5> QED BY <2>5, <3>1, <5>1
      <4>5. CASE /\ ~is_hex(f) /\ is_array(f)
                 /\ x.type = "array" /\ Len(x.array) = f.element_count
        <5>1. PICK results : results = [h \in 1..f.element_count |->
                 element_from_json(nested, f, x.array[h], element_address(f, base, h - 1))]
          OBVIOUS
        <5>2. Len(results) = f.element_count /\ Len(results) \in Nat
              /\ \A h \in 1..Len(results) : results[h].value \in Seq(V)
          <6>1. Len(results) = f.element_count /\ Len(results) \in Nat
            BY <3>2, <5>1 DEF Natural
          <6>2. \A h \in 1..f.element_count : x.array[h] \in deeper
            BY <4>1, <4>5
          <6>3. \A h \in 1..f.element_count :
                   element_from_json(nested, f, x.array[h],
                                     element_address(f, base, h - 1)).value \in Seq(V)
            BY <2>6, <3>1, <6>2
          <6> QED BY <5>1, <6>1, <6>3
        <5>3. All(results).value \in Seq(V)
          BY <5>2, AllIs
        <5>4. field_from_json(nested, f, item, base) = All(results)
          BY <3>3, <3>7, <4>5, <5>1 DEF field_from_json
        <5> QED BY <3>1, <5>3, <5>4
      <4> QED BY <4>2, <4>3, <4>4, <4>5
    <3> QED BY <3>5, <3>6, <3>7
  <2>8. CASE item.type # "object"
    BY <2>2, <2>5, <2>8 DEF fields_from_json
  <2>9. CASE item.type = "object"
    <3>1. PICK results : results = [k \in 1..Len(fields) |->
             field_from_json(nested, fields[k], item, base)]
      OBVIOUS
    <3>2. Len(results) = Len(fields) /\ Len(results) \in Nat
          /\ \A k \in 1..Len(results) : results[k].value \in Seq(V)
      <4>1. Len(results) = Len(fields) /\ Len(results) \in Nat
        BY <2>1, <3>1
      <4> QED BY <2>7, <2>9, <3>1, <4>1
    <3>3. All(results).value \in Seq(V)
      BY <3>2, AllIs
    <3>4. fields_from_json(nested, fields, item, base) = All(results)
      BY <2>9, <3>1 DEF fields_from_json
    <3> QED BY <2>2, <3>3, <3>4
  <2> QED BY <2>8, <2>9
<1>3. n \in T
  <2> HIDE DEF T
  <2>1. \A m \in 1..n : m - 1 \in T => m \in T
    BY <1>2
  <2>2. 0..n \subseteq T
    BY <1>0, <1>1, <2>1, CountUp
  <2> QED BY <1>0, <2>2
<1> QED BY <1>3

\* Loading JSON makes of an instance one of the same size, that is whole if it
\* was, wherever decoding fails.
LEMMA DecodeKeeps ==
    ASSUME NEW table, IsTable(table), NEW i \in 1..Len(table), NEW json, IsGood(json),
           NEW memory, IsInstance(memory, table[i].size)
    PROVE  LET after == AfterWrites(memory, json_decode(table, i, json).value) IN
           /\ IsInstance(after, table[i].size)
           /\ validate(table, i) = "OK" /\ Whole(table, i, memory) => Whole(table, i, after)
<1>0. Len(table) \in Nat
  BY TableIs
<1>1. CASE validate(table, i) = "OK"
  <2>1. Ranked(table, i, Len(table))
    BY <1>1, RankedTop
  <2>2. Len(table) \in 0..Len(table) /\ Len(table) - Len(table) = 0 /\ 0 \in Nat
    BY <1>0
  <2>3. json \in ItemsWithin(table, json)[0]
    <3>1. 0 \in 0..Len(table)
      BY <1>0
    <3>2. ItemsWithin(table, json)[0] = {json}
      BY <1>0, <3>1, ItemsAre
    <3> QED BY <3>2
  <2>4. Places(table)[Len(table)][i][0] \subseteq AllPlaces(table, i)
    BY DEF AllPlaces
  <2>5. struct_from_json(table, json)[Len(table)][i][json][0].value
            \in Seq(FittingWrites(AllPlaces(table, i)))
    BY <2>1, <2>2, <2>3, <2>4, DecodeFits
  <2>6. json_decode(table, i, json).value \in Seq(FittingWrites(AllPlaces(table, i)))
    BY <1>1, <2>5 DEF json_decode
  <2> QED BY <2>1, <2>6, WritesKeep
<1>2. CASE validate(table, i) # "OK"
  <2>1. json_decode(table, i, json).value = <<>>
    BY <1>2 DEF json_decode, Fails, Result
  <2>2. AfterWrites(memory, <<>>) = memory
    <3>1. Len(<<>>) = 0 /\ 0 \in 0..0
      OBVIOUS
    <3>2. Instances(memory, <<>>)[0] = memory
      BY <3>1, InstancesAre
    <3> QED BY <3>1, <3>2 DEF AfterWrites
  <2> QED BY <1>2, <2>1, <2>2
<1> QED BY <1>1, <1>2
-----------------------------------------------------------------------------
(* Where a path leads                                                      *)

\* A structure within the structure t, at an address.
StructAt(table, t, i, n, base) ==
    /\ n \in 1..Len(table) /\ Ranked(table, i, n) /\ i \in Reached(table, {t})
    /\ base \in Nat /\ Places(table)[n][i][base] \subseteq AllPlaces(table, t)

\* Element m of field k of that structure is one of f at address a.
ElementIn(table, i, base, f, a, m) ==
    \E k \in 1..Len(table[i].fields) :
        /\ f = table[i].fields[k]
        /\ m \in 1..f.element_count
        /\ a = element_address(f, base, m - 1)

\* Element m of a field within the structure t.
ElementAt(table, t, f, a, m) ==
    \E i, n, base : StructAt(table, t, i, n, base) /\ ElementIn(table, i, base, f, a, m)

\* The structure itself is at address 0.
LEMMA StructAtTop ==
    ASSUME NEW table, IsTable(table), NEW t, Ranked(table, t, Len(table))
    PROVE  StructAt(table, t, t, Len(table), 0)
<1>1. Len(table) \in Nat /\ Len(table) # 0 /\ t \in DOMAIN table
  BY TableIs, RankedIs DEF Ranked
<1>2. t \in Reached(table, {t})
  BY <1>1, ReachedIs
<1> QED BY <1>1, <1>2 DEF StructAt, AllPlaces

\* An element of a structure is a structure or a place of it.
LEMMA ElementAtIs ==
    ASSUME NEW table, IsTable(table), NEW t, Ranked(table, t, Len(table)),
           NEW f, NEW a, NEW m, ElementAt(table, t, f, a, m)
    PROVE  /\ IsField(table, f) /\ a \in Nat /\ m \in 1..f.element_count
           /\ f.kind = "STRUCT" => \E n : StructAt(table, t, f.nested, n, a)
           /\ f.kind # "STRUCT" => [field |-> f, address |-> a] \in AllPlaces(table, t)
           /\ m = 1 => \A l \in 1..f.element_count :
                          ElementAt(table, t, f, a + (l - 1) * f.element_size, l)
<1>1. PICK i, n, base :
         StructAt(table, t, i, n, base) /\ ElementIn(table, i, base, f, a, m)
  BY DEF ElementAt
<1>2. PICK k \in 1..Len(table[i].fields) :
         /\ f = table[i].fields[k]
         /\ m \in 1..f.element_count
         /\ a = element_address(f, base, m - 1)
  BY <1>1 DEF ElementIn
<1>3. n \in 1..Len(table) /\ Ranked(table, i, n) /\ i \in Reached(table, {t})
      /\ base \in Nat /\ Places(table)[n][i][base] \subseteq AllPlaces(table, t)
  BY <1>1 DEF StructAt
<1>4. LET g == table[i].fields[k]
          b == element_address(g, base, m - 1)
      IN
      /\ IsField(table, g) /\ b \in Nat
      /\ g.kind = "STRUCT" =>
           /\ Ranked(table, g.nested, n - 1)
           /\ Here(table, n - 1, i, base, k, m) = Places(table)[n - 1][g.nested][b]
      /\ g.kind # "STRUCT" =>
           Here(table, n - 1, i, base, k, m) = {[field |-> g, address |-> b]}
      /\ Here(table, n - 1, i, base, k, m) \subseteq Places(table)[n][i][base]
  <2>1. m \in 1..table[i].fields[k].element_count
    BY <1>2
  <2> QED BY <1>3, <2>1, HereIs
<1>5. IsField(table, f) /\ a \in Nat
  BY <1>2, <1>4
<1>6. ASSUME f.kind = "STRUCT" PROVE \E l : StructAt(table, t, f.nested, l, a)
  <2>1. Ranked(table, f.nested, n - 1)
        /\ Places(table)[n - 1][f.nested][a] \subseteq AllPlaces(table, t)
    BY <1>2, <1>3, <1>4, <1>6
  <2>2. Len(table) \in Nat /\ DOMAIN table = 1..Len(table)
    BY TableIs
  <2>3. n - 1 \in Nat
    BY <1>3, <2>2
  <2>4. n - 1 # 0
    BY <2>1, <2>3, RankedIs
  <2>5. f.nested \in Reached(table, {t})
    <3>1. i \in DOMAIN table /\ t \in DOMAIN table
      BY <1>3, <2>2 DEF Ranked
    <3>2. f.nested \in DOMAIN table
      BY <1>5, <1>6, <2>2, FieldIs
    <3>3. f.nested \in NestedIn(table, {i})
      <4>1. f.nested \in Nested(table[i])
        BY <1>2, <2>2, <3>2 DEF Nested, NoNested
      <4> QED BY <4>1 DEF NestedIn
    <3>4. f.nested \in Reached(table, {i})
      BY <3>1, <3>2, <3>3, ReachedIs
    <3> QED BY <1>3, <3>1, <3>4, ReachedIs
  <2> QED BY <1>3, <1>5, <2>1, <2>2, <2>4, <2>5 DEF StructAt
<1>7. f.kind # "STRUCT" => [field |-> f, address |-> a] \in AllPlaces(table, t)
  BY <1>2, <1>3, <1>4
<1>8. ASSUME m = 1, NEW l \in 1..f.element_count
      PROVE  ElementAt(table, t, f, a + (l - 1) * f.element_size, l)
  <2>1. Natural(f)
    BY <1>5, FieldIs
  <2>2. a = element_address(f, base, 0)
    BY <1>2, <1>8
  <2>3. a + (l - 1) * f.element_size = element_address(f, base, l - 1)
    BY <1>3, <2>1, <2>2, AddressIs
  <2> QED BY <1>1, <1>2, <1>8, <2>3 DEF ElementAt, ElementIn
<1> QED BY <1>2, <1>5, <1>6, <1>7, <1>8

\* A segment leads to an element of the first field of its name.
SegmentLeads(d, base, segment, last) ==
    \E k \in 1..Len(d.fields) : \E m \in 1..d.fields[k].element_count :
        /\ k = find_field(d, segment.name)
        /\ m = (IF segment.index = NoIndex THEN 0 ELSE segment.index) + 1
        /\ resolve_segment(d, base, segment, last)
             = At("OK", d.fields[k], element_address(d.fields[k], base, m - 1))
        /\ ~last => /\ d.fields[k].kind = "STRUCT"
                    /\ d.fields[k].element_count <= 1 \/ segment.index # NoIndex

\* A segment that is resolved leads somewhere.
LEMMA SegmentIs ==
    ASSUME NEW d, Len(d.fields) \in Nat, NEW base, NEW segment,
           segment.index \in Nat \cup {NoIndex},
           NEW last \in BOOLEAN, resolve_segment(d, base, segment, last).code = "OK",
           \A k \in 1..Len(d.fields) :
              d.fields[k].element_count \in Nat /\ d.fields[k].element_count # 0
    PROVE  SegmentLeads(d, base, segment, last)
<1>a. PICK at : at = resolve_segment(d, base, segment, last)
  OBVIOUS
<1>b. at.code = "OK"
  BY <1>a
<1> DEFINE k == find_field(d, segment.name)
           field == d.fields[k]
           index == segment.index
           there == element_address(field, base, IF index = NoIndex THEN 0 ELSE index)
<1>1. at = IF k = 0 THEN At("NOT_FOUND", <<>>, 0)
           ELSE IF /\ index # NoIndex
                   /\ field.kind = "CHAR_ARRAY" \/ index >= field.element_count
             THEN At("OUT_OF_RANGE", <<>>, 0)
           ELSE IF /\ ~last
                   /\ \/ field.kind # "STRUCT"
                      \/ field.element_count > 1 /\ index = NoIndex
             THEN At("INVALID_ARGUMENT", <<>>, 0)
           ELSE At("OK", field, there)
  BY <1>a DEF resolve_segment
<1>2. k # 0 => k \in 1..Len(d.fields)
  <2> DEFINE found == {j \in 1..Len(d.fields) : d.fields[j].name = segment.name}
  <2>1. CASE found = {}
    BY <2>1 DEF find_field
  <2>2. CASE found # {}
    <3>1. k = CHOOSE j \in found : \A h \in found : j <= h
      BY <2>2 DEF find_field
    <3>2. found \in SUBSET Nat /\ found \subseteq 1..Len(d.fields)
      OBVIOUS
    <3> HIDE DEF found, k
    <3>3. k \in found
      BY <2>2, <3>1, <3>2, FirstIs
    <3> QED BY <3>2, <3>3
  <2> QED BY <2>1, <2>2
<1> HIDE DEF k
<1>3. \A code : code # "OK" => At(code, <<>>, 0).code # "OK"
  BY DEF At
<1>4. k # 0
  BY <1>b, <1>1, <1>3
<1>5. ~(index # NoIndex /\ (field.kind = "CHAR_ARRAY" \/ index >= field.element_count))
  BY <1>b, <1>1, <1>3, <1>4
<1>6. ~(~last /\ (field.kind # "STRUCT" \/ (field.element_count > 1 /\ index = NoIndex)))
  BY <1>b, <1>1, <1>3, <1>4, <1>5
<1>7. at = At("OK", field, there)
  BY <1>1, <1>4, <1>5, <1>6
<1>8. k \in 1..Len(d.fields) /\ field.element_count \in Nat /\ field.element_count # 0
  BY <1>2, <1>4
<1>9. PICK x : x = IF index = NoIndex THEN 0 ELSE index
  OBVIOUS
<1>10. x \in Nat /\ x + 1 \in 1..field.element_count /\ (x + 1) - 1 = x
  <2>1. PICK c \in Nat \ {0} : c = field.element_count
    BY <1>8
  <2>2. CASE index = NoIndex
    BY <1>9, <2>1, <2>2
  <2>3. CASE index # NoIndex
    BY <1>5, <1>9, <2>1, <2>3
  <2> QED BY <2>2, <2>3
<1>11. ~last => field.kind = "STRUCT" /\ (field.element_count <= 1 \/ index # NoIndex)
  BY <1>6, <1>8
<1> QED BY <1>a, <1>7, <1>8, <1>9, <1>10, <1>11 DEF SegmentLeads, k

IsPath(path) ==
    /\ IsSeq(path) /\ Len(path) # 0
    /\ \A n \in 1..Len(path) :
          /\ path[n] = Segment(path[n].name, path[n].index)
          /\ path[n].index \in Nat \cup {NoIndex}

\* A path leads to an element of a field within the structure.
LEMMA PathLeads ==
    ASSUME NEW table, IsTable(table), NEW t, Ranked(table, t, Len(table)),
           NEW path, IsPath(path), NEW at, at = resolve_path(table, t, path),
           at.code = "OK"
    PROVE  /\ at = At("OK", at.field, at.address)
           /\ \E m : /\ ElementAt(table, t, at.field, at.address, m)
                     /\ path[Len(path)].index = NoIndex => m = 1
           /\ \A n \in 1..Len(path) : resolved(table, t, path)[n].code = "OK" =>
                resolved(table, t, path)[n].address \in Nat
<1> DEFINE L == Len(path)
           to(n) == resolved(table, t, path)[n]
           Leads(n) == to(n).code = "OK" =>
                /\ to(n) = At("OK", to(n).field, to(n).address)
                /\ \E m : /\ ElementAt(table, t, to(n).field, to(n).address, m)
                          /\ path[n].index = NoIndex => m = 1
                /\ n # L => to(n).field.kind = "STRUCT"
           T == {n \in 0..L : n # 0 => Leads(n)}
<1>1. L \in Nat /\ L # 0
  BY DEF IsPath, IsSeq
<1>2. \A n \in 1..L : to(n) = IF n = 1 THEN resolve_segment(table[t], 0, path[1], 1 = L)
            ELSE IF to(n - 1).code # "OK" THEN to(n - 1)
            ELSE resolve_segment(table[to(n - 1).field.nested], to(n - 1).address,
                                 path[n], n = L)
  BY <1>1, ResolvedAre
<1> HIDE DEF to
<1>3. ASSUME NEW i, NEW h, NEW base, StructAt(table, t, i, h, base), NEW n \in 1..L,
             to(n) = resolve_segment(table[i], base, path[n], n = L)
      PROVE  Leads(n)
  <2>1. i \in 1..Len(table) /\ Len(table[i].fields) \in Nat
    BY <1>3, TableIs DEF StructAt, Ranked
  <2>2. \A k \in 1..Len(table[i].fields) :
           /\ table[i].fields[k].element_count \in Nat
           /\ table[i].fields[k].element_count # 0
    <3>1. h \in 0..Len(table) /\ Ranked(table, i, h)
      BY <1>3 DEF StructAt
    <3>2. \A k \in 1..Len(table[i].fields) : IsField(table, table[i].fields[k])
      BY <3>1, FieldsOf
    <3> QED BY <3>2, FieldIs DEF Natural
  <2>3. path[n].index \in Nat \cup {NoIndex}
    BY DEF IsPath
  <2> SUFFICES ASSUME to(n).code = "OK" PROVE Leads(n)
    OBVIOUS
  <2>4. PICK last \in BOOLEAN : last = (n = L)
    OBVIOUS
  <2>5. to(n) = resolve_segment(table[i], base, path[n], last)
    BY <1>3, <2>4
  <2>a. PICK d : d = table[i]
    OBVIOUS
  <2>b. PICK segment : segment = path[n]
    OBVIOUS
  <2>c. SegmentLeads(d, base, segment, last)
    <3>1. resolve_segment(d, base, segment, last).code = "OK"
      BY <2>5, <2>a, <2>b
    <3>2. Len(d.fields) \in Nat /\ segment.index \in Nat \cup {NoIndex}
      BY <2>1, <2>3, <2>a, <2>b
    <3>3. \A k \in 1..Len(d.fields) :
             d.fields[k].element_count \in Nat /\ d.fields[k].element_count # 0
      BY <2>2, <2>a
    <3> QED BY <3>1, <3>2, <3>3, SegmentIs
  <2>6. PICK k \in 1..Len(table[i].fields) : \E m \in 1..table[i].fields[k].element_count :
              /\ m = (IF path[n].index = NoIndex THEN 0 ELSE path[n].index) + 1
              /\ to(n) = At("OK", table[i].fields[k],
                            element_address(table[i].fields[k], base, m - 1))
              /\ ~last => table[i].fields[k].kind = "STRUCT"
    BY <2>5, <2>a, <2>b, <2>c DEF SegmentLeads
  <2>7. PICK m \in 1..table[i].fields[k].element_count :
              /\ m = (IF path[n].index = NoIndex THEN 0 ELSE path[n].index) + 1
              /\ to(n) = At("OK", table[i].fields[k],
                            element_address(table[i].fields[k], base, m - 1))
              /\ ~last => table[i].fields[k].kind = "STRUCT"
    BY <2>6
  <2>8. /\ to(n).field = table[i].fields[k]
        /\ to(n).address = element_address(table[i].fields[k], base, m - 1)
        /\ to(n) = At("OK", to(n).field, to(n).address)
    BY <2>7 DEF At
  <2>9. ElementAt(table, t, to(n).field, to(n).address, m)
    <3>1. ElementIn(table, i, base, to(n).field, to(n).address, m)
      BY <2>8 DEF ElementIn
    <3> QED BY <1>3, <3>1 DEF ElementAt
  <2>10. path[n].index = NoIndex => m = 1
    BY <2>7
  <2> QED BY <2>4, <2>7, <2>8, <2>9, <2>10
<1>4. ASSUME NEW n \in 1..L, n - 1 \in T PROVE n \in T
  <2>1. CASE n = 1
    <3>1. StructAt(table, t, t, Len(table), 0)
      BY StructAtTop
    <3>2. to(n) = resolve_segment(table[t], 0, path[n], n = L)
      BY <1>2, <2>1
    <3>3. Leads(n)
      BY <1>3, <3>1, <3>2
    <3> QED BY <3>3
  <2>2. CASE n # 1 /\ to(n - 1).code # "OK"
    <3>1. to(n) = to(n - 1)
      BY <1>2, <2>2
    <3> QED BY <2>2, <3>1
  <2>3. CASE n # 1 /\ to(n - 1).code = "OK"
    <3>1. to(n) = resolve_segment(table[to(n - 1).field.nested], to(n - 1).address,
                                  path[n], n = L)
      BY <1>2, <2>3
    <3>2. n - 1 # 0 /\ n - 1 # L
      BY <1>1, <2>3
    <3>3. Leads(n - 1)
      BY <1>4, <3>2
    <3>4. PICK m : ElementAt(table, t, to(n - 1).field, to(n - 1).address, m)
      BY <2>3, <3>3
    <3>5. to(n - 1).field.kind = "STRUCT"
      BY <2>3, <3>2, <3>3
    <3>6. PICK h : StructAt(table, t, to(n - 1).field.nested, h, to(n - 1).address)
      BY <3>4, <3>5, ElementAtIs
    <3>7. Leads(n)
      BY <1>3, <3>1, <3>6
    <3> QED BY <3>7
  <2> QED BY <2>1, <2>2, <2>3
<1>5. 0 \in T
  BY <1>1
<1> HIDE DEF T
<1>6. \A n \in 1..L : n - 1 \in T => n \in T
  BY <1>4
<1>7. 0..L \subseteq T
  BY <1>1, <1>5, <1>6, CountUp
<1>8. Leads(L)
  BY <1>1, <1>7 DEF T
<1>9. at = to(L)
  BY DEF resolve_path, to
<1>10. ASSUME NEW n \in 1..L, to(n).code = "OK" PROVE to(n).address \in Nat
  <2>1. n \in T
    BY <1>1, <1>7
  <2>2. \E m : ElementAt(table, t, to(n).field, to(n).address, m)
    BY <1>10, <2>1 DEF T
  <2> QED BY <2>2, ElementAtIs
<1> QED BY <1>8, <1>9, <1>10 DEF to
-----------------------------------------------------------------------------
(* The paths that the editor composes                                      *)

\* A name that is unique finds its field.
LEMMA FindField ==
    ASSUME NEW d, Len(d.fields) \in Nat, NEW k \in 1..Len(d.fields),
           \A j \in 1..Len(d.fields) : d.fields[j].name = d.fields[k].name => j = k
    PROVE  find_field(d, d.fields[k].name) = k
<1> DEFINE found == {j \in 1..Len(d.fields) : d.fields[j].name = d.fields[k].name}
           first == CHOOSE j \in found : \A h \in found : j <= h
<1>1. k \in found /\ \A j \in found : j = k
  OBVIOUS
<1>2. find_field(d, d.fields[k].name) = first
  <2>1. found # {}
    BY <1>1
  <2> QED BY <2>1 DEF find_field
<1>3. first \in found
  <2>1. found \in SUBSET Nat /\ found # {}
    BY <1>1
  <2> HIDE DEF found
  <2> QED BY <2>1, FirstIs
<1> QED BY <1>1, <1>2, <1>3

\* The parts of a result.
LEMMA AtIs ==
    \A code, field, address :
        /\ At(code, field, address).code = code
        /\ At(code, field, address).field = field
        /\ At(code, field, address).address = address
BY DEF At

\* Results that are equal are so in each part.
LEMMA AtEqual ==
    \A code, field, address, c, f, a :
        At(code, field, address) = At(c, f, a)
            => code = c /\ field = f /\ address = a
BY AtIs

\* What the last segment of a path that leads somewhere is.
LEMMA LastLeads ==
    ASSUME NEW d, NEW base, NEW s, NEW f, NEW a,
           resolve_segment(d, base, s, TRUE) = At("OK", f, a)
    PROVE  /\ find_field(d, s.name) # 0 /\ f = d.fields[find_field(d, s.name)]
           /\ a = element_address(f, base, IF s.index = NoIndex THEN 0 ELSE s.index)
           /\ ~(s.index # NoIndex
                 /\ (f.kind = "CHAR_ARRAY" \/ s.index >= f.element_count))
<1>1. PICK k : k = find_field(d, s.name)
  OBVIOUS
<1>2. PICK g : g = d.fields[k]
  OBVIOUS
<1>3. PICK there : there = element_address(g, base, IF s.index = NoIndex THEN 0 ELSE s.index)
  OBVIOUS
<1>4. PICK wrong \in BOOLEAN :
         wrong = (s.index # NoIndex
                  /\ (g.kind = "CHAR_ARRAY" \/ s.index >= g.element_count))
  OBVIOUS
<1>5. At("OK", f, a) = IF k = 0 THEN At("NOT_FOUND", <<>>, 0)
                       ELSE IF wrong THEN At("OUT_OF_RANGE", <<>>, 0)
                       ELSE At("OK", g, there)
  BY <1>1, <1>2, <1>3, <1>4 DEF resolve_segment
<1>6. At("OK", f, a) # At("NOT_FOUND", <<>>, 0) /\ At("OK", f, a) # At("OUT_OF_RANGE", <<>>, 0)
  <2>1. "OK" # "NOT_FOUND" /\ "OK" # "OUT_OF_RANGE"
    OBVIOUS
  <2> QED BY <2>1, AtEqual
<1>7. k # 0 /\ ~wrong /\ At("OK", f, a) = At("OK", g, there)
  BY <1>5, <1>6
<1>8. f = g /\ a = there
  BY <1>7, AtEqual
<1> QED BY <1>1, <1>2, <1>3, <1>4, <1>7, <1>8

\* Where a field's name leads from its structure.
LEMMA SegmentField ==
    ASSUME NEW d, Len(d.fields) \in Nat, NEW k \in 1..Len(d.fields),
           \A j \in 1..Len(d.fields) : d.fields[j].name = d.fields[k].name => j = k,
           NEW base
    PROVE  resolve_segment(d, base, Segment(d.fields[k].name, NoIndex), TRUE)
              = At("OK", d.fields[k], element_address(d.fields[k], base, 0))
<1>1. PICK segment : segment = Segment(d.fields[k].name, NoIndex)
  OBVIOUS
<1>2. segment.name = d.fields[k].name /\ segment.index = NoIndex
  BY <1>1 DEF Segment
<1>3. find_field(d, segment.name) = k /\ k # 0
  BY <1>2, FindField
<1> QED BY <1>1, <1>2, <1>3 DEF resolve_segment

\* Paths that begin in the same way lead the same way, but for their last segments.
LEMMA SamePrefix ==
    ASSUME NEW table, NEW t, NEW p, NEW q, Len(p) \in Nat, Len(q) \in Nat,
           NEW N \in Nat, N < Len(p), N < Len(q), \A n \in 1..N : p[n] = q[n]
    PROVE  \A n \in 1..N : resolved(table, t, p)[n] = resolved(table, t, q)[n]
<1> DEFINE T == {n \in 0..N : n # 0 => resolved(table, t, p)[n] = resolved(table, t, q)[n]}
<1>1. 0 \in T
  OBVIOUS
<1>2. ASSUME NEW n \in 1..N, n - 1 \in T PROVE n \in T
  <2>1. n \in 1..Len(p) /\ n \in 1..Len(q) /\ n # Len(p) /\ n # Len(q) /\ p[n] = q[n]
    OBVIOUS
  <2>2. PICK x : x = resolved(table, t, p)[n - 1]
    OBVIOUS
  <2>3. n # 1 => resolved(table, t, q)[n - 1] = x
    BY <1>2, <2>2
  <2>4. resolved(table, t, p)[n] =
           IF n = 1 THEN resolve_segment(table[t], 0, p[1], 1 = Len(p))
           ELSE IF x.code # "OK" THEN x
           ELSE resolve_segment(table[x.field.nested], x.address, p[n], n = Len(p))
    BY <2>1, <2>2, ResolvedAre
  <2>5. PICK y : y = resolved(table, t, q)[n - 1]
    OBVIOUS
  <2>6. resolved(table, t, q)[n] =
           IF n = 1 THEN resolve_segment(table[t], 0, q[1], 1 = Len(q))
           ELSE IF y.code # "OK" THEN y
           ELSE resolve_segment(table[y.field.nested], y.address, q[n], n = Len(q))
    BY <2>1, <2>5, ResolvedAre
  <2>7. (n = Len(p)) = FALSE /\ (n = Len(q)) = FALSE
    BY <2>1
  <2>8. resolved(table, t, p)[n] = resolved(table, t, q)[n]
    <3>1. CASE n = 1
      <4>1. (1 = Len(p)) = FALSE /\ (1 = Len(q)) = FALSE
        BY <2>1, <3>1
      <4> QED BY <2>1, <2>4, <2>6, <3>1, <4>1
    <3>2. CASE n # 1
      <4>1. y = x
        BY <2>3, <2>5, <3>2
      <4> QED BY <2>1, <2>4, <2>6, <2>7, <3>2, <4>1
    <3> QED BY <3>1, <3>2
  <2> QED BY <2>8
<1> HIDE DEF T
<1>3. \A n \in 1..N : n - 1 \in T => n \in T
  BY <1>2
<1>4. 0..N \subseteq T
  BY <1>1, <1>3, CountUp
<1> QED BY <1>4 DEF T

\* The last segment leads from where those before it do.
LastFrom(table, t, p, segment, last) ==
    LET before == resolved(table, t, p)[Len(p) - 1]
    IN  IF Len(p) = 1 THEN resolve_segment(table[t], 0, segment, last)
        ELSE IF before.code # "OK" THEN before
        ELSE resolve_segment(table[before.field.nested], before.address, segment, last)

LEMMA LastIs ==
    ASSUME NEW table, NEW t, NEW p, Len(p) \in Nat, Len(p) # 0
    PROVE  resolve_path(table, t, p) = LastFrom(table, t, p, p[Len(p)], TRUE)
<1>1. Len(p) \in 1..Len(p)
  OBVIOUS
<1>2. PICK L : L = Len(p)
  OBVIOUS
<1>a. PICK x : x = resolved(table, t, p)[L - 1]
  OBVIOUS
<1>b. L \in 1..Len(p)
  BY <1>1, <1>2
<1>3. resolved(table, t, p)[L] =
         IF L = 1 THEN resolve_segment(table[t], 0, p[1], 1 = Len(p))
         ELSE IF x.code # "OK" THEN x
         ELSE resolve_segment(table[x.field.nested], x.address, p[L], L = Len(p))
  BY <1>b, <1>a, ResolvedAre
<1>4. (L = Len(p)) = TRUE /\ (L = 1 => (1 = Len(p)) = TRUE)
  BY <1>2
<1> QED BY <1>2, <1>a, <1>3, <1>4 DEF resolve_path, LastFrom

\* What a menu or prompt shows is where it is.
Shown(table, t, frame) ==
    IF frame.path = <<>>
    THEN frame.kind = "struct" /\ frame.address = 0 /\ frame.field.nested = t
    ELSE /\ IsPath(frame.path)
         /\ resolve_path(table, t, frame.path) = At("OK", frame.field, frame.address)
         /\ frame.kind = "struct" =>
              /\ frame.field.kind = "STRUCT"
              /\ frame.field.element_count <= 1 \/ frame.path[Len(frame.path)].index # NoIndex
         /\ frame.kind = "array" => frame.path[Len(frame.path)].index = NoIndex

\* The name of a field, after the path of its structure d, leads to it.
FieldLeads(table, t, frame, d, k) ==
    LET path == append_field_path(frame.path, d.fields[k].name) IN
    /\ IsPath(path) /\ path # <<>>
    /\ resolve_path(table, t, path)
         = At("OK", d.fields[k], element_address(d.fields[k], frame.address, 0))
    /\ path[Len(path)].index = NoIndex

\* A field that is chosen in a menu is where its path leads.
LEMMA FieldShown ==
    ASSUME NEW table, IsTable(table), NEW t, Ranked(table, t, Len(table)),
           NEW frame, frame.kind = "struct", Shown(table, t, frame),
           NEW d, d = table[frame.field.nested],
           Len(d.fields) \in Nat, NEW k \in 1..Len(d.fields),
           \A j \in 1..Len(d.fields) : d.fields[j].name = d.fields[k].name => j = k
    PROVE  FieldLeads(table, t, frame, d, k)
<1>1. PICK segment : segment = Segment(d.fields[k].name, NoIndex)
  OBVIOUS
<1>2. segment = Segment(segment.name, segment.index) /\ segment.index = NoIndex
  BY <1>1 DEF Segment
<1>3. PICK p : p = frame.path
  OBVIOUS
<1>4. PICK q : q = Append(p, segment)
  OBVIOUS
<1>5. append_field_path(frame.path, d.fields[k].name) = q
  BY <1>1, <1>3, <1>4 DEF append_field_path
<1>6. IsSeq(p) /\ Len(p) \in Nat
  BY <1>3 DEF Shown, IsPath, IsSeq
<1>7. /\ IsSeq(q) /\ q # <<>> /\ Len(q) = Len(p) + 1
      /\ \A n \in 1..Len(p) : q[n] = p[n]
      /\ q[Len(p) + 1] = segment
  BY <1>4, <1>6, AppendIs
<1>8. IsPath(q) /\ q[Len(q)].index = NoIndex
  <2>1. ASSUME NEW n \in 1..Len(p)
        PROVE  p[n] = Segment(p[n].name, p[n].index) /\ p[n].index \in Nat \cup {NoIndex}
    <3>1. p # <<>>
      BY <2>1
    <3> QED BY <1>3, <3>1 DEF Shown, IsPath
  <2>2. \A n \in 1..Len(q) : q[n] = Segment(q[n].name, q[n].index)
                             /\ q[n].index \in Nat \cup {NoIndex}
    BY <1>2, <1>6, <1>7, <2>1
  <2> QED BY <1>2, <1>6, <1>7, <2>2 DEF IsPath
<1>9. resolve_path(table, t, q) = resolve_segment(d, frame.address, segment, TRUE)
  <2>0. resolve_path(table, t, q) = LastFrom(table, t, q, segment, TRUE)
    <3>1. Len(q) \in Nat /\ Len(q) # 0 /\ q[Len(q)] = segment
      BY <1>6, <1>7
    <3>2. resolve_path(table, t, q) = LastFrom(table, t, q, q[Len(q)], TRUE)
      BY <3>1, LastIs
    <3> QED BY <3>1, <3>2
  <2>1. CASE p = <<>>
    <3>1. Len(q) = 1
      BY <1>7, <2>1
    <3>2. frame.address = 0 /\ frame.field.nested = t
      BY <1>3, <2>1 DEF Shown
    <3> QED BY <2>0, <3>1, <3>2 DEF LastFrom
  <2>2. CASE p # <<>>
    <3>1. /\ IsPath(p) /\ Len(p) # 0
          /\ resolve_path(table, t, p) = At("OK", frame.field, frame.address)
          /\ frame.field.kind = "STRUCT"
          /\ frame.field.element_count <= 1 \/ p[Len(p)].index # NoIndex
      BY <1>3, <2>2 DEF Shown, IsPath
    <3>a. frame.field.element_count \in Nat
      <4>1. PICK at : at = resolve_path(table, t, p)
        OBVIOUS
      <4>2. at.code = "OK" /\ at.field = frame.field
        BY <3>1, <4>1, AtIs
      <4>3. \E m : ElementAt(table, t, at.field, at.address, m)
        BY <3>1, <4>1, <4>2, PathLeads
      <4> QED BY <4>2, <4>3, ElementAtIs, FieldIs DEF Natural
    <3>2. PICK L \in Nat \ {0} : L = Len(p)
      BY <1>6, <3>1
    <3>3. Len(q) # 1 /\ Len(q) - 1 = L /\ Len(q) \in Nat
      BY <1>7, <3>2
    <3>4. resolved(table, t, q)[L] = LastFrom(table, t, p, p[L], FALSE)
      <4>1. L \in 1..Len(q) /\ L # Len(q) /\ (L = Len(q)) = FALSE /\ q[L] = p[L]
        BY <1>7, <3>2, <3>3
      <4>2. PICK x : x = resolved(table, t, q)[L - 1]
        OBVIOUS
      <4>3. resolved(table, t, q)[L] =
               IF L = 1 THEN resolve_segment(table[t], 0, q[1], 1 = Len(q))
               ELSE IF x.code # "OK" THEN x
               ELSE resolve_segment(table[x.field.nested], x.address, q[L], L = Len(q))
        BY <3>3, <4>1, <4>2, ResolvedAre, SMTT(30)
      <4>4. L # 1 => resolved(table, t, p)[L - 1] = x
        <5>1. \A n \in 1..(L - 1) : resolved(table, t, q)[n] = resolved(table, t, p)[n]
          <6>1. PICK N \in Nat : N = L - 1
            OBVIOUS
          <6>2. N < Len(p) /\ N < Len(q) /\ \A n \in 1..N : q[n] = p[n]
            BY <1>7, <3>2, <3>3, <6>1
          <6>3. \A n \in 1..N : resolved(table, t, q)[n] = resolved(table, t, p)[n]
            BY <1>6, <3>3, <6>2, SamePrefix
          <6> QED BY <6>1, <6>3
        <5> QED BY <4>2, <5>1
      <4>5. CASE L = 1
        <5>1. (1 = Len(q)) = FALSE
          BY <4>1, <4>5
        <5> QED BY <3>2, <4>1, <4>3, <4>5, <5>1 DEF LastFrom
      <4>6. CASE L # 1
        BY <3>2, <4>1, <4>3, <4>4, <4>6 DEF LastFrom
      <4> QED BY <4>5, <4>6
    <3>5. LastFrom(table, t, p, p[L], TRUE) = At("OK", frame.field, frame.address)
      BY <1>6, <3>1, <3>2, LastIs
    <3>6. \A e, b : resolve_segment(e, b, p[L], TRUE) = At("OK", frame.field, frame.address)
             => resolve_segment(e, b, p[L], FALSE) = At("OK", frame.field, frame.address)
      <4> SUFFICES ASSUME NEW e, NEW b,
                     resolve_segment(e, b, p[L], TRUE) = At("OK", frame.field, frame.address)
                   PROVE  resolve_segment(e, b, p[L], FALSE)
                             = At("OK", frame.field, frame.address)
        OBVIOUS
      <4>1. PICK s : s = p[L]
        OBVIOUS
      <4>2. resolve_segment(e, b, s, TRUE) = At("OK", frame.field, frame.address)
        BY <4>1
      <4>3. PICK g : g = frame.field
        OBVIOUS
      <4>4. PICK a : a = frame.address
        OBVIOUS
      <4>a. resolve_segment(e, b, s, TRUE) = At("OK", g, a)
        BY <4>2, <4>3, <4>4
      <4>5. /\ find_field(e, s.name) # 0 /\ g = e.fields[find_field(e, s.name)]
            /\ a = element_address(g, b, IF s.index = NoIndex THEN 0 ELSE s.index)
            /\ ~(s.index # NoIndex
                  /\ (g.kind = "CHAR_ARRAY" \/ s.index >= g.element_count))
        BY <4>a, LastLeads
      <4>6. g.kind = "STRUCT" /\ ~(g.element_count > 1 /\ s.index = NoIndex)
        BY <3>1, <3>2, <3>a, <4>1, <4>3
      <4>7. resolve_segment(e, b, s, FALSE) = At("OK", g, a)
        BY <4>5, <4>6 DEF resolve_segment
      <4> QED BY <4>1, <4>3, <4>4, <4>7
    <3>7. LastFrom(table, t, p, p[L], FALSE) = At("OK", frame.field, frame.address)
      <4>1. CASE Len(p) = 1
        BY <3>5, <3>6, <4>1 DEF LastFrom
      <4>2. CASE Len(p) # 1 /\ resolved(table, t, p)[Len(p) - 1].code # "OK"
        BY <3>5, <4>2 DEF LastFrom
      <4>3. CASE Len(p) # 1 /\ resolved(table, t, p)[Len(p) - 1].code = "OK"
        BY <3>5, <3>6, <4>3 DEF LastFrom
      <4> QED BY <4>1, <4>2, <4>3
    <3>8. /\ resolved(table, t, q)[Len(q) - 1].code = "OK"
          /\ resolved(table, t, q)[Len(q) - 1].field = frame.field
          /\ resolved(table, t, q)[Len(q) - 1].address = frame.address
      <4>1. PICK x : x = resolved(table, t, q)[Len(q) - 1]
        OBVIOUS
      <4>2. x = At("OK", frame.field, frame.address)
        BY <3>2, <3>3, <3>4, <3>7, <4>1
      <4>3. x.code = "OK" /\ x.field = frame.field /\ x.address = frame.address
        BY <4>2, AtIs
      <4> QED BY <4>1, <4>3
    <3> QED BY <2>0, <3>3, <3>8 DEF LastFrom
  <2> QED BY <2>1, <2>2
<1>10. resolve_segment(d, frame.address, segment, TRUE)
          = At("OK", d.fields[k], element_address(d.fields[k], frame.address, 0))
  BY <1>1, SegmentField
<1> QED BY <1>5, <1>7, <1>8, <1>9, <1>10 DEF FieldLeads

\* The index of an element, after the path of its array.
LEMMA IndexShown ==
    ASSUME NEW table, IsTable(table), NEW t, Ranked(table, t, Len(table)),
           NEW frame, frame.kind = "array", Shown(table, t, frame),
           frame.field.kind # "CHAR_ARRAY", IsField(table, frame.field),
           NEW index \in 0..(frame.field.element_count - 1)
    PROVE  LET path == append_index_path(frame.path, index)
               address == frame.address + index * frame.field.element_size
           IN
           /\ IsPath(path) /\ path # <<>>
           /\ resolve_path(table, t, path) = At("OK", frame.field, address)
           /\ path[Len(path)].index = index
<1>1. PICK p : p = frame.path
  OBVIOUS
<1>2. PICK f : f = frame.field
  OBVIOUS
<1>3. /\ IsPath(p) /\ p[Len(p)].index = NoIndex
      /\ resolve_path(table, t, p) = At("OK", f, frame.address)
  BY <1>1, <1>2 DEF Shown
<1>4. PICK L \in Nat \ {0} : L = Len(p)
  BY <1>3 DEF IsPath, IsSeq
<1>5. PICK segment : segment = Segment(p[L].name, index)
  OBVIOUS
<1>6. PICK q : q = append_index_path(p, index)
  OBVIOUS
<1>7. Natural(f) /\ f.element_count # 0 /\ index \in Nat /\ index # NoIndex
  <2>1. Natural(f) /\ f.element_count # 0
    BY <1>2, FieldIs
  <2> QED BY <1>2, <2>1 DEF Natural, NoIndex
<1>8. /\ IsSeq(q) /\ Len(q) = L /\ q # <<>>
      /\ \A n \in 1..(L - 1) : q[n] = p[n]
      /\ q[L] = segment
  <2>1. p = [n \in 1..L |-> p[n]]
    BY <1>3, <1>4 DEF IsPath, IsSeq
  <2>2. q = [p EXCEPT ![L].index = index]
    BY <1>4, <1>6 DEF append_index_path
  <2>3. q = [n \in 1..L |-> IF n = L THEN [p[L] EXCEPT !.index = index] ELSE p[n]]
    BY <1>4, <2>1, <2>2
  <2>4. p[L] = Segment(p[L].name, p[L].index)
    BY <1>3, <1>4 DEF IsPath
  <2>5. [p[L] EXCEPT !.index = index] = segment
    BY <1>5, <2>4 DEF Segment
  <2>6. q = [n \in 1..L |-> IF n = L THEN segment ELSE p[n]]
    BY <2>3, <2>5
  <2>7. Len(q) = L
    BY <2>6
  <2>8. IsSeq(q)
    BY <2>6, <2>7 DEF IsSeq
  <2> QED BY <1>4, <2>6, <2>7, <2>8
<1>9. segment.index = index /\ segment.name = p[L].name
      /\ segment = Segment(segment.name, segment.index)
  BY <1>5 DEF Segment
<1>10. IsPath(q)
  <2>1. \A n \in 1..(L - 1) : p[n] = Segment(p[n].name, p[n].index)
                              /\ p[n].index \in Nat \cup {NoIndex}
    BY <1>3, <1>4 DEF IsPath
  <2>2. \A n \in 1..L : q[n] = Segment(q[n].name, q[n].index)
                        /\ q[n].index \in Nat \cup {NoIndex}
    BY <1>4, <1>7, <1>8, <1>9, <2>1
  <2> QED BY <1>4, <1>8, <2>2 DEF IsPath
<1>11. \A d, b : b \in Nat /\ resolve_segment(d, b, p[L], TRUE) = At("OK", f, frame.address)
          => resolve_segment(d, b, segment, TRUE)
                = At("OK", f, frame.address + index * f.element_size)
  <2> SUFFICES ASSUME NEW d, NEW b \in Nat,
                 resolve_segment(d, b, p[L], TRUE) = At("OK", f, frame.address)
               PROVE  resolve_segment(d, b, segment, TRUE)
                         = At("OK", f, frame.address + index * f.element_size)
    OBVIOUS
  <2>2. PICK j : j = find_field(d, p[L].name)
    OBVIOUS
  <2>3. PICK g : g = d.fields[j]
    OBVIOUS
  <2>4. PICK s : s = p[L]
    OBVIOUS
  <2>a. PICK a : a = frame.address
    OBVIOUS
  <2>b. /\ find_field(d, s.name) # 0 /\ f = d.fields[find_field(d, s.name)]
        /\ a = element_address(f, b, IF s.index = NoIndex THEN 0 ELSE s.index)
    <3>1. resolve_segment(d, b, s, TRUE) = At("OK", f, a)
      BY <2>4, <2>a
    <3> QED BY <3>1, LastLeads, ZenonT(60)
  <2>5. j # 0 /\ g = f /\ frame.address = element_address(f, b, 0)
    BY <1>3, <1>4, <2>2, <2>3, <2>4, <2>a, <2>b
  <2>6. ~(index # NoIndex /\ (f.kind = "CHAR_ARRAY" \/ index >= f.element_count))
    BY <1>2, <1>7 DEF Natural
  <2>7. resolve_segment(d, b, segment, TRUE) = At("OK", f, element_address(f, b, index))
    BY <1>7, <1>9, <2>2, <2>3, <2>5, <2>6 DEF resolve_segment
  <2>8. element_address(f, b, 0) + index * f.element_size = element_address(f, b, index)
    <3>1. index + 1 \in 1..f.element_count /\ (index + 1) - 1 = index
      BY <1>2, <1>7 DEF Natural
    <3>2. element_address(f, b, 0) + ((index + 1) - 1) * f.element_size
             = element_address(f, b, (index + 1) - 1)
      BY <1>7, <3>1, AddressIs
    <3> QED BY <3>1, <3>2
  <2> QED BY <2>5, <2>7, <2>8
<1>12. resolve_path(table, t, q) = At("OK", f, frame.address + index * f.element_size)
  <2>1. LastFrom(table, t, p, p[L], TRUE) = At("OK", f, frame.address)
    BY <1>3, <1>4, LastIs
  <2>2. resolve_path(table, t, q) = LastFrom(table, t, q, segment, TRUE)
    BY <1>4, <1>8, LastIs
  <2>3. CASE L = 1
    <3>1. resolve_segment(table[t], 0, p[L], TRUE) = At("OK", f, frame.address)
      BY <1>4, <2>1, <2>3 DEF LastFrom
    <3>2. LastFrom(table, t, q, segment, TRUE) = resolve_segment(table[t], 0, segment, TRUE)
      BY <1>8, <2>3 DEF LastFrom
    <3> QED BY <1>11, <2>2, <3>1, <3>2
  <2>4. CASE L # 1
    <3>1. PICK x : x = resolved(table, t, p)[L - 1]
      OBVIOUS
    <3>2. resolved(table, t, q)[L - 1] = x
      <4>1. PICK N \in Nat : N = L - 1 /\ N \in 1..N
        BY <2>4
      <4>2. /\ N < Len(p) /\ N < Len(q) /\ Len(p) \in Nat /\ Len(q) \in Nat
            /\ \A n \in 1..N : q[n] = p[n]
        BY <1>4, <1>8, <4>1
      <4>3. \A n \in 1..N : resolved(table, t, q)[n] = resolved(table, t, p)[n]
        BY <4>2, SamePrefix
      <4> QED BY <3>1, <4>1, <4>3
    <3>3. x.code = "OK"
          /\ resolve_segment(table[x.field.nested], x.address, p[L], TRUE)
                = At("OK", f, frame.address)
      <4>1. CASE x.code # "OK"
        <5>1. LastFrom(table, t, p, p[L], TRUE) = x
          BY <1>4, <2>4, <3>1, <4>1 DEF LastFrom
        <5>2. At("OK", f, frame.address).code = "OK"
          BY AtIs
        <5> QED BY <2>1, <4>1, <5>1, <5>2
      <4>2. CASE x.code = "OK"
        BY <1>4, <2>1, <2>4, <3>1, <4>2 DEF LastFrom
      <4> QED BY <4>1, <4>2
    <3>4. x.address \in Nat
      <4>1. L - 1 \in 1..Len(p)
        BY <1>4, <2>4
      <4>2. resolve_path(table, t, p).code = "OK"
        BY <1>3, AtIs
      <4>3. \A n \in 1..Len(p) : resolved(table, t, p)[n].code = "OK" =>
               resolved(table, t, p)[n].address \in Nat
        BY <1>3, <4>2, PathLeads
      <4> QED BY <3>1, <3>3, <4>1, <4>3
    <3>5. LastFrom(table, t, q, segment, TRUE)
             = resolve_segment(table[x.field.nested], x.address, segment, TRUE)
      BY <1>8, <2>4, <3>2, <3>3 DEF LastFrom
    <3> QED BY <1>11, <2>2, <3>3, <3>4, <3>5
  <2> QED BY <2>3, <2>4
<1> QED BY <1>1, <1>2, <1>6, <1>8, <1>9, <1>10, <1>12
-----------------------------------------------------------------------------
(* What is saved as JSON is well-formed                                    *)

\* An item is well-formed if those within it are.
LEMMA GoodIs ==
    ASSUME NEW x, IsItem(x), \A y \in ItemsOf(x) : IsGood(y)
    PROVE  IsGood(x)
<1> DEFINE C(y) == CHOOSE S : y \in S /\ Closed(S)
           S == {x} \cup UNION {C(y) : y \in ItemsOf(x)}
<1>1. \A y \in ItemsOf(x) : y \in C(y) /\ Closed(C(y))
  BY DEF IsGood
<1> HIDE DEF C
<1>2. \A z \in S : z = x \/ \E y \in ItemsOf(x) : z \in C(y)
  OBVIOUS
<1>3. \A y \in ItemsOf(x) : C(y) \subseteq S
  OBVIOUS
<1>4. ItemsOf(x) \subseteq S
  BY <1>1, <1>3
<1> HIDE DEF S
<1>5. Closed(S)
  BY <1>1, <1>2, <1>3, <1>4 DEF Closed
<1>6. x \in S
  BY DEF S
<1> QED BY <1>5, <1>6 DEF IsGood

\* A value that can be a member of an object.
IsValue(x) ==
    /\ IsGood(x)
    /\ x.type = "array" => \A n \in 1..Len(x.array) : IsGood(x.array[n])

\* Items with none in them are well-formed.
LEMMA ScalarGood ==
    ASSUME NEW x, x.type \in {"number", "string", "null"}, IsItem(x)
    PROVE  IsValue(x)
<1>1. x.type # "object" /\ x.type # "array"
  OBVIOUS
<1>2. ItemsOf(x) = {}
  BY <1>1 DEF ItemsOf
<1>3. IsGood(x)
  BY <1>2, GoodIs
<1> QED BY <1>1, <1>3 DEF IsValue

\* An array of well-formed items can be a member.
LEMMA ArrayGood ==
    ASSUME NEW items, IsSeq(items), \A n \in 1..Len(items) : IsGood(items[n])
    PROVE  IsValue(Array(items))
<1>1. PICK x : x = Array(items)
  OBVIOUS
<1>2. x.type = "array" /\ x.array = items
  BY <1>1 DEF Array
<1>3. IsItem(x)
  BY <1>2 DEF IsItem
<1>4. ItemsOf(x) = {}
  BY <1>2 DEF ItemsOf
<1>5. IsGood(x)
  BY <1>3, <1>4, GoodIs
<1> QED BY <1>1, <1>2, <1>5 DEF IsValue

\* An object of such members is well-formed.
LEMMA ObjectGood ==
    ASSUME NEW members, IsSeq(members), \A n \in 1..Len(members) : IsValue(members[n].item)
    PROVE  IsGood(Object(members)) /\ Object(members).type = "object"
<1>1. PICK x : x = Object(members)
  OBVIOUS
<1>2. x.type = "object" /\ x.object = members
  BY <1>1 DEF Object
<1>3. IsItem(x)
  BY <1>2 DEF IsItem
<1> DEFINE items == {members[n].item : n \in 1..Len(members)}
<1>4. ItemsOf(x) = items \cup UNION {Range(y.array) : y \in {z \in items : z.type = "array"}}
  BY <1>2 DEF ItemsOf
<1>5. \A y \in items : IsValue(y)
  OBVIOUS
<1> HIDE DEF items
<1>6. ASSUME NEW y \in items, y.type = "array", NEW e \in Range(y.array)
      PROVE  IsGood(e)
  <2>1. IsValue(y) /\ IsItem(y)
    BY <1>5 DEF IsValue, IsGood, Closed
  <2>2. IsSeq(y.array)
    BY <1>6, <2>1 DEF IsItem
  <2>3. DOMAIN y.array = 1..Len(y.array)
    BY <2>2, SeqIs
  <2>4. \E n \in 1..Len(y.array) : e = y.array[n]
    BY <1>6, <2>3 DEF Range
  <2> QED BY <1>6, <2>1, <2>4 DEF IsValue
<1>7. \A y \in ItemsOf(x) : IsGood(y)
  <2> TAKE y \in ItemsOf(x)
  <2>1. CASE y \in items
    BY <1>5, <2>1 DEF IsValue
  <2>2. CASE y \notin items
    BY <1>4, <1>6, <2>2
  <2> QED BY <2>1, <2>2
<1>8. IsGood(x)
  BY <1>3, <1>7, GoodIs
<1> QED BY <1>1, <1>2, <1>8

\* The bytes of a slice.
LEMMA SliceTyped ==
    ASSUME NEW memory, Len(memory) \in Nat, NEW address \in Nat, NEW size \in Nat,
           \A b \in Bytes(address, size) : memory[b + 1] \in Byte
    PROVE  Slice(memory, address, size) \in Seq(Byte)
           /\ Len(Slice(memory, address, size)) = size
<1>1. Slice(memory, address, size)
         = [n \in 1..size |-> memory[address + n]]
  BY DEF Slice
<1>2. ASSUME NEW n \in 1..size PROVE memory[address + n] \in Byte
  <2>1. address + n - 1 \in Bytes(address, size) /\ (address + n - 1) + 1 = address + n
    BY DEF Bytes
  <2> QED BY <2>1
<1>3. [n \in 1..size |-> memory[address + n]] \in [1..size -> Byte]
  BY <1>2
<1>4. Slice(memory, address, size) \in Seq(Byte)
  BY <1>1, <1>3
<1> QED BY <1>1, <1>4

\* A number, byte by byte.
LEMMA LowIs ==
    ASSUME NEW bytes, Len(bytes) \in Nat
    PROVE  \E f : /\ load_unsigned(bytes) = f[Len(bytes)]
                 /\ \A k \in 0..Len(bytes) : f[k] = IF k = 0 THEN 0 ELSE f[k - 1] + bytes[k] * Combinations(k - 1)
<1> DEFINE N == Len(bytes)
           Step(k, before) ==
             IF k = 0 THEN 0 ELSE before + bytes[k] * Combinations(k - 1)
           Right(f, m) == f = [k \in 0..m |-> Step(k, f[k - 1])]
           Values == CHOOSE f : Right(f, N)
           T == {m \in 0..N : \E f : Right(f, m)}
<1>1. \A a, b : Step(0, a) = Step(0, b)
  OBVIOUS
<1>2. load_unsigned(bytes) = Values[Len(bytes)]
  BY DEF load_unsigned
<1> HIDE DEF Step
<1>3. 0 \in T
  <2> DEFINE f == [k \in 0..0 |-> Step(0, 0)]
  <2>1. \A k \in 0..0 : Step(k, f[k - 1]) = Step(0, 0)
    BY <1>1
  <2>2. Right(f, 0)
    BY <2>1
  <2> QED BY <2>2
<1>4. ASSUME NEW m \in 1..N, m - 1 \in T PROVE m \in T
  <2>1. PICK g : Right(g, m - 1)
    BY <1>4
  <2> DEFINE f == [k \in 0..m |-> IF k = m THEN Step(m, g[m - 1]) ELSE g[k]]
  <2>2. \A k \in 0..m : f[k] = Step(k, f[k - 1])
    <3> TAKE k \in 0..m
    <3>1. CASE k = m
      BY <3>1
    <3>2. CASE k # m /\ k = 0
      BY <2>1, <3>2, <1>1
    <3>3. CASE k # m /\ k # 0
      <4>1. k \in 0..(m - 1) /\ k - 1 \in 0..m /\ k - 1 # m
        BY <3>3
      <4>2. f[k] = g[k] /\ f[k - 1] = g[k - 1]
        BY <3>3, <4>1
      <4> QED BY <2>1, <4>1, <4>2
    <3> QED BY <3>1, <3>2, <3>3
  <2>3. f = [k \in 0..m |-> f[k]]
    OBVIOUS
  <2> HIDE DEF f
  <2>4. Right(f, m)
    BY <2>2, <2>3
  <2> HIDE DEF Right
  <2> QED BY <2>4, <1>4
<1>5. N \in T
  <2> HIDE DEF T
  <2>1. \A m \in 1..N : m - 1 \in T => m \in T
    BY <1>4
  <2>2. 0..N \subseteq T
    BY <1>3, <2>1, CountUp
  <2> QED BY <2>2
<1>6. Right(Values, N)
  <2> HIDE DEF Right
  <2> QED BY <1>5
<1>7. \A k \in 0..N : Values[k] = Step(k, Values[k - 1])
  BY <1>6
<1> USE DEF Step
<1> HIDE DEF Right, T
<1>8. ASSUME NEW k \in 0..N
      PROVE  Step(k, Values[k - 1]) =
                IF k = 0 THEN 0 ELSE Values[k - 1] + bytes[k] * Combinations(k - 1)
  OBVIOUS
<1> HIDE DEF Step, Values
<1>9. \A k \in 0..Len(bytes) : Values[k] = IF k = 0 THEN 0 ELSE Values[k - 1] + bytes[k] * Combinations(k - 1)
  BY <1>7, <1>8
<1> QED BY <1>2, <1>9

\* A number is what its bytes come to.
LEMMA NumberIs ==
    ASSUME NEW bytes \in Seq(Byte)
    PROVE  load_unsigned(bytes) \in Int /\ load_signed(bytes) \in Int
<1>1. PICK N \in Nat : N = Len(bytes)
  OBVIOUS
<1>2. PICK f : /\ load_unsigned(bytes) = f[N]
               /\ \A n \in 0..N : f[n] = IF n = 0 THEN 0
                                          ELSE f[n - 1] + bytes[n] * Combinations(n - 1)
  BY <1>1, LowIs
<1> DEFINE T == {n \in 0..N : f[n] \in Int}
<1>3. 0 \in T
  BY <1>2
<1>4. ASSUME NEW n \in 1..N, n - 1 \in T PROVE n \in T
  <2>1. f[n] = f[n - 1] + bytes[n] * Combinations(n - 1)
    BY <1>2
  <2>2. Combinations(n - 1) \in Int /\ bytes[n] \in Int
    <3>1. n - 1 \in Nat /\ n \in 1..Len(bytes)
      BY <1>1
    <3>2. Combinations(n - 1) \in Nat
      BY <3>1, CombinationsAre
    <3>3. bytes[n] \in Byte
      BY <3>1
    <3> QED BY <3>2, <3>3 DEF Byte
  <2>3. PICK c \in Int : c = bytes[n] * Combinations(n - 1)
    BY <2>2
  <2> QED BY <1>4, <2>1, <2>3
<1> HIDE DEF T
<1>5. 0..N \subseteq T
  BY <1>3, <1>4, CountUp
<1>6. load_unsigned(bytes) \in Int
  BY <1>2, <1>5 DEF T
<1>7. load_signed(bytes) \in Int
  <2>1. PICK c \in Int : c = Combinations(Len(bytes))
    BY <1>1, CombinationsAre
  <2> QED BY <1>6, <2>1 DEF load_signed
<1> QED BY <1>6, <1>7

\* What scalar_to_json yields can be a member.
LEMMA ScalarSaves ==
    ASSUME NEW table, IsTable(table), NEW f, IsField(table, f), f.kind # "STRUCT",
           NEW memory, Len(memory) \in Nat, NEW a \in Nat,
           \A b \in ElementBytes(f, a) : memory[b + 1] \in Byte
    PROVE  IsValue(scalar_to_json(f, memory, a).value)
           /\ scalar_to_json(f, memory, a).value.type # "array"
<1>1. Natural(f) /\ f.kind \in Kinds
  BY FieldIs
<1>2. \A v \in Int : IsValue(Number(v)) /\ Number(v).type = "number"
  <2> TAKE v \in Int
  <2>1. Number(v).type = "number" /\ Number(v).number = v
    BY DEF Number
  <2>2. IsItem(Number(v))
    BY <2>1 DEF IsItem
  <2> QED BY <2>1, <2>2, ScalarGood
<1>3. ASSUME f.kind # "CHAR_ARRAY"
      PROVE  LET bytes == Slice(memory, a, f.element_size) IN
             load_unsigned(bytes) \in Int /\ load_signed(bytes) \in Int
  <2>1. f.element_size \in Nat /\ ElementBytes(f, a) = Bytes(a, f.element_size)
    BY <1>1, <1>3 DEF ElementBytes, ElementSize, Natural
  <2>2. Slice(memory, a, f.element_size) \in Seq(Byte)
    BY <2>1, SliceTyped
  <2> QED BY <2>2, NumberIs
<1>4. CASE f.kind = "SIGNED_INTEGER"
  <2>1. scalar_to_json(f, memory, a).value
           = Number(load_signed(Slice(memory, a, f.element_size)))
    BY <1>4, Zenon DEF scalar_to_json, Result
  <2>2. f.kind # "CHAR_ARRAY"
    BY <1>4
  <2> QED BY <1>2, <1>3, <2>1, <2>2
<1>5. CASE f.kind = "UNSIGNED_INTEGER"
  <2>1. f.kind # "CHAR_ARRAY" /\ f.kind # "SIGNED_INTEGER"
    BY <1>5
  <2>2. scalar_to_json(f, memory, a).value
           = Number(load_unsigned(Slice(memory, a, f.element_size)))
    BY <1>5, <2>1 DEF scalar_to_json, Result
  <2> QED BY <1>2, <1>3, <2>1, <2>2
<1>6. CASE f.kind \in {"FLOAT", "DOUBLE"}
  <2>1. f.kind # "CHAR_ARRAY"
    BY <1>6
  <2>2. PICK v \in Int : v = load_signed(Slice(memory, a, f.element_size))
    BY <1>3, <2>1
  <2>3. PICK right \in BOOLEAN :
           right = (f.element_size = (IF f.kind = "FLOAT" THEN FloatSize ELSE DoubleSize))
    OBVIOUS
  <2>4. scalar_to_json(f, memory, a)
           = IF right THEN Result("OK", Real(f.element_size, v))
             ELSE Result("UNSUPPORTED", Number(0))
    BY <1>6, <2>2, <2>3 DEF scalar_to_json
  <2>5. scalar_to_json(f, memory, a).value \in {Real(f.element_size, v), Number(0)}
    BY <2>4 DEF Result
  <2>6. IsValue(Real(f.element_size, v)) /\ Real(f.element_size, v).type # "array"
    <3>1. PICK null : null = [type |-> "null"]
      OBVIOUS
    <3>2. null.type = "null"
      BY <3>1
    <3>3. IsItem(null)
      BY <3>2 DEF IsItem
    <3>4. IsValue(null)
      BY <3>2, <3>3, ScalarGood
    <3> QED BY <1>2, <3>1, <3>2, <3>4 DEF Real
  <2> QED BY <1>2, <2>5, <2>6
<1>7. CASE f.kind = "CHAR_ARRAY"
  <2>1. PICK buffer : buffer = Slice(memory, a, f.char_buffer_size)
    OBVIOUS
  <2>2. scalar_to_json(f, memory, a)
           = IF HasNUL(buffer) THEN Result("OK", String(TextOf(buffer)))
             ELSE Result("INVALID_ENCODING", Number(0))
    BY <1>7, <2>1 DEF scalar_to_json
  <2>3. CASE ~HasNUL(buffer)
    <3>1. scalar_to_json(f, memory, a).value = Number(0)
      BY <2>2, <2>3 DEF Result
    <3> QED BY <1>2, <3>1
  <2>4. CASE HasNUL(buffer)
    <3>1. scalar_to_json(f, memory, a).value = String(TextOf(buffer))
      BY <2>2, <2>4 DEF Result
    <3>2. buffer \in Seq(Byte)
      <4>1. f.char_buffer_size \in Nat /\ ElementBytes(f, a) = Bytes(a, f.char_buffer_size)
        BY <1>1, <1>7 DEF ElementBytes, ElementSize, Natural
      <4> QED BY <2>1, <4>1, SliceTyped
    <3>3. IsText(TextOf(buffer))
      <4> DEFINE ends == {i \in 1..Len(buffer) : buffer[i] = NUL}
      <4>1. ends # {} /\ ends \in SUBSET Nat
        BY <2>4 DEF HasNUL
      <4>2. PICK l \in ends : \A m \in ends : l <= m
        <5> HIDE DEF ends
        <5> QED BY <4>1, LeastNumber
      <4>3. \E i \in 1..Len(buffer) : buffer[i] = NUL /\ \A j \in 1..(i - 1) : buffer[j] # NUL
        BY <4>2
      <4>4. PICK end \in 1..Len(buffer) :
               TextOf(buffer) = Text(SubSeq(buffer, 1, end - 1), NotHex)
        BY <4>3 DEF TextOf
      <4>5. SubSeq(buffer, 1, end - 1) \in Seq(Byte)
        BY <3>2
      <4>6. <<>> \in Seq(Byte)
        OBVIOUS
      <4> QED BY <4>4, <4>5, <4>6 DEF IsText, Text, NotHex
    <3>4. PICK x : x = String(TextOf(buffer))
      OBVIOUS
    <3>5. x.type = "string" /\ x.string = TextOf(buffer)
      BY <3>4 DEF String
    <3>6. IsItem(x)
      BY <3>3, <3>5 DEF IsItem
    <3>7. IsValue(x)
      BY <3>5, <3>6, ScalarGood
    <3> QED BY <3>1, <3>4, <3>5, <3>7
  <2> QED BY <2>3, <2>4
<1> QED BY <1>1, <1>4, <1>5, <1>6, <1>7 DEF Kinds, Integral

\* A memory has bytes where a structure is.
HasBytes(memory, base, size) ==
    Len(memory) \in Nat /\ \A b \in Bytes(base, size) : memory[b + 1] \in Byte

\* What a structure is saved as, whether or not that succeeds, is an object
\* that can be loaded.
LEMMA SavedIsGood ==
    ASSUME NEW table, IsTable(table), NEW memory, NEW n \in 0..Len(table)
    PROVE  \A i, base :
             Ranked(table, i, n) /\ base \in Nat /\ HasBytes(memory, base, table[i].size) =>
                LET json == struct_to_json(table, memory)[n][i][base].value
                IN  IsGood(json) /\ json.type = "object"
<1> DEFINE Good(m) == \A i, base :
             Ranked(table, i, m) /\ base \in Nat /\ HasBytes(memory, base, table[i].size) =>
                LET json == struct_to_json(table, memory)[m][i][base].value
                IN  IsGood(json) /\ json.type = "object"
           T == {m \in 0..n : Good(m)}
<1>0. Len(table) \in Nat /\ n \in Nat
  BY TableIs
<1>1. 0 \in T
  <2>1. \A i : ~Ranked(table, i, 0)
    BY RankedIs
  <2> QED BY <1>0, <2>1
<1>2. ASSUME NEW m \in 1..n, m - 1 \in T PROVE m \in T
  <2>0. Good(m - 1)
    BY <1>2
  <2> SUFFICES ASSUME NEW i, NEW base, Ranked(table, i, m), base \in Nat,
                      HasBytes(memory, base, table[i].size)
               PROVE  LET json == struct_to_json(table, memory)[m][i][base].value
                      IN  IsGood(json) /\ json.type = "object"
    BY <1>0
  <2> DEFINE nested == struct_to_json(table, memory)[m - 1]
             fields == table[i].fields
  <2> HIDE DEF Good, T
  <2>1. m \in 0..Len(table) /\ m \in 1..Len(table) /\ m # 0 /\ i \in 1..Len(table)
        /\ Len(fields) \in Nat
    BY <1>0, TableIs DEF Ranked
  <2>2. struct_to_json(table, memory)[m][i][base] = fields_to_json(nested, fields, memory, base)
    BY <1>0, <2>1, JsonIs
  <2>3. ASSUME NEW k \in 1..Len(fields), NEW l \in 1..fields[k].element_count
        PROVE  LET json == element_to_json(nested, fields[k], memory,
                              element_address(fields[k], base, l - 1)).value
               IN  IsValue(json) /\ json.type # "array"
    <3>1. PICK f : f = fields[k]
      OBVIOUS
    <3>2. PICK a : a = element_address(f, base, l - 1)
      OBVIOUS
    <3>3. /\ IsField(table, f)
          /\ f.kind = "STRUCT" => /\ Ranked(table, f.nested, m - 1)
                                  /\ ElementSize(f) = table[f.nested].size
          /\ FieldBytes(f, base) \subseteq Bytes(base, table[i].size)
      <4>1. FieldWith(table, i, m, f, base)
        BY <2>1, <3>1, FieldOf
      <4> QED BY <4>1 DEF FieldWith
    <3>4. a \in Nat /\ ElementBytes(f, a) \subseteq FieldBytes(f, base)
      BY <3>1, <3>2, <3>3, ElementIs
    <3>5. Len(memory) \in Nat /\ \A b \in ElementBytes(f, a) : memory[b + 1] \in Byte
      BY <3>3, <3>4 DEF HasBytes
    <3>6. CASE f.kind = "STRUCT"
      <4>1. HasBytes(memory, a, table[f.nested].size)
        BY <3>3, <3>5, <3>6 DEF HasBytes, ElementBytes
      <4>2. PICK json : json = struct_to_json(table, memory)[m - 1][f.nested][a].value
        OBVIOUS
      <4>3. IsGood(json) /\ json.type = "object"
        BY <2>0, <3>3, <3>4, <3>6, <4>1, <4>2 DEF Good
      <4>4. element_to_json(nested, f, memory, a).value = json
        BY <3>6, <4>2 DEF element_to_json
      <4>5. IsValue(json) /\ json.type # "array"
        BY <4>3 DEF IsValue
      <4> QED BY <3>1, <3>2, <4>4, <4>5
    <3>7. CASE f.kind # "STRUCT"
      <4>1. PICK json : json = scalar_to_json(f, memory, a).value
        OBVIOUS
      <4>2. IsValue(json) /\ json.type # "array"
        BY <3>3, <3>4, <3>5, <3>7, <4>1, ScalarSaves
      <4>3. element_to_json(nested, f, memory, a).value = json
        BY <3>7, <4>1 DEF element_to_json
      <4> QED BY <3>1, <3>2, <4>2, <4>3
    <3> QED BY <3>6, <3>7
  <2>4. ASSUME NEW k \in 1..Len(fields)
        PROVE  IsValue(field_to_json(nested, fields[k], memory, base).value)
    <3>1. PICK f : f = fields[k]
      OBVIOUS
    <3>2. IsField(table, f) /\ Natural(f) /\ 1 \in 1..f.element_count
          /\ FieldBytes(f, base) \subseteq Bytes(base, table[i].size)
      <4>1. IsField(table, f) /\ FieldBytes(f, base) \subseteq Bytes(base, table[i].size)
        <5>1. FieldWith(table, i, m, f, base)
          BY <2>1, <3>1, FieldOf
        <5> QED BY <5>1 DEF FieldWith
      <4>2. Natural(f) /\ f.element_count # 0
        BY <4>1, FieldIs
      <4> QED BY <4>1, <4>2 DEF Natural
    <3>3. CASE is_hex(f)
      <4>1. f.kind \in Integral /\ f.element_size = 1 /\ f.element_count > 1
        BY <3>2, <3>3, FieldIs
      <4>2. PICK first : first = element_address(f, base, 0)
        OBVIOUS
      <4>3. first \in Nat /\ Bytes(first, f.element_count) = FieldBytes(f, base)
        <5>1. FieldSize(f) = f.element_count
          <6>1. f.kind # "CHAR_ARRAY"
            BY <4>1 DEF Integral
          <6> QED BY <3>2, <4>1, <6>1 DEF FieldSize, Natural
        <5>2. first = base + f.offset
          BY <3>2, <4>1, <4>2 DEF element_address, Natural
        <5> QED BY <3>2, <5>1, <5>2 DEF FieldBytes, Natural
      <4>4. PICK bytes : bytes = Slice(memory, first, f.element_count)
        OBVIOUS
      <4>5. bytes \in Seq(Byte) /\ Len(bytes) = f.element_count
        <5>1. Len(memory) \in Nat /\ \A b \in Bytes(first, f.element_count) : memory[b + 1] \in Byte
          BY <3>2, <4>3 DEF HasBytes
        <5> QED BY <3>2, <4>3, <4>4, <5>1, SliceTyped DEF Natural
      <4>6. field_to_json(nested, f, memory, base).value = String(bytes_to_hex(bytes))
        BY <3>3, <4>2, <4>4 DEF field_to_json, Result
      <4>7. IsText(bytes_to_hex(bytes))
        <5>1. PICK N \in Nat : N = 3 * Len(bytes) - 1
          BY <4>1, <4>5, <3>2 DEF Natural
        <5>2. [h \in 1..N |-> 1] \in Seq(Byte)
          <6>1. 1 \in Byte
            BY ValuesAssumption DEF Byte
          <6> QED BY <6>1
        <5> QED BY <4>5, <5>1, <5>2 DEF IsText, bytes_to_hex, Text
      <4>8. PICK x : x = String(bytes_to_hex(bytes))
        OBVIOUS
      <4>9. x.type = "string" /\ x.string = bytes_to_hex(bytes)
        BY <4>8 DEF String
      <4>10. IsItem(x)
        BY <4>7, <4>9 DEF IsItem
      <4>11. IsValue(x)
        BY <4>9, <4>10, ScalarGood
      <4> QED BY <3>1, <4>6, <4>8, <4>11
    <3>4. CASE ~is_hex(f) /\ ~is_array(f)
      <4>1. field_to_json(nested, f, memory, base)
               = element_to_json(nested, f, memory, element_address(f, base, 1 - 1))
        BY <3>4 DEF field_to_json
      <4> QED BY <2>3, <3>1, <3>2, <4>1
    <3>5. CASE ~is_hex(f) /\ is_array(f)
      <4>1. PICK results : results = [h \in 1..f.element_count |->
               element_to_json(nested, f, memory, element_address(f, base, h - 1))]
        OBVIOUS
      <4>2. Len(results) = f.element_count /\ Len(results) \in Nat
            /\ \A h \in 1..f.element_count : IsValue(results[h].value)
        BY <2>3, <3>1, <3>2, <4>1 DEF Natural
      <4>3. PICK c \in 0..Len(results) :
               Sequentially(results).value = [h \in 1..c |-> results[h].value]
        BY <4>2, SequentiallyIs
      <4>4. PICK items : items = Sequentially(results).value
        OBVIOUS
      <4>5. IsSeq(items) /\ \A h \in 1..Len(items) : IsGood(items[h])
        <5>1. Len(items) = c /\ c \in Nat
          BY <4>2, <4>3, <4>4
        <5> QED BY <4>2, <4>3, <4>4, <5>1 DEF IsSeq, IsValue
      <4>6. IsValue(Array(items))
        BY <4>5, ArrayGood
      <4>7. field_to_json(nested, f, memory, base).value = Array(items)
        BY <3>5, <4>1, <4>4 DEF field_to_json, Result
      <4> QED BY <3>1, <4>6, <4>7
    <3> QED BY <3>3, <3>4, <3>5
  <2> HIDE DEF nested
  <2>5. PICK results : results = [k \in 1..Len(fields) |->
           member_to_json(nested, fields[k], memory, base)]
    OBVIOUS
  <2>6. PICK members : members = All(results).value
    OBVIOUS
  <2>7. struct_to_json(table, memory)[m][i][base].value = Object(members)
    BY <2>2, <2>5, <2>6 DEF fields_to_json, Result
  <2>8. IsSeq(members) /\ \A h \in 1..Len(members) : IsValue(members[h].item)
    <3> DEFINE Mem(k) == Member(json_key(fields[k]),
                                field_to_json(nested, fields[k], memory, base).value)
               V == {Mem(k) : k \in 1..Len(fields)}
    <3>1. \A x \in V : IsValue(x.item)
      BY <2>4 DEF Member
    <3>2. \A k \in 1..Len(fields) : results[k].value \in {<<>>, <<Mem(k)>>}
      BY <2>5 DEF member_to_json, Result
    <3>3. \A k \in 1..Len(fields) : Mem(k) \in V
      OBVIOUS
    <3> HIDE DEF V, Mem
    <3>4. \A k \in 1..Len(fields) : results[k].value \in Seq(V)
      <4>1. <<>> \in Seq(V) /\ \A x \in V : <<x>> \in Seq(V)
        OBVIOUS
      <4> QED BY <3>2, <3>3, <4>1
    <3>5. Len(results) \in Nat /\ Len(results) = Len(fields)
      BY <2>1, <2>5
    <3>6. members \in Seq(V)
      BY <2>6, <3>4, <3>5, AllIs
    <3>7. \A h \in 1..Len(members) : members[h] \in V
      BY <3>6
    <3> QED BY <3>1, <3>6, <3>7, SequenceIs
  <2>9. IsGood(Object(members)) /\ Object(members).type = "object"
    BY <2>8, ObjectGood
  <2> QED BY <2>7, <2>9
<1>3. n \in T
  <2> HIDE DEF T
  <2>1. \A m \in 1..n : m - 1 \in T => m \in T
    BY <1>2
  <2>2. 0..n \subseteq T
    BY <1>0, <1>1, <2>1, CountUp
  <2> QED BY <1>0, <2>2
<1> QED BY <1>3
-----------------------------------------------------------------------------
(* Numbers and their bytes                                                 *)

\* Multiples that differ do so by one at least.
LEMMA Multiple ==
    ASSUME NEW c \in Nat \ {0}, NEW q \in Int, NEW d \in Int, q > d
    PROVE  q * c >= d * c + c
<1>1. PICK u \in Int : u = q - d - 1
  OBVIOUS
<1>2. u >= 0 /\ q = d + u + 1
  BY <1>1
<1>3. u * c >= 0
  BY <1>2
<1>4. (d + u + 1) * c = d * c + u * c + c
  BY <1>1
<1>5. d * c \in Int /\ u * c \in Int
  OBVIOUS
<1> QED BY <1>2, <1>3, <1>4, <1>5

\* Quotient and remainder.
LEMMA DivIs ==
    ASSUME NEW c \in Nat \ {0}, NEW r \in Nat, r < c, NEW q \in Int
    PROVE  (r + q * c) \div c = q /\ (r + q * c) % c = r
<1>1. PICK x \in Int : x = r + q * c
  OBVIOUS
<1>2. PICK d \in Int : d = x \div c
  OBVIOUS
<1>3. PICK m \in Int : m = x % c
  OBVIOUS
<1>4. m >= 0 /\ m < c /\ x = c * d + m
  BY <1>2, <1>3
<1>5. c * d = d * c /\ d * c \in Int /\ q * c \in Int
  OBVIOUS
<1>6. ~(q > d)
  <2> SUFFICES ASSUME q > d PROVE FALSE
    OBVIOUS
  <2>1. q * c >= d * c + c
    BY Multiple
  <2> QED BY <1>1, <1>4, <1>5, <2>1
<1>7. ~(d > q)
  <2> SUFFICES ASSUME d > q PROVE FALSE
    OBVIOUS
  <2>1. d * c >= q * c + c
    BY Multiple
  <2> QED BY <1>1, <1>4, <1>5, <2>1
<1>8. d = q
  BY <1>6, <1>7
<1>9. m = r
  BY <1>1, <1>4, <1>5, <1>8
<1> QED BY <1>1, <1>2, <1>3, <1>8, <1>9

\* A digit more: b of weight c, above a number less than c.
LEMMA DigitBelow ==
    ASSUME NEW v \in Nat \ {0}, NEW c \in Nat \ {0}, NEW low \in Nat, low < c,
           NEW b \in 0..(v - 1)
    PROVE  low + b * c \in Nat /\ low + b * c < v * c
<1>1. v * c >= b * c + c
  BY Multiple
<1>2. b * c \in Nat /\ v * c \in Nat
  OBVIOUS
<1> QED BY <1>1, <1>2

\* Arithmetic.
LEMMA Distribute ==
    ASSUME NEW a \in Int, NEW b \in Int, NEW c \in Int
    PROVE  a * c + b * c = (a + b) * c /\ (a * b) * c = a * (b * c)
OBVIOUS

\* Bytes come to a number from which they can be told, whatever multiple of
\* what is beyond them is added: BytesOf undoes load_unsigned and load_signed.
LEMMA BytesBack ==
    ASSUME NEW bytes \in Seq(Byte)
    PROVE  /\ load_unsigned(bytes) \in 0..(Combinations(Len(bytes)) - 1)
           /\ \A z \in Int :
                 BytesOf(load_unsigned(bytes) + z * Combinations(Len(bytes)), Len(bytes)) = bytes
<1>1. PICK N \in Nat : N = Len(bytes)
  OBVIOUS
<1>2. PICK f : /\ load_unsigned(bytes) = f[N]
               /\ \A n \in 0..N : f[n] = IF n = 0 THEN 0
                                          ELSE f[n - 1] + bytes[n] * Combinations(n - 1)
  BY <1>1, LowIs
<1>3. PICK v \in Nat \ {0} : v = ByteValues
  BY ValuesAssumption
<1>4. ASSUME NEW n \in 1..N
      PROVE  /\ bytes[n] \in 0..(v - 1) /\ bytes[n] \in Int
             /\ Combinations(n - 1) \in Nat \ {0} /\ Combinations(n) \in Nat \ {0}
             /\ Combinations(n) = v * Combinations(n - 1)
             /\ f[n] = f[n - 1] + bytes[n] * Combinations(n - 1)
  <2>1. bytes[n] \in Byte
    BY <1>1
  <2>2. n - 1 \in Nat /\ n \in Nat /\ (n - 1) + 1 = n
    BY <1>1
  <2>3. Combinations(n - 1) \in Nat \ {0} /\ Combinations(n) \in Nat \ {0}
        /\ Combinations(n) = v * Combinations(n - 1)
    <3>1. /\ Combinations(n - 1) \in Nat \ {0}
          /\ Combinations((n - 1) + 1) = ByteValues * Combinations(n - 1)
      BY <2>2, CombinationsAre
    <3>2. Combinations(n) \in Nat \ {0}
      BY <2>2, CombinationsAre
    <3> QED BY <1>3, <2>2, <3>1, <3>2
  <2>4. f[n] = f[n - 1] + bytes[n] * Combinations(n - 1)
    BY <1>2
  <2>5. bytes[n] \in 0..(v - 1) /\ bytes[n] \in Int
    BY <1>3, <2>1 DEF Byte
  <2> QED BY <2>3, <2>4, <2>5
\* The lower bytes come to less than there are combinations of them.
<1> DEFINE T == {n \in 0..N : f[n] \in Nat /\ f[n] < Combinations(n)}
<1>5. 0 \in T
  <2>1. 0 \in 0..N /\ 0 \in Nat
    OBVIOUS
  <2>2. f[0] = 0
    BY <1>2, <2>1
  <2>3. Combinations(0) = 1
    BY <2>1, CombinationsAre
  <2> QED BY <2>1, <2>2, <2>3
<1>6. ASSUME NEW n \in 1..N, n - 1 \in T PROVE n \in T
  <2>1. PICK c \in Nat \ {0} : c = Combinations(n - 1)
    BY <1>4
  <2>2. PICK b \in 0..(v - 1) : b = bytes[n]
    BY <1>4
  <2>3. PICK low \in Nat : low = f[n - 1] /\ low < c
    BY <1>6, <2>1
  <2>4. f[n] = low + b * c /\ Combinations(n) = v * c
    BY <1>4, <2>1, <2>2, <2>3
  <2>5. low + b * c \in Nat /\ low + b * c < v * c
    BY <2>3, DigitBelow
  <2>6. f[n] \in Nat /\ f[n] < Combinations(n)
    BY <2>4, <2>5
  <2> QED BY <2>6
<1> HIDE DEF T
<1>7. 0..N \subseteq T
  BY <1>5, <1>6, CountUp
<1>8. \A n \in 0..N : f[n] \in Nat /\ f[n] < Combinations(n)
  BY <1>7 DEF T
<1>9. load_unsigned(bytes) \in 0..(Combinations(Len(bytes)) - 1)
  <2>1. PICK c \in Nat : c = Combinations(N)
    BY CombinationsAre
  <2> QED BY <1>1, <1>2, <1>8, <2>1
\* The higher bytes come to a multiple of that.
<1>10. ASSUME NEW i \in 0..N
       PROVE  \E q, r \in Int : f[N] = f[i] + q * Combinations(i)
                                /\ Combinations(N) = r * Combinations(i)
  <2>1. PICK c \in Nat \ {0} : c = Combinations(i)
    BY CombinationsAre
  <2> DEFINE U == {n \in 0..(N - i) : \E q, r \in Int : f[i + n] = f[i] + q * c
                                         /\ Combinations(i + n) = r * c}
  <2>2. 0 \in U
    <3>1. f[i] \in Int /\ i + 0 = i
      BY <1>8
    <3>2. f[i + 0] = f[i] + 0 * c
      BY <3>1
    <3>3. Combinations(i + 0) = 1 * c
      BY <2>1, <3>1
    <3>4. \E q, r \in Int : f[i + 0] = f[i] + q * c /\ Combinations(i + 0) = r * c
      <4> WITNESS 0 \in Int
      <4> WITNESS 1 \in Int
      <4> QED BY <3>2, <3>3
    <3>5. 0 \in 0..(N - i)
      OBVIOUS
    <3> QED BY <3>4, <3>5
  <2>3. ASSUME NEW n \in 1..(N - i), n - 1 \in U PROVE n \in U
    <3>1. PICK q \in Int, r \in Int : f[i + (n - 1)] = f[i] + q * c
                                      /\ Combinations(i + (n - 1)) = r * c
      BY <2>3
    <3>2. i + n \in 1..N /\ i + (n - 1) = (i + n) - 1
      OBVIOUS
    <3>3. PICK b \in Int : b = bytes[i + n]
      BY <1>4, <3>2
    <3>4. f[i + n] = (f[i] + q * c) + b * (r * c) /\ Combinations(i + n) = v * (r * c)
      BY <1>4, <3>1, <3>2, <3>3
    <3>5. q * c + b * (r * c) = (q + b * r) * c /\ v * (r * c) = (v * r) * c
      <4>1. b * r \in Int /\ (b * r) * c = b * (r * c)
        BY Distribute
      <4>2. q * c + (b * r) * c = (q + b * r) * c
        BY <4>1, Distribute
      <4>3. (v * r) * c = v * (r * c)
        BY Distribute
      <4> QED BY <4>1, <4>2, <4>3
    <3>6. f[i] \in Int /\ q * c \in Int /\ b * (r * c) \in Int
      BY <1>8
    <3>7. f[i + n] = f[i] + (q + b * r) * c
      BY <3>4, <3>5, <3>6
    <3>8. q + b * r \in Int /\ v * r \in Int
      OBVIOUS
    <3>9. Combinations(i + n) = (v * r) * c
      BY <3>4, <3>5
    <3>10. \E x, y \in Int : f[i + n] = f[i] + x * c /\ Combinations(i + n) = y * c
      <4> WITNESS q + b * r \in Int
      <4> WITNESS v * r \in Int
      <4> QED BY <3>7, <3>9
    <3>11. n \in 0..(N - i)
      OBVIOUS
    <3> QED BY <3>10, <3>11
  <2> HIDE DEF U
  <2>4. N - i \in Nat
    OBVIOUS
  <2>5. 0..(N - i) \subseteq U
    BY <2>2, <2>3, <2>4, CountUp
  <2>6. N - i \in U /\ i + (N - i) = N
    BY <2>4, <2>5
  <2> QED BY <2>1, <2>6 DEF U
<1>11. ASSUME NEW z \in Int, NEW n \in 1..N
       PROVE  ((f[N] + z * Combinations(N)) \div Combinations(n - 1)) % v = bytes[n]
  <2>1. PICK q \in Int, r \in Int : f[N] = f[n] + q * Combinations(n)
                                    /\ Combinations(N) = r * Combinations(n)
    BY <1>10
  <2>2. PICK c \in Nat \ {0} : c = Combinations(n - 1)
    BY <1>4
  <2>3. PICK b \in 0..(v - 1) : b = bytes[n] /\ b \in Int
    BY <1>4
  <2>4. PICK low \in Nat : low = f[n - 1] /\ low < c
    BY <1>8, <2>2
  <2>5. f[n] = low + b * c /\ Combinations(n) = v * c
    BY <1>4, <2>2, <2>3, <2>4
  <2>6. PICK w \in Int : w = q + z * r
    OBVIOUS
  <2>7. f[N] + z * Combinations(N) = low + (b + w * v) * c
    <3>1. PICK d \in Int : d = v * c
      OBVIOUS
    <3>2. f[N] + z * Combinations(N) = (low + b * c + q * d) + z * (r * d)
      BY <2>1, <2>5, <3>1
    <3>3. z * r \in Int /\ (z * r) * d = z * (r * d) /\ q * d + (z * r) * d = (q + z * r) * d
      <4>1. z * r \in Int /\ (z * r) * d = z * (r * d)
        BY Distribute
      <4> QED BY <4>1, Distribute
    <3>4. w * d = (w * v) * c /\ w * v \in Int
      BY <3>1, Distribute
    <3>5. b * c + (w * v) * c = (b + w * v) * c
      BY <2>3, <3>4, Distribute
    <3>6. b * c \in Int /\ q * d \in Int /\ z * (r * d) \in Int /\ (w * v) * c \in Int
      BY <2>3, <3>4
    <3> QED BY <2>6, <3>2, <3>3, <3>4, <3>5, <3>6
  <2>8. b + w * v \in Int
    BY <2>3
  <2>9. (low + (b + w * v) * c) \div c = b + w * v
    BY <2>4, <2>8, DivIs
  <2>10. (b + w * v) % v = b
    <3>1. b \in Nat /\ b < v
      OBVIOUS
    <3> QED BY <3>1, DivIs
  <2> QED BY <2>2, <2>3, <2>7, <2>9, <2>10
<1>12. ASSUME NEW z \in Int
       PROVE  BytesOf(load_unsigned(bytes) + z * Combinations(Len(bytes)), Len(bytes)) = bytes
  <2>1. bytes = [n \in 1..N |-> bytes[n]]
    BY <1>1
  <2>2. BytesOf(f[N] + z * Combinations(N), N)
           = [n \in 1..N |-> ((f[N] + z * Combinations(N)) \div Combinations(n - 1)) % v]
    BY <1>3 DEF BytesOf
  <2>3. BytesOf(f[N] + z * Combinations(N), N) = [n \in 1..N |-> bytes[n]]
    BY <1>11, <2>2
  <2> QED BY <1>1, <1>2, <2>1, <2>3
<1> QED BY <1>9, <1>12

\* A number that was loaded can be stored, as the bytes it was loaded from.
LEMMA NumberBack ==
    ASSUME NEW bytes \in Seq(Byte), NEW size, size = Len(bytes), size # 0
    PROVE  /\ store_unsigned(size, load_unsigned(bytes))
           /\ BytesOf(load_unsigned(bytes), size) = bytes
           /\ store_signed(size, load_signed(bytes))
           /\ BytesOf(load_signed(bytes), size) = bytes
<1>1. size \in Nat \ {0}
  OBVIOUS
<1>2. PICK u \in Int : u = load_unsigned(bytes)
  BY NumberIs
<1>3. PICK c \in Nat \ {0} : c = Combinations(size)
  BY <1>1, CombinationsAre
<1>4. u \in 0..(c - 1) /\ \A z \in Int : BytesOf(u + z * c, size) = bytes
  BY <1>2, <1>3, BytesBack
<1>5. c % 2 = 0
  <2>1. PICK d \in Nat : d = Combinations(size - 1)
    BY <1>1, CombinationsAre
  <2>2. c = ByteValues * d
    <3>1. size - 1 \in Nat /\ (size - 1) + 1 = size
      BY <1>1
    <3>2. Combinations((size - 1) + 1) = ByteValues * Combinations(size - 1)
      BY <3>1, CombinationsAre
    <3> QED BY <1>3, <2>1, <3>1, <3>2
  <2>3. PICK h \in Int : ByteValues = 2 * h
    BY ValuesAssumption
  <2>4. c = (h * d) * 2 /\ h * d \in Int
    BY <2>2, <2>3
  <2>5. (0 + (h * d) * 2) % 2 = 0
    BY <2>4, DivIs
  <2> QED BY <2>4, <2>5
<1>6. PICK h \in Nat : c = h + h /\ h = c \div 2
  BY <1>5
<1>7. store_unsigned(size, u)
  BY <1>3, <1>4 DEF store_unsigned
<1>8. BytesOf(u, size) = bytes
  <2>1. PICK z \in Int : z = 0
    OBVIOUS
  <2>2. u + z * c = u
    BY <2>1
  <2>3. BytesOf(u + z * c, size) = bytes
    BY <1>4
  <2> QED BY <2>2, <2>3
<1>9. BytesOf(u - c, size) = bytes
  <2>1. u + (-1) * c = u - c
    OBVIOUS
  <2>2. -1 \in Int /\ BytesOf(u + (-1) * c, size) = bytes
    BY <1>4
  <2> QED BY <2>1, <2>2
<1>10. load_signed(bytes) = IF u < h THEN u ELSE u - c
  BY <1>2, <1>3, <1>6 DEF load_signed
<1>11. store_signed(size, load_signed(bytes))
  BY <1>3, <1>4, <1>6, <1>10 DEF store_signed
<1> QED BY <1>2, <1>7, <1>8, <1>9, <1>10, <1>11
-----------------------------------------------------------------------------
(* What is saved as JSON is loaded with the same result                    *)

\* The writes of a decoder have been made to an instance, or left it as it was.
Copied(memory, w) ==
    \A n \in 1..Len(w.bytes) : memory[w.address + n] = w.bytes[n]
AllCopied(memory, writes) == \A w \in Range(writes) : Copied(memory, w)
AnyWrite == [address : Nat, bytes : Seq(Byte)]

\* What was saved from an instance decodes, to bytes that are in the instance,
\* and other instances with those bytes are saved as the same.
Returns(decoded, memory, other, saved, again) ==
    /\ decoded.code = "OK" /\ decoded.value \in Seq(AnyWrite)
    /\ AllCopied(memory, decoded.value)
    /\ AllCopied(other, decoded.value) => again = saved

\* A place that has been copied reads the same.
LEMMA SliceSame ==
    ASSUME NEW memory, NEW address \in Nat, NEW size \in Nat, NEW other,
           Copied(other, Write(address, Slice(memory, address, size)))
    PROVE  Slice(other, address, size) = Slice(memory, address, size)
<1>1. \A m : Slice(m, address, size) = [n \in 1..size |-> m[address + n]]
  BY DEF Slice
<1>2. PICK bytes : bytes = [n \in 1..size |-> memory[address + n]]
  OBVIOUS
<1>3. Slice(memory, address, size) = bytes /\ Len(bytes) = size
  BY <1>1, <1>2
<1>4. \A n \in 1..size : other[address + n] = bytes[n]
  BY <1>3 DEF Copied, Write
<1>5. Slice(other, address, size) = bytes
  BY <1>1, <1>2, <1>4, SMTT(30)
<1> QED BY <1>3, <1>5

\* One write of bytes that are there.
LEMMA WrittenReturns ==
    ASSUME NEW memory, NEW other, NEW address \in Nat, NEW bytes \in Seq(Byte),
           Copied(memory, Write(address, bytes)), NEW saved, NEW again,
           Copied(other, Write(address, bytes)) => again = saved
    PROVE  Returns(Written(address, bytes), memory, other, saved, again)
<1>1. PICK w : w = Write(address, bytes)
  OBVIOUS
<1>2. w \in AnyWrite
  BY <1>1 DEF Write, AnyWrite
<1>3. Written(address, bytes).code = "OK" /\ Written(address, bytes).value = <<w>>
  BY <1>1 DEF Written, Result
<1>4. <<w>> \in Seq(AnyWrite) /\ Range(<<w>>) = {w}
  BY <1>2 DEF Range
<1> QED BY <1>1, <1>3, <1>4 DEF Returns, AllCopied

\* All bytes of a value.
LEMMA SliceReturns ==
    ASSUME NEW memory, NEW address \in Nat, NEW size \in Nat, NEW other,
           NEW bytes \in Seq(Byte), bytes = Slice(memory, address, size),
           NEW saved, NEW again,
           Slice(other, address, size) = bytes => again = saved
    PROVE  Returns(Written(address, bytes), memory, other, saved, again)
<1>1. bytes = [n \in 1..size |-> memory[address + n]] /\ Len(bytes) = size
  BY DEF Slice
<1>2. Copied(memory, Write(address, bytes))
  BY <1>1 DEF Copied, Write
<1>3. Copied(other, Write(address, bytes)) => again = saved
  BY SliceSame
<1> QED BY <1>2, <1>3, WrittenReturns

\* A text ends at its first NUL.
LEMMA TextEnds ==
    ASSUME NEW buffer, Len(buffer) \in Nat, NEW end \in 1..Len(buffer), buffer[end] = NUL,
           \A j \in 1..(end - 1) : buffer[j] # NUL
    PROVE  /\ HasNUL(buffer)
           /\ TextOf(buffer) = Text([n \in 1..(end - 1) |-> buffer[n]], NotHex)
<1> DEFINE EndsAt(i) == buffer[i] = NUL /\ \A j \in 1..(i - 1) : buffer[j] # NUL
           first == CHOOSE i \in 1..Len(buffer) : EndsAt(i)
<1>1. first \in 1..Len(buffer) /\ EndsAt(first)
  <2>1. EndsAt(end)
    OBVIOUS
  <2> HIDE DEF EndsAt
  <2> QED BY <2>1
<1>2. TextOf(buffer) = Text(SubSeq(buffer, 1, first - 1), NotHex)
  BY DEF TextOf
<1> HIDE DEF first
<1>3. first = end
  BY <1>1
<1>4. SubSeq(buffer, 1, end - 1) = [n \in 1..(end - 1) |-> buffer[n]]
  BY DEF SubSeq
<1>5. HasNUL(buffer)
  BY DEF HasNUL
<1> QED BY <1>2, <1>3, <1>4, <1>5

\* The characters of a text and its end.
LEMMA TextReturns ==
    ASSUME NEW f, f.kind = "CHAR_ARRAY", f.char_buffer_size \in Nat,
           NEW memory, NEW address \in Nat, NEW other, NEW buffer \in Seq(Byte),
           buffer = Slice(memory, address, f.char_buffer_size), HasNUL(buffer)
    PROVE  Returns(scalar_from_json(f, String(TextOf(buffer)), address), memory, other,
                   scalar_to_json(f, memory, address), scalar_to_json(f, other, address))
<1>1. PICK size \in Nat : size = f.char_buffer_size
  OBVIOUS
<1>2. \A m : Slice(m, address, size) = [n \in 1..size |-> m[address + n]]
             /\ Len(Slice(m, address, size)) = size
  BY SMTT(30) DEF Slice
<1>3. Len(buffer) = size /\ \A n \in 1..size : buffer[n] = memory[address + n]
  BY <1>1, <1>2, ZenonT(60)
<1>a. Len(buffer) = size
  BY <1>3
<1>b. \A n \in 1..size : buffer[n] \in Byte
  BY <1>a
<1>4. PICK end \in 1..size : buffer[end] = NUL /\ \A j \in 1..(end - 1) : buffer[j] # NUL
  <2> DEFINE ends == {i \in 1..size : buffer[i] = NUL}
  <2>1. ends # {} /\ ends \in SUBSET Nat
    BY <1>a DEF HasNUL
  <2>2. PICK l \in ends : \A m \in ends : l <= m
    <3> HIDE DEF ends
    <3> QED BY <2>1, LeastNumber
  <2>3. \A j \in 1..(l - 1) : j \in 1..size /\ ~(l <= j)
    OBVIOUS
  <2>4. l \in 1..size /\ buffer[l] = NUL
    OBVIOUS
  <2>5. \A j \in 1..(l - 1) : buffer[j] # NUL
    BY <2>2, <2>3
  <2> QED BY <2>4, <2>5
<1>5. PICK characters : characters = [n \in 1..(end - 1) |-> buffer[n]]
  OBVIOUS
<1>6. characters \in Seq(Byte) /\ Len(characters) = end - 1
  <2>1. end - 1 \in Nat /\ \A n \in 1..(end - 1) : buffer[n] \in Byte
    BY <1>b
  <2> QED BY <1>5, <2>1
<1>7. PICK text : text = Text(characters, NotHex)
  OBVIOUS
<1>8. TextOf(buffer) = text
  <2>1. Len(buffer) \in Nat /\ end \in 1..Len(buffer)
    BY <1>a
  <2> QED BY <1>4, <1>5, <1>7, <2>1, TextEnds
<1>9. PICK bytes : bytes = Append(characters, NUL)
  OBVIOUS
<1>10. bytes \in Seq(Byte) /\ Len(bytes) = end
       /\ \A n \in 1..end : bytes[n] = buffer[n]
  <2>1. bytes \in Seq(Byte)
    BY <1>6, <1>9, TextIs
  <2>2. Len(bytes) = end
    BY <1>6, <1>9
  <2>3. \A n \in 1..(end - 1) : bytes[n] = characters[n]
    BY <1>6, <1>9
  <2>4. bytes[end] = NUL
    BY <1>6, <1>9
  <2> QED BY <1>4, <1>5, <2>1, <2>2, <2>3, <2>4
<1>11. scalar_from_json(f, String(TextOf(buffer)), address) = Written(address, bytes)
  <2>1. PICK item : item = String(text)
    OBVIOUS
  <2>2. item.type = "string" /\ item.string = text /\ text.characters = characters
    BY <1>7, <2>1 DEF String, Text
  <2>3. text_fits(f, item.string)
    BY <1>1, <1>6, <2>2 DEF text_fits
  <2>4. f.kind \notin Integral /\ f.kind \notin {"FLOAT", "DOUBLE"}
    BY DEF Integral
  <2>5. scalar_from_json(f, item, address)
           = Written(address, Append(item.string.characters, NUL))
    BY <2>2, <2>3, <2>4 DEF scalar_from_json
  <2> QED BY <1>8, <1>9, <2>1, <2>2, <2>5
<1>12. \A m : HasNUL(Slice(m, address, size)) =>
         scalar_to_json(f, m, address) = Result("OK", String(TextOf(Slice(m, address, size))))
  BY <1>1 DEF scalar_to_json
<1>13. scalar_to_json(f, memory, address) = Result("OK", String(text))
  BY <1>1, <1>8, <1>12
<1>14. Copied(memory, Write(address, bytes))
  <2>1. \A n \in 1..Len(bytes) : memory[address + n] = bytes[n]
    BY <1>3, <1>10
  <2> QED BY <2>1 DEF Copied, Write
<1>15. ASSUME Copied(other, Write(address, bytes))
       PROVE  scalar_to_json(f, other, address) = scalar_to_json(f, memory, address)
  <2>1. PICK copy : copy = Slice(other, address, size)
    OBVIOUS
  <2>2. Len(copy) = size /\ \A n \in 1..size : copy[n] = other[address + n]
    BY <1>2, <2>1
  <2>a. Len(copy) \in Nat /\ end \in 1..Len(copy)
    BY <2>2
  <2>3. \A n \in 1..end : other[address + n] = bytes[n]
    BY <1>10, <1>15 DEF Copied, Write
  <2>4. \A n \in 1..end : copy[n] = buffer[n]
    <3> TAKE n \in 1..end
    <3>1. n \in 1..size
      OBVIOUS
    <3>2. copy[n] = other[address + n]
      BY <2>2, <3>1
    <3>3. other[address + n] = buffer[n]
      BY <1>10, <2>3
    <3> QED BY <3>2, <3>3
  <2>5. copy[end] = NUL /\ \A j \in 1..(end - 1) : copy[j] # NUL
    BY <1>4, <2>4
  <2>6. HasNUL(copy) /\ TextOf(copy) = Text([n \in 1..(end - 1) |-> copy[n]], NotHex)
    BY <2>5, <2>a, TextEnds
  <2>7. [n \in 1..(end - 1) |-> copy[n]] = characters
    BY <1>5, <2>4
  <2>8. TextOf(copy) = text
    BY <1>7, <2>6, <2>7
  <2> QED BY <1>12, <1>13, <2>1, <2>6, <2>8
<1> QED BY <1>10, <1>11, <1>14, <1>15, WrittenReturns

\* A value.
LEMMA ScalarReturns ==
    ASSUME NEW table, IsTable(table), NEW f, IsField(table, f), f.kind # "STRUCT",
           NEW a \in Nat, NEW memory, Len(memory) \in Nat,
           \A b \in ElementBytes(f, a) : memory[b + 1] \in Byte, NEW other,
           NEW saved, saved = scalar_to_json(f, memory, a),
           saved.code = "OK", saved.value.type # "null"
    PROVE  Returns(scalar_from_json(f, saved.value, a), memory, other,
                   saved, scalar_to_json(f, other, a))
<1>1. Natural(f) /\ f.kind \in Kinds /\ f.element_size # 0
  BY FieldIs
<1>2. PICK size \in Nat \ {0} : size = f.element_size
  BY <1>1 DEF Natural
<1>3. PICK bytes : bytes = Slice(memory, a, size)
  OBVIOUS
<1>4. ASSUME f.kind # "CHAR_ARRAY"
      PROVE  bytes \in Seq(Byte) /\ Len(bytes) = size
  <2>1. ElementBytes(f, a) = Bytes(a, size)
    BY <1>2, <1>4 DEF ElementBytes, ElementSize
  <2> QED BY <1>3, <2>1, SliceTyped
<1>5. ASSUME f.kind # "CHAR_ARRAY"
      PROVE  /\ store_unsigned(size, load_unsigned(bytes))
             /\ BytesOf(load_unsigned(bytes), size) = bytes
             /\ store_signed(size, load_signed(bytes))
             /\ BytesOf(load_signed(bytes), size) = bytes
  BY <1>4, <1>5, NumberBack
<1>6. ASSUME f.kind # "CHAR_ARRAY",
             Slice(other, a, size) = bytes => scalar_to_json(f, other, a) = saved
      PROVE  Returns(Written(a, bytes), memory, other, saved, scalar_to_json(f, other, a))
  BY <1>3, <1>4, <1>6, SliceReturns
<1>7. \A v : Number(v).type = "number" /\ Number(v).number = v
  BY DEF Number
<1>8. CASE f.kind = "SIGNED_INTEGER"
  <2>1. \A m : scalar_to_json(f, m, a) = Result("OK", Number(load_signed(Slice(m, a, size))))
    BY <1>2, <1>8 DEF scalar_to_json
  <2>2. PICK item : item = Number(load_signed(bytes))
    OBVIOUS
  <2>3. saved.value = item
    BY <1>3, <2>1, <2>2 DEF Result
  <2>4. item.type = "number" /\ item.number = load_signed(bytes)
    BY <1>7, <2>2
  <2>5. f.kind # "CHAR_ARRAY" /\ f.kind \in Integral
    BY <1>8 DEF Integral
  <2>6. store_signed(size, item.number) /\ BytesOf(item.number, size) = bytes
    BY <1>5, <2>4, <2>5
  <2>7. scalar_from_json(f, item, a) = Written(a, BytesOf(item.number, size))
    BY <1>2, <1>8, <2>4, <2>5, <2>6 DEF scalar_from_json
  <2>8. Slice(other, a, size) = bytes => scalar_to_json(f, other, a) = saved
    BY <1>3, <2>1
  <2> QED BY <1>6, <2>3, <2>5, <2>6, <2>7, <2>8
<1>9. CASE f.kind = "UNSIGNED_INTEGER"
  <2>1. \A m : scalar_to_json(f, m, a) = Result("OK", Number(load_unsigned(Slice(m, a, size))))
    BY <1>2, <1>9 DEF scalar_to_json
  <2>2. PICK item : item = Number(load_unsigned(bytes))
    OBVIOUS
  <2>3. saved.value = item
    BY <1>3, <2>1, <2>2 DEF Result
  <2>4. item.type = "number" /\ item.number = load_unsigned(bytes)
    BY <1>7, <2>2
  <2>5. f.kind # "CHAR_ARRAY" /\ f.kind \in Integral /\ f.kind # "SIGNED_INTEGER"
    BY <1>9 DEF Integral
  <2>6. store_unsigned(size, item.number) /\ BytesOf(item.number, size) = bytes
    BY <1>5, <2>4, <2>5
  <2>7. scalar_from_json(f, item, a) = Written(a, BytesOf(item.number, size))
    BY <1>2, <1>9, <2>4, <2>5, <2>6 DEF scalar_from_json
  <2>8. Slice(other, a, size) = bytes => scalar_to_json(f, other, a) = saved
    BY <1>3, <2>1
  <2> QED BY <1>6, <2>3, <2>5, <2>6, <2>7, <2>8
<1>10. CASE f.kind \in {"FLOAT", "DOUBLE"}
  <2>0. PICK own : own = IF f.kind = "FLOAT" THEN FloatSize ELSE DoubleSize
    OBVIOUS
  <2>a. f.element_size = own
    BY <1>10, <2>0, FieldIs
  <2>1. \A m : scalar_to_json(f, m, a) = Result("OK", Real(size, load_signed(Slice(m, a, size))))
    BY <1>2, <1>10, <2>0, <2>a DEF scalar_to_json
  <2>2. PICK v : v = load_signed(bytes)
    OBVIOUS
  <2>3. saved.value = Real(size, v)
    BY <1>3, <2>1, <2>2 DEF Result
  <2>4. saved.value = Number(v)
    <3>1. v = Infinity(size) => saved.value.type = "null"
      BY <2>3 DEF Real
    <3> QED BY <2>3, <3>1 DEF Real
  <2>5. PICK item : item = saved.value
    OBVIOUS
  <2>6. item.type = "number" /\ item.number = v
    BY <1>7, <2>4, <2>5
  <2>7. f.kind # "CHAR_ARRAY" /\ f.kind \notin Integral
    BY <1>10 DEF Integral
  <2>8. BytesOf(Rounded(size, item.number), size) = bytes
    BY <1>5, <2>2, <2>6, <2>7 DEF Rounded
  <2>9. scalar_from_json(f, item, a) = Written(a, BytesOf(Rounded(size, item.number), size))
    BY <1>2, <1>10, <2>0, <2>a, <2>6, <2>7 DEF scalar_from_json
  <2>10. Slice(other, a, size) = bytes => scalar_to_json(f, other, a) = saved
    BY <1>3, <2>1
  <2> QED BY <1>6, <2>5, <2>7, <2>8, <2>9, <2>10
<1>11. CASE f.kind = "CHAR_ARRAY"
  <2>1. f.char_buffer_size \in Nat /\ ElementBytes(f, a) = Bytes(a, f.char_buffer_size)
    BY <1>1, <1>11 DEF ElementBytes, ElementSize, Natural
  <2>2. PICK buffer : buffer = Slice(memory, a, f.char_buffer_size)
    OBVIOUS
  <2>3. buffer \in Seq(Byte)
    BY <2>1, <2>2, SliceTyped
  <2>4. saved = IF HasNUL(buffer) THEN Result("OK", String(TextOf(buffer)))
                ELSE Result("INVALID_ENCODING", Number(0))
    BY <1>11, <2>2 DEF scalar_to_json
  <2>5. HasNUL(buffer) /\ saved.value = String(TextOf(buffer))
    BY <2>4 DEF Result
  <2> QED BY <1>11, <2>1, <2>2, <2>3, <2>5, TextReturns
<1> QED BY <1>1, <1>8, <1>9, <1>10, <1>11 DEF Kinds, Integral

\* Several decoders, one after the other.
LEMMA AllReturns ==
    ASSUME NEW results, Len(results) \in Nat, NEW memory, NEW other, NEW saved, NEW again,
           saved = [n \in 1..Len(results) |-> saved[n]],
           again = [n \in 1..Len(results) |-> again[n]],
           \A n \in 1..Len(results) : Returns(results[n], memory, other, saved[n], again[n])
    PROVE  Returns(All(results), memory, other, saved, again)
<1>1. \A n \in 1..Len(results) : /\ results[n].code = "OK"
                                 /\ results[n].value \in Seq(AnyWrite)
                                 /\ AllCopied(memory, results[n].value)
  BY DEF Returns
<1>2. PICK all : all = All(results)
  OBVIOUS
<1>3. /\ all.code = "OK" <=> \A n \in 1..Len(results) : results[n].code = "OK"
      /\ all.value \in Seq(AnyWrite)
      /\ \A x \in Range(all.value) : \E n \in 1..Len(results) : x \in Range(results[n].value)
      /\ all.code = "OK" =>
           \A n \in 1..Len(results) : \A x \in Range(results[n].value) : x \in Range(all.value)
  BY <1>1, <1>2, AllIs
<1>4. AllCopied(memory, all.value)
  BY <1>1, <1>3 DEF AllCopied
<1>5. ASSUME AllCopied(other, all.value), NEW n \in 1..Len(results)
      PROVE  again[n] = saved[n]
  <2>1. AllCopied(other, results[n].value)
    BY <1>1, <1>3, <1>5 DEF AllCopied
  <2> QED BY <2>1 DEF Returns
<1>6. AllCopied(other, all.value) => again = saved
  <2> SUFFICES ASSUME AllCopied(other, all.value) PROVE again = saved
    OBVIOUS
  <2>1. \A n \in 1..Len(results) : again[n] = saved[n]
    BY <1>5
  <2> QED BY <2>1, Zenon
<1> QED BY <1>1, <1>2, <1>3, <1>4, <1>6 DEF Returns

\* What is composed of what is saved.
LEMMA ReturnsAlso ==
    ASSUME NEW decoded, NEW memory, NEW other, NEW saved, NEW again, NEW whole, NEW copy,
           Returns(decoded, memory, other, saved, again), again = saved => copy = whole
    PROVE  Returns(decoded, memory, other, whole, copy)
BY DEF Returns

\* No write at all.
LEMMA NothingReturns ==
    ASSUME NEW memory, NEW other, NEW saved
    PROVE  Returns(Result("OK", <<>>), memory, other, saved, saved)
<1>1. <<>> \in Seq(AnyWrite) /\ Range(<<>>) = {}
  BY DEF Range
<1>2. Result("OK", <<>>).code = "OK" /\ Result("OK", <<>>).value = <<>>
  BY DEF Result
<1> QED BY <1>1, <1>2 DEF Returns, AllCopied

\* What a structure at some depth is saved as comes back.
Back(table, json, memory, other, m) ==
    \A i, base : LET saved == struct_to_json(table, memory)[m][i][base] IN
        /\ Ranked(table, i, m) /\ base \in Nat /\ HasBytes(memory, base, table[i].size)
        /\ saved.code = "OK" /\ saved.value \in ItemsWithin(table, json)[Len(table) - m]
        => Returns(struct_from_json(table, json)[m][i][saved.value][base], memory, other,
                   saved, struct_to_json(table, other)[m][i][base])

\* An element comes back.
LEMMA ElementBack ==
    ASSUME NEW table, IsTable(table), NEW json, NEW memory, NEW other, NEW m,
           Back(table, json, memory, other, m),
           NEW f, IsField(table, f),
           f.kind = "STRUCT" => /\ Ranked(table, f.nested, m)
                                /\ ElementSize(f) = table[f.nested].size,
           NEW a \in Nat, HasBytes(memory, a, ElementSize(f)),
           NEW saved, saved = element_to_json(struct_to_json(table, memory)[m], f, memory, a),
           saved.code = "OK", saved.value.type # "null",
           saved.value \in ItemsWithin(table, json)[Len(table) - m]
    PROVE  Returns(element_from_json(struct_from_json(table, json)[m], f, saved.value, a),
                   memory, other, saved,
                   element_to_json(struct_to_json(table, other)[m], f, other, a))
<1>1. CASE f.kind = "STRUCT"
  <2>1. saved = struct_to_json(table, memory)[m][f.nested][a]
    BY <1>1 DEF element_to_json
  <2>2. HasBytes(memory, a, table[f.nested].size)
    BY <1>1
  <2>3. Returns(struct_from_json(table, json)[m][f.nested][saved.value][a], memory, other,
                saved, struct_to_json(table, other)[m][f.nested][a])
    BY <1>1, <2>1, <2>2 DEF Back
  <2>4. element_from_json(struct_from_json(table, json)[m], f, saved.value, a)
           = struct_from_json(table, json)[m][f.nested][saved.value][a]
    BY <1>1 DEF element_from_json
  <2>5. element_to_json(struct_to_json(table, other)[m], f, other, a)
           = struct_to_json(table, other)[m][f.nested][a]
    BY <1>1 DEF element_to_json
  <2> QED BY <2>3, <2>4, <2>5
<1>2. CASE f.kind # "STRUCT"
  <2>1. saved = scalar_to_json(f, memory, a)
    BY <1>2 DEF element_to_json
  <2>2. Len(memory) \in Nat /\ \A b \in ElementBytes(f, a) : memory[b + 1] \in Byte
    BY DEF HasBytes, ElementBytes
  <2>3. Returns(scalar_from_json(f, saved.value, a), memory, other,
                saved, scalar_to_json(f, other, a))
    BY <1>2, <2>1, <2>2, ScalarReturns
  <2>4. element_from_json(struct_from_json(table, json)[m], f, saved.value, a)
           = scalar_from_json(f, saved.value, a)
    BY <1>2 DEF element_from_json
  <2>5. element_to_json(struct_to_json(table, other)[m], f, other, a)
           = scalar_to_json(f, other, a)
    BY <1>2 DEF element_to_json
  <2> QED BY <2>3, <2>4, <2>5
<1> QED BY <1>1, <1>2

\* The bytes of an array that is shown in hexadecimal.
LEMMA HexBytes ==
    ASSUME NEW table, IsTable(table), NEW f, IsField(table, f), is_hex(f), NEW base \in Nat,
           NEW memory, Len(memory) \in Nat,
           \A b \in FieldBytes(f, base) : memory[b + 1] \in Byte
    PROVE  LET first == element_address(f, base, 0)
               bytes == Slice(memory, first, f.element_count)
           IN
           /\ first \in Nat /\ f.element_count \in Nat /\ f.element_count > 1
           /\ bytes \in Seq(Byte) /\ Len(bytes) = f.element_count
<1>1. /\ Natural(f)
      /\ f.kind \in Integral /\ f.element_size = 1 /\ f.element_count > 1
  BY FieldIs
<1>2. PICK first : first = element_address(f, base, 0)
  OBVIOUS
<1>3. first = base + f.offset /\ first \in Nat /\ f.element_count \in Nat
  BY <1>1, <1>2 DEF element_address, Natural
<1>4. FieldSize(f) = f.element_count
  <2>1. f.kind # "CHAR_ARRAY"
    BY <1>1 DEF Integral
  <2> QED BY <1>1, <2>1 DEF FieldSize, Natural
<1>5. FieldBytes(f, base) = Bytes(first, f.element_count)
  BY <1>3, <1>4 DEF FieldBytes
<1> QED BY <1>1, <1>2, <1>3, <1>5, SliceTyped

\* A field comes back from an object that has it as a member.
LEMMA FieldBack ==
    ASSUME NEW table, IsTable(table), NEW json, NEW memory, NEW other, NEW m,
           Back(table, json, memory, other, m),
           NEW deeper, deeper = ItemsWithin(table, json)[Len(table) - m],
           \A x \in deeper : x.type # "null",
           NEW f, IsField(table, f),
           f.kind = "STRUCT" => /\ Ranked(table, f.nested, m)
                                /\ ElementSize(f) = table[f.nested].size,
           NEW base \in Nat, Len(memory) \in Nat,
           \A b \in FieldBytes(f, base) : memory[b + 1] \in Byte,
           NEW saved,
           saved = field_to_json(struct_to_json(table, memory)[m], f, memory, base),
           saved.code = "OK", saved.value \in deeper,
           saved.value.type = "array" =>
              \A h \in 1..Len(saved.value.array) : saved.value.array[h] \in deeper,
           NEW object, ~Ignored(f), HasMember(object, json_key(f)),
           MemberOf(object, json_key(f)) = saved.value
    PROVE  Returns(field_from_json(struct_from_json(table, json)[m], f, object, base),
                   memory, other, saved,
                   field_to_json(struct_to_json(table, other)[m], f, other, base))
<1>1. PICK nested : nested = struct_to_json(table, memory)[m]
  OBVIOUS
<1>2. PICK others : others = struct_to_json(table, other)[m]
  OBVIOUS
<1>3. PICK writes : writes = struct_from_json(table, json)[m]
  OBVIOUS
<1>4. PICK item : item = saved.value
  OBVIOUS
<1>5. Natural(f) /\ f.element_count # 0
  BY FieldIs
<1>6. f.element_count \in Nat /\ 1 \in 1..f.element_count
  BY <1>5 DEF Natural
<1>7. PICK first : first = element_address(f, base, 0)
  OBVIOUS
<1>8. ASSUME NEW h \in 1..f.element_count
      PROVE  /\ element_address(f, base, h - 1) \in Nat
             /\ HasBytes(memory, element_address(f, base, h - 1), ElementSize(f))
  <2>1. PICK a : a = element_address(f, base, h - 1)
    OBVIOUS
  <2>2. a \in Nat /\ ElementBytes(f, a) \subseteq FieldBytes(f, base)
    BY <2>1, ElementIs
  <2>3. HasBytes(memory, a, ElementSize(f))
    BY <2>2 DEF HasBytes, ElementBytes
  <2> QED BY <2>1, <2>2, <2>3
<1>9. CASE is_hex(f)
  <2>1. PICK bytes : bytes = Slice(memory, first, f.element_count)
    OBVIOUS
  <2>2. first \in Nat /\ bytes \in Seq(Byte) /\ Len(bytes) = f.element_count
    BY <1>7, <1>9, <2>1, HexBytes
  <2>3. \A n, x : field_to_json(n, f, x, base)
                    = Result("OK", String(bytes_to_hex(Slice(x, first, f.element_count))))
    BY <1>7, <1>9 DEF field_to_json
  <2>4. item = String(bytes_to_hex(bytes))
    BY <1>4, <2>1, <2>3 DEF Result
  <2>5. item.type = "string" /\ item.string = bytes_to_hex(bytes)
    BY <2>4 DEF String
  <2>6. item.string.hex = bytes
    BY <2>5 DEF bytes_to_hex, Text
  <2>7. field_from_json(writes, f, object, base) = Written(first, bytes)
    BY <1>4, <1>7, <1>9, <2>2, <2>5, <2>6 DEF field_from_json, bytes_from_hex
  <2>8. Slice(other, first, f.element_count) = bytes =>
           field_to_json(others, f, other, base) = saved
    BY <2>1, <2>3
  <2>9. Returns(Written(first, bytes), memory, other, saved,
                field_to_json(others, f, other, base))
    BY <1>6, <2>1, <2>2, <2>8, SliceReturns
  <2> QED BY <1>2, <1>3, <2>7, <2>9
<1>10. CASE ~is_hex(f) /\ ~is_array(f)
  <2>1. \A n, x : field_to_json(n, f, x, base) = element_to_json(n, f, x, first)
    BY <1>7, <1>10 DEF field_to_json
  <2>2. field_from_json(writes, f, object, base) = element_from_json(writes, f, item, first)
    BY <1>4, <1>7, <1>10 DEF field_from_json
  <2>3. first \in Nat /\ HasBytes(memory, first, ElementSize(f))
    <3>1. element_address(f, base, 1 - 1) = first
      BY <1>7
    <3> QED BY <1>6, <1>8, <3>1
  <2>4. saved = element_to_json(nested, f, memory, first)
    BY <1>1, <2>1
  <2>5. saved.value.type # "null" /\ saved.value \in ItemsWithin(table, json)[Len(table) - m]
    OBVIOUS
  <2>6. Returns(element_from_json(writes, f, saved.value, first), memory, other, saved,
                element_to_json(others, f, other, first))
    BY <1>1, <1>2, <1>3, <2>3, <2>4, <2>5, ElementBack
  <2> QED BY <1>2, <1>3, <1>4, <2>1, <2>2, <2>6
<1>11. CASE ~is_hex(f) /\ is_array(f)
  <2>1. PICK elements : elements = [h \in 1..f.element_count |->
           element_to_json(nested, f, memory, element_address(f, base, h - 1))]
    OBVIOUS
  <2>2. PICK copies : copies = [h \in 1..f.element_count |->
           element_to_json(others, f, other, element_address(f, base, h - 1))]
    OBVIOUS
  <2>3. PICK decoded : decoded = [h \in 1..f.element_count |->
           element_from_json(writes, f, item.array[h], element_address(f, base, h - 1))]
    OBVIOUS
  <2>4. /\ field_to_json(nested, f, memory, base)
             = Result(Sequentially(elements).code, Array(Sequentially(elements).value))
        /\ field_to_json(others, f, other, base)
             = Result(Sequentially(copies).code, Array(Sequentially(copies).value))
    BY <1>11, <2>1, <2>2 DEF field_to_json
  <2>5. Len(elements) = f.element_count /\ Len(decoded) = f.element_count
    BY <1>6, <2>1, <2>3
  <2>6. Sequentially(elements).code = "OK" /\ item = Array(Sequentially(elements).value)
    BY <1>1, <1>4, <2>4 DEF Result
  <2>7. /\ \A h \in 1..f.element_count : elements[h].code = "OK"
        /\ Sequentially(elements).value = [h \in 1..f.element_count |-> elements[h].value]
    <3>1. PICK all : all = Sequentially(elements)
      OBVIOUS
    <3>2. Len(elements) \in Nat
      BY <1>6, <2>5
    <3>3. /\ all.code = "OK" <=> \A h \in 1..Len(elements) : elements[h].code = "OK"
          /\ all.code = "OK" => all.value = [h \in 1..Len(elements) |-> elements[h].value]
      <4>1. LET sequence == Sequentially(elements) IN
            /\ sequence.code = "OK" <=> \A h \in 1..Len(elements) : elements[h].code = "OK"
            /\ sequence.code = "OK" =>
                 sequence.value = [h \in 1..Len(elements) |-> elements[h].value]
            /\ \E n \in 0..Len(elements) :
                 sequence.value = [h \in 1..n |-> elements[h].value]
        BY <3>2, SequentiallyIs
      <4> QED BY <3>1, <4>1
    <3> QED BY <2>5, <2>6, <3>1, <3>3
  <2>8. item.type = "array" /\ item.array = [h \in 1..f.element_count |-> elements[h].value]
    BY <2>6, <2>7 DEF Array
  <2>9. Len(item.array) = f.element_count
        /\ \A h \in 1..f.element_count : item.array[h] = elements[h].value
    BY <1>6, <2>8
  <2>10. field_from_json(writes, f, object, base) = All(decoded)
    BY <1>4, <1>11, <2>3, <2>8, <2>9 DEF field_from_json
  <2>11. ASSUME NEW h \in 1..f.element_count
         PROVE  Returns(decoded[h], memory, other, elements[h], copies[h])
    <3>1. PICK a : a = element_address(f, base, h - 1)
      OBVIOUS
    <3>2. a \in Nat /\ HasBytes(memory, a, ElementSize(f))
      BY <1>8, <3>1
    <3>3. PICK element : element = elements[h]
      OBVIOUS
    <3>4. element = element_to_json(nested, f, memory, a) /\ element.code = "OK"
      BY <2>1, <2>7, <3>1, <3>3
    <3>5. element.value \in ItemsWithin(table, json)[Len(table) - m]
          /\ element.value.type # "null"
      <4>1. element.value = saved.value.array[h] /\ h \in 1..Len(saved.value.array)
        BY <1>4, <2>9, <3>3
      <4> QED BY <1>4, <2>8, <4>1
    <3>6. Returns(element_from_json(writes, f, element.value, a), memory, other, element,
                  element_to_json(others, f, other, a))
      BY <1>1, <1>2, <1>3, <3>2, <3>4, <3>5, ElementBack
    <3>7. decoded[h] = element_from_json(writes, f, element.value, a)
          /\ copies[h] = element_to_json(others, f, other, a)
      BY <2>2, <2>3, <2>9, <3>1, <3>3
    <3> QED BY <3>3, <3>6, <3>7
  <2>12. Returns(All(decoded), memory, other, elements, copies)
    <3>1. Len(decoded) \in Nat
      BY <1>6, <2>5
    <3>2. \A h \in 1..Len(decoded) : Returns(decoded[h], memory, other, elements[h], copies[h])
      BY <2>5, <2>11
    <3>3. elements = [h \in 1..Len(decoded) |-> elements[h]]
          /\ copies = [h \in 1..Len(decoded) |-> copies[h]]
      BY <2>1, <2>2, <2>5
    <3> QED BY <3>1, <3>2, <3>3, AllReturns
  <2>13. copies = elements => field_to_json(others, f, other, base) = saved
    BY <1>1, <2>4
  <2>14. Returns(All(decoded), memory, other, saved, field_to_json(others, f, other, base))
    BY <2>12, <2>13, ReturnsAlso
  <2> QED BY <1>2, <1>3, <2>10, <2>14
<1> QED BY <1>9, <1>10, <1>11

\* The member of a key, if no other has that key.
LEMMA MemberOnly ==
    ASSUME NEW object, Len(object.object) \in Nat, NEW n \in 1..Len(object.object),
           \A l \in 1..Len(object.object) :
              object.object[l].key = object.object[n].key => l = n
    PROVE  /\ HasMember(object, object.object[n].key)
           /\ MemberOf(object, object.object[n].key) = object.object[n].item
<1> DEFINE First(l) == /\ object.object[l].key = object.object[n].key
                       /\ \A h \in 1..(l - 1) : object.object[h].key # object.object[n].key
           first == CHOOSE l \in 1..Len(object.object) : First(l)
<1>1. First(n)
  BY SMT
<1>2. \A l \in 1..Len(object.object) : First(l) => l = n
  OBVIOUS
<1>3. MemberOf(object, object.object[n].key) = object.object[first].item
  BY DEF MemberOf
<1> HIDE DEF First
<1>4. first = n
  BY <1>1, <1>2
<1>5. HasMember(object, object.object[n].key)
  BY DEF HasMember
<1> HIDE DEF first
<1> QED BY <1>3, <1>4, <1>5

\* A structure comes back.
LEMMA StructBack ==
    ASSUME NEW table, IsTable(table), NEW json, IsGood(json), Faithful(table, json),
           NEW memory, NEW other, NEW m \in 1..Len(table),
           Back(table, json, memory, other, m - 1),
           NEW i, Ranked(table, i, m), NEW base \in Nat,
           HasBytes(memory, base, table[i].size),
           NEW saved, saved = struct_to_json(table, memory)[m][i][base],
           saved.code = "OK", saved.value \in ItemsWithin(table, json)[Len(table) - m]
    PROVE  Returns(struct_from_json(table, json)[m][i][saved.value][base], memory, other,
                   saved, struct_to_json(table, other)[m][i][base])
<1> DEFINE fields == table[i].fields
           deeper == ItemsWithin(table, json)[Len(table) - (m - 1)]
<1>0. /\ Len(table) \in Nat /\ m \in 0..Len(table) /\ m # 0 /\ i \in 1..Len(table)
      /\ Len(fields) \in Nat
  BY TableIs DEF Ranked
<1>1. PICK nested : nested = struct_to_json(table, memory)[m - 1]
  OBVIOUS
<1>2. PICK others : others = struct_to_json(table, other)[m - 1]
  OBVIOUS
<1>3. PICK writes : writes = struct_from_json(table, json)[m - 1]
  OBVIOUS
<1>4. PICK object : object = saved.value
  OBVIOUS
<1>5. PICK members : members = [k \in 1..Len(fields) |->
         member_to_json(nested, fields[k], memory, base)]
  OBVIOUS
<1>6. PICK copies : copies = [k \in 1..Len(fields) |->
         member_to_json(others, fields[k], other, base)]
  OBVIOUS
<1>7. PICK decoded : decoded = [k \in 1..Len(fields) |->
         field_from_json(writes, fields[k], object, base)]
  OBVIOUS
<1>8. saved = Result(All(members).code, Object(All(members).value))
  <2>1. saved = fields_to_json(nested, fields, memory, base)
    BY <1>0, <1>1, JsonIs
  <2> QED BY <1>5, <2>1 DEF fields_to_json
<1>9. struct_to_json(table, other)[m][i][base]
         = Result(All(copies).code, Object(All(copies).value))
  <2>1. struct_to_json(table, other)[m][i][base] = fields_to_json(others, fields, other, base)
    BY <1>0, <1>2, JsonIs
  <2> QED BY <1>6, <2>1 DEF fields_to_json
<1>10. /\ All(members).code = "OK"
       /\ object.type = "object" /\ object.object = All(members).value
  <2>1. saved.code = All(members).code /\ object = Object(All(members).value)
    BY <1>4, <1>8 DEF Result
  <2> QED BY <2>1 DEF Object
<1>11. struct_from_json(table, json)[m][i][saved.value][base] = All(decoded)
  <2>1. struct_from_json(table, json)[m][i][object][base]
           = fields_from_json(writes, fields, object, base)
    BY <1>0, <1>3, <1>4, WritesAre
  <2> QED BY <1>4, <1>7, <1>10, <2>1 DEF fields_from_json
\* The items in the object.
<1>12. /\ IsItem(object) /\ ItemsOf(object) \subseteq deeper
       /\ \A x \in deeper : IsItem(x) /\ x.type # "null"
       /\ \A n, l \in 1..Len(object.object) :
             object.object[n].key = object.object[l].key => n = l
  <2>1. PICK d \in 1..Len(table) : d = Len(table) - (m - 1) /\ d - 1 = Len(table) - m
    BY <1>0
  <2>2. d \in 0..Len(table) /\ d - 1 \in 0..Len(table)
    BY <1>0
  <2>3. object \in ItemsWithin(table, json)[d - 1]
    BY <1>4, <2>1
  <2>4. IsItem(object) /\ \A x \in ItemsWithin(table, json)[d] : IsItem(x)
    BY <2>2, <2>3, ItemsGood
  <2>5. ItemsOf(object) \subseteq ItemsWithin(table, json)[d]
    BY <2>3, ItemsDeeper
  <2>6. \A e \in 0..Len(table) : \A x \in ItemsWithin(table, json)[e] :
           /\ x.type # "null"
           /\ x.type = "object" =>
                \A n, l \in 1..Len(x.object) : x.object[n].key = x.object[l].key => n = l
    BY DEF Faithful, Depths
  <2> QED BY <1>10, <2>1, <2>2, <2>3, <2>4, <2>5, <2>6
<1> HIDE DEF deeper
\* Each field is a member of its own, if it is not ignored.
<1>13. ASSUME NEW k \in 1..Len(fields), ~Ignored(fields[k])
       PROVE  LET json1 == field_to_json(nested, fields[k], memory, base) IN
              /\ json1.code = "OK"
              /\ members[k] = Result("OK", <<Member(json_key(fields[k]), json1.value)>>)
              /\ HasMember(object, json_key(fields[k]))
              /\ MemberOf(object, json_key(fields[k])) = json1.value
  <2> DEFINE Mem(l) == Member(json_key(fields[l]),
                              field_to_json(nested, fields[l], memory, base).value)
             V == {Mem(l) : l \in 1..Len(fields)}
  <2>1. \A l \in 1..Len(fields) : members[l].value \in {<<>>, <<Mem(l)>>}
    BY <1>5 DEF member_to_json, Result
  <2>2. members[k] = Result(field_to_json(nested, fields[k], memory, base).code, <<Mem(k)>>)
    BY <1>5, <1>13 DEF member_to_json
  <2>3. members[k].value = <<Mem(k)>>
        /\ members[k].code = field_to_json(nested, fields[k], memory, base).code
    BY <2>2 DEF Result
  <2>4. \A l \in 1..Len(fields) : Mem(l) \in V
    OBVIOUS
  <2>5. PICK own : own = Mem(k)
    OBVIOUS
  <2>6. own.key = json_key(fields[k])
        /\ own.item = field_to_json(nested, fields[k], memory, base).value
    BY <2>5 DEF Member
  <2> HIDE DEF V, Mem
  <2>7. \A l \in 1..Len(fields) : members[l].value \in Seq(V)
    <3>1. <<>> \in Seq(V) /\ \A x \in V : <<x>> \in Seq(V)
      OBVIOUS
    <3> QED BY <2>1, <2>4, <3>1
  <2>8. Len(members) \in Nat /\ Len(members) = Len(fields)
    BY <1>0, <1>5
  <2>9. /\ All(members).code = "OK" <=> \A l \in 1..Len(members) : members[l].code = "OK"
        /\ All(members).value \in Seq(V)
        /\ \A x \in Range(All(members).value) :
              \E l \in 1..Len(members) : x \in Range(members[l].value)
        /\ All(members).code = "OK" =>
             \A l \in 1..Len(members) :
                \A x \in Range(members[l].value) : x \in Range(All(members).value)
    BY <2>7, <2>8, AllIs
  <2>10. members[k].code = "OK"
    BY <1>10, <2>8, <2>9
  <2>11. own \in Range(object.object)
    <3>1. own \in Range(members[k].value)
      BY <2>3, <2>5 DEF Range
    <3> QED BY <1>10, <2>8, <2>9, <3>1
  <2>12. Len(object.object) \in Nat /\ DOMAIN object.object = 1..Len(object.object)
    BY <1>10, <2>9
  <2>13. PICK n \in 1..Len(object.object) : object.object[n] = own
    BY <2>11, <2>12 DEF Range
  <2>14. HasMember(object, own.key) /\ MemberOf(object, own.key) = own.item
    BY <1>12, <2>12, <2>13, MemberOnly
  <2> QED BY <2>2, <2>3, <2>5, <2>6, <2>10, <2>14 DEF Mem
<1>14. ASSUME NEW k \in 1..Len(fields)
       PROVE  Returns(decoded[k], memory, other, members[k], copies[k])
  <2>1. PICK f : f = fields[k]
    OBVIOUS
  <2>2. /\ members[k] = member_to_json(nested, f, memory, base)
        /\ copies[k] = member_to_json(others, f, other, base)
        /\ decoded[k] = field_from_json(writes, f, object, base)
    BY <1>5, <1>6, <1>7, <2>1
  <2>3. CASE Ignored(f)
    <3>1. members[k] = Result("OK", <<>>) /\ copies[k] = Result("OK", <<>>)
      BY <2>2, <2>3 DEF member_to_json
    <3>2. decoded[k] = Result("OK", <<>>)
      BY <2>2, <2>3 DEF field_from_json
    <3> QED BY <3>1, <3>2, NothingReturns
  <2>4. CASE ~Ignored(f)
    <3>1. PICK own : own = field_to_json(nested, f, memory, base)
      OBVIOUS
    <3>2. PICK copy : copy = field_to_json(others, f, other, base)
      OBVIOUS
    <3>3. /\ own.code = "OK" /\ members[k] = Result("OK", <<Member(json_key(f), own.value)>>)
          /\ HasMember(object, json_key(f)) /\ MemberOf(object, json_key(f)) = own.value
      BY <1>13, <2>1, <2>4, <3>1
    <3>4. /\ own.value \in ItemsOf(object)
          /\ IsItem(own.value) /\ own.value.type = "array" =>
               \A h \in 1..Len(own.value.array) : own.value.array[h] \in ItemsOf(object)
      BY <1>10, <1>12, <3>3, MemberIs
    <3>5. own.value \in deeper
          /\ (own.value.type = "array" =>
                \A h \in 1..Len(own.value.array) : own.value.array[h] \in deeper)
      <4>1. own.value \in deeper /\ IsItem(own.value)
        BY <1>12, <3>4
      <4> QED BY <1>12, <3>4, <4>1
    <3>6. /\ IsField(table, f)
          /\ f.kind = "STRUCT" => /\ Ranked(table, f.nested, m - 1)
                                  /\ ElementSize(f) = table[f.nested].size
          /\ FieldBytes(f, base) \subseteq Bytes(base, table[i].size)
      <4>1. m \in 0..Len(table) /\ k \in 1..Len(table[i].fields) /\ f = table[i].fields[k]
        BY <1>0, <2>1
      <4>2. FieldWith(table, i, m, f, base)
        BY <4>1, FieldOf
      <4> QED BY <4>2 DEF FieldWith
    <3>7. Len(memory) \in Nat /\ \A b \in FieldBytes(f, base) : memory[b + 1] \in Byte
      BY <3>6 DEF HasBytes
    <3>8. deeper = ItemsWithin(table, json)[Len(table) - (m - 1)]
          /\ \A x \in deeper : x.type # "null"
      BY <1>12 DEF deeper
    <3>9. own = field_to_json(struct_to_json(table, memory)[m - 1], f, memory, base)
      BY <1>1, <3>1
    <3>10. Returns(field_from_json(struct_from_json(table, json)[m - 1], f, object, base),
                   memory, other, own,
                   field_to_json(struct_to_json(table, other)[m - 1], f, other, base))
      BY <2>4, <3>3, <3>5, <3>6, <3>7, <3>8, <3>9, FieldBack
    <3>11. Returns(decoded[k], memory, other, own, copy)
      BY <1>2, <1>3, <2>2, <3>2, <3>10
    <3>12. copy = own => copies[k] = members[k]
      <4>1. copies[k] = Result(copy.code, <<Member(json_key(f), copy.value)>>)
        BY <2>2, <2>4, <3>2 DEF member_to_json
      <4> QED BY <3>3, <4>1
    <3> QED BY <3>11, <3>12, ReturnsAlso
  <2> QED BY <2>3, <2>4
<1>15. Returns(All(decoded), memory, other, members, copies)
  <2>1. Len(decoded) = Len(fields) /\ Len(decoded) \in Nat
    BY <1>0, <1>7
  <2>2. members = [k \in 1..Len(decoded) |-> members[k]]
        /\ copies = [k \in 1..Len(decoded) |-> copies[k]]
    BY <1>5, <1>6, <2>1
  <2>3. \A k \in 1..Len(decoded) : Returns(decoded[k], memory, other, members[k], copies[k])
    BY <1>14, <2>1
  <2> QED BY <2>1, <2>2, <2>3, AllReturns
<1>16. copies = members => struct_to_json(table, other)[m][i][base] = saved
  BY <1>8, <1>9
<1>17. Returns(All(decoded), memory, other, saved, struct_to_json(table, other)[m][i][base])
  BY <1>15, <1>16, ReturnsAlso
<1> QED BY <1>11, <1>17

\* So it does at any depth.
LEMMA AllBack ==
    ASSUME NEW table, IsTable(table), NEW json, IsGood(json), Faithful(table, json),
           NEW memory, NEW other, NEW n \in 0..Len(table)
    PROVE  Back(table, json, memory, other, n)
<1> DEFINE T == {m \in 0..n : Back(table, json, memory, other, m)}
<1>0. Len(table) \in Nat /\ n \in Nat
  BY TableIs
<1>1. 0 \in T
  <2>1. \A i : ~Ranked(table, i, 0)
    BY RankedIs
  <2>2. Back(table, json, memory, other, 0)
    BY <2>1 DEF Back
  <2> QED BY <1>0, <2>2
<1>2. ASSUME NEW m \in 1..n, m - 1 \in T PROVE m \in T
  <2>1. m \in 1..Len(table) /\ Back(table, json, memory, other, m - 1)
    BY <1>0, <1>2
  <2>2. ASSUME NEW i, NEW base,
               Ranked(table, i, m), base \in Nat, HasBytes(memory, base, table[i].size),
               struct_to_json(table, memory)[m][i][base].code = "OK",
               struct_to_json(table, memory)[m][i][base].value
                  \in ItemsWithin(table, json)[Len(table) - m]
        PROVE  Returns(struct_from_json(table, json)[m][i]
                          [struct_to_json(table, memory)[m][i][base].value][base],
                       memory, other, struct_to_json(table, memory)[m][i][base],
                       struct_to_json(table, other)[m][i][base])
    <3>1. PICK saved : saved = struct_to_json(table, memory)[m][i][base]
      OBVIOUS
    <3>2. saved.code = "OK" /\ saved.value \in ItemsWithin(table, json)[Len(table) - m]
      BY <2>2, <3>1
    <3>3. Returns(struct_from_json(table, json)[m][i][saved.value][base], memory, other,
                  saved, struct_to_json(table, other)[m][i][base])
      BY <2>1, <2>2, <3>1, <3>2, StructBack
    <3> QED BY <3>1, <3>3
  <2>3. Back(table, json, memory, other, m)
    BY <2>2 DEF Back
  <2> QED BY <1>0, <2>3
<1> HIDE DEF T
<1>3. \A m \in 1..n : m - 1 \in T => m \in T
  BY <1>2
<1>4. 0..n \subseteq T
  BY <1>0, <1>1, <1>3, CountUp
<1> QED BY <1>0, <1>4 DEF T

\* Writes of what one instance has, to another one.
LEMMA WritesCopy ==
    ASSUME NEW size \in Nat, NEW memory, NEW zero, Len(zero) = size,
           NEW writes \in Seq(AnyWrite), AllCopied(memory, writes),
           \A n \in 1..Len(writes) : \A h \in 1..Len(writes[n].bytes) :
              writes[n].address + h \in 1..size
    PROVE  AllCopied(AfterWrites(zero, writes), writes)
<1> DEFINE after(n) == Instances(zero, writes)[n]
           T == {n \in 0..Len(writes) :
                   /\ Len(after(n)) = size
                   /\ \A k \in 1..n : Copied(after(n), writes[k])}
<1>1. /\ Len(writes) \in Nat /\ DOMAIN writes = 1..Len(writes)
      /\ \A n \in 1..Len(writes) : /\ writes[n].address \in Nat
                                   /\ writes[n].bytes \in Seq(Byte)
                                   /\ Copied(memory, writes[n])
  <2>1. \A n \in 1..Len(writes) : writes[n] \in AnyWrite /\ writes[n] \in Range(writes)
    BY DEF Range
  <2> QED BY <2>1 DEF AnyWrite, AllCopied
<1>2. 0 \in T
  <2>1. after(0) = zero
    BY <1>1, InstancesAre
  <2> QED BY <1>1, <2>1
<1>3. ASSUME NEW n \in 1..Len(writes), n - 1 \in T PROVE n \in T
  <2>1. PICK w : w = writes[n]
    OBVIOUS
  <2>2. PICK before : before = after(n - 1)
    OBVIOUS
  <2>3. PICK now : now = after(n)
    OBVIOUS
  <2>4. now = Put(before, w.address, w.bytes)
    BY <1>1, <2>1, <2>2, <2>3, InstancesAre
  <2>5. Len(before) = size /\ \A k \in 1..(n - 1) : Copied(before, writes[k])
    BY <1>3, <2>2
  <2>6. PICK a \in Nat : a = w.address
    BY <1>1, <2>1
  <2>7. PICK bytes \in Seq(Byte) : bytes = w.bytes
    BY <1>1, <2>1
  <2>8. /\ Len(now) = size
        /\ \A b \in 1..size :
             /\ b - a \in 1..Len(bytes) => now[b] = bytes[b - a]
             /\ b - a \notin 1..Len(bytes) => now[b] = before[b]
    <3>1. LET result == Put(before, a, bytes) IN
          /\ IsSeq(result) /\ Len(result) = Len(before)
          /\ \A b \in 1..Len(before) :
               /\ b - a \in 1..Len(bytes) => result[b] = bytes[b - a] /\ result[b] \in Byte
               /\ b - a \notin 1..Len(bytes) => result[b] = before[b]
      BY <2>5, PutIs
    <3> QED BY <2>4, <2>5, <2>6, <2>7, <3>1
  <2>9. \A h \in 1..Len(bytes) : memory[a + h] = bytes[h] /\ a + h \in 1..size
    <3>1. Copied(memory, w) /\ \A h \in 1..Len(w.bytes) : w.address + h \in 1..size
      BY <1>1, <2>1
    <3> QED BY <2>6, <2>7, <3>1 DEF Copied
  <2>10. \A h \in 1..Len(bytes) : now[a + h] = bytes[h]
    <3> TAKE h \in 1..Len(bytes)
    <3>1. (a + h) - a = h /\ a + h \in 1..size
      BY <2>9
    <3> QED BY <2>8, <3>1
  <2>11. \A b \in 1..size : b - a \in 1..Len(bytes) => now[b] = memory[b]
    <3> SUFFICES ASSUME NEW b \in 1..size, b - a \in 1..Len(bytes) PROVE now[b] = memory[b]
      OBVIOUS
    <3>1. a + (b - a) = b
      OBVIOUS
    <3>2. memory[a + (b - a)] = bytes[b - a]
      BY <2>9
    <3> QED BY <2>8, <3>1, <3>2
  <2>12. ASSUME NEW k \in 1..n PROVE Copied(now, writes[k])
    <3>1. CASE k = n
      BY <2>1, <2>6, <2>7, <2>10, <3>1 DEF Copied
    <3>2. CASE k # n
      <4>1. PICK v : v = writes[k]
        OBVIOUS
      <4>2. k \in 1..(n - 1) /\ k \in 1..Len(writes)
        BY <1>1, <3>2
      <4>3. Copied(before, v) /\ Copied(memory, v)
            /\ \A h \in 1..Len(v.bytes) : v.address + h \in 1..size
        BY <1>1, <2>5, <4>1, <4>2
      <4>4. \A h \in 1..Len(v.bytes) : now[v.address + h] = v.bytes[h]
        <5> TAKE h \in 1..Len(v.bytes)
        <5>1. PICK b \in 1..size : b = v.address + h
          BY <4>3
        <5>2. before[b] = v.bytes[h] /\ memory[b] = v.bytes[h]
          BY <4>3, <5>1 DEF Copied
        <5> QED BY <2>8, <2>11, <5>1, <5>2
      <4> QED BY <4>1, <4>4 DEF Copied
    <3> QED BY <3>1, <3>2
  <2>13. Len(now) = size /\ \A k \in 1..n : Copied(now, writes[k])
    BY <2>8, <2>12
  <2> QED BY <1>1, <2>3, <2>13
<1>4. Len(writes) \in T
  <2> HIDE DEF T
  <2>1. \A n \in 1..Len(writes) : n - 1 \in T => n \in T
    BY <1>3
  <2>2. 0..Len(writes) \subseteq T
    BY <1>1, <1>2, <2>1, CountUp
  <2> QED BY <1>1, <2>2
<1>5. PICK last : last = AfterWrites(zero, writes)
  OBVIOUS
<1>6. \A k \in 1..Len(writes) : Copied(last, writes[k])
  BY <1>4, <1>5 DEF AfterWrites
<1> QED BY <1>1, <1>5, <1>6 DEF AllCopied, Range

\* What is saved of an instance comes back, in a new one.
LEMMA InstanceBack ==
    ASSUME NEW table, IsTable(table), NEW i \in 1..Len(table), NEW memory,
           IsInstance(memory, table[i].size),
           NEW saved, saved = json_encode(table, i, memory), saved.code = "OK",
           Faithful(table, saved.value)
    PROVE  LET decoded == json_decode(table, i, saved.value)
               new == AfterWrites([b \in 1..table[i].size |-> 0], decoded.value)
           IN
           decoded.code = "OK" /\ json_encode(table, i, new) = saved
<1>1. validate(table, i) = "OK"
  <2>1. validate(table, i) # "OK" => saved.code = "CORRUPT_DESCRIPTOR"
    BY DEF json_encode, Result
  <2> QED BY <2>1
<1>2. Ranked(table, i, Len(table))
  BY <1>1, RankedTop
<1>3. /\ Len(table) \in Nat /\ Len(table) \in 0..Len(table) /\ Len(table) - Len(table) = 0
      /\ 0 \in 0..Len(table) /\ 0 \in Nat
  BY TableIs
<1>4. PICK size \in Nat : size = table[i].size
  BY TableIs DEF IsDescriptor
<1>5. HasBytes(memory, 0, table[i].size)
  <2>1. Len(memory) = size /\ \A b \in 1..size : memory[b] \in Byte
    BY <1>4 DEF IsInstance
  <2>2. \A b \in Bytes(0, size) : b + 1 \in 1..size
    BY DEF Bytes
  <2> QED BY <1>4, <2>1, <2>2 DEF HasBytes
<1>6. \A m : json_encode(table, i, m) = struct_to_json(table, m)[Len(table)][i][0]
  BY <1>1 DEF json_encode
<1>7. PICK json : json = saved.value
  OBVIOUS
<1>8. json = struct_to_json(table, memory)[Len(table)][i][0].value
      /\ saved = struct_to_json(table, memory)[Len(table)][i][0]
  BY <1>6, <1>7
<1>9. IsGood(json)
  BY <1>2, <1>3, <1>5, <1>8, SavedIsGood
<1>10. PICK decoded : decoded = json_decode(table, i, json)
  OBVIOUS
<1>11. decoded = struct_from_json(table, json)[Len(table)][i][json][0]
  BY <1>1, <1>10 DEF json_decode
<1>12. PICK zero : zero = [b \in 1..size |-> 0]
  OBVIOUS
<1>13. PICK new : new = AfterWrites(zero, decoded.value)
  OBVIOUS
<1>14. json \in ItemsWithin(table, json)[Len(table) - Len(table)]
  <2>1. ItemsWithin(table, json)[0] = {json}
    BY <1>3, ItemsAre
  <2> QED BY <1>3, <2>1
<1>15. Returns(decoded, memory, new, saved, json_encode(table, i, new))
  <2>1. Faithful(table, json)
    BY <1>7
  <2>2. Back(table, json, memory, new, Len(table))
    BY <1>3, <1>9, <2>1, AllBack
  <2>3. Returns(struct_from_json(table, json)[Len(table)][i][json][0], memory, new,
                struct_to_json(table, memory)[Len(table)][i][0],
                struct_to_json(table, new)[Len(table)][i][0])
    BY <1>2, <1>3, <1>5, <1>8, <1>14, <2>2 DEF Back
  <2> QED BY <1>6, <1>8, <1>11, <2>3
<1>16. decoded.value \in Seq(FittingWrites(AllPlaces(table, i)))
  <2>1. Places(table)[Len(table)][i][0] \subseteq AllPlaces(table, i)
    BY DEF AllPlaces
  <2> QED BY <1>2, <1>3, <1>9, <1>11, <1>14, <2>1, DecodeFits
<1>17. ASSUME NEW n \in 1..Len(decoded.value), NEW h \in 1..Len(decoded.value[n].bytes)
       PROVE  decoded.value[n].address + h \in 1..size
  <2>1. PICK w : w = decoded.value[n]
    OBVIOUS
  <2>2. w \in FittingWrites(AllPlaces(table, i))
    BY <1>16, <2>1
  <2>3. /\ w.address \in Nat /\ w.bytes \in Seq(Byte)
        /\ \A b \in Bytes(w.address, Len(w.bytes)) :
              \E p \in AllPlaces(table, i) : b \in PlaceBytes(p)
    BY <2>2 DEF FittingWrites, Fits
  <2>4. h \in 1..Len(w.bytes) /\ Len(w.bytes) \in Nat
    BY <2>1, <2>3
  <2>5. PICK b \in Int : b = w.address + h - 1
    BY <2>3
  <2>6. b \in Bytes(w.address, Len(w.bytes))
    BY <2>3, <2>4, <2>5 DEF Bytes
  <2>7. b \in Bytes(0, size)
    <3>1. \A p \in AllPlaces(table, i) : PlaceBytes(p) \subseteq Bytes(0, size)
      BY <1>2, <1>4, AllPlacesLie
    <3> QED BY <2>3, <2>6, <3>1
  <2>8. w.address + h \in 1..size
    <3>1. PICK a \in Nat : a = w.address
      BY <2>3
    <3>2. b = a + h - 1 /\ b \in 0..(0 + size - 1)
      BY <2>5, <2>7, <3>1 DEF Bytes
    <3>3. a + h \in 1..size
      BY <2>4, <3>2
    <3> QED BY <3>1, <3>3
  <2> QED BY <2>1, <2>8
<1>18. decoded.code = "OK" /\ decoded.value \in Seq(AnyWrite)
       /\ AllCopied(memory, decoded.value)
  BY <1>15 DEF Returns
<1>19. AllCopied(new, decoded.value)
  <2>1. Len(zero) = size
    BY <1>12
  <2> QED BY <1>13, <1>17, <1>18, <2>1, WritesCopy
<1>20. json_encode(table, i, new) = saved
  BY <1>15, <1>19 DEF Returns
<1> QED BY <1>4, <1>7, <1>10, <1>12, <1>13, <1>18, <1>20
-----------------------------------------------------------------------------
(* What the user enters                                                    *)

\* SessionAssumption, of one line.
LEMMA LineIs ==
    ASSUME NEW line \in Lines
    PROVE  line.int \in Int \cup {NotNumber} /\ line.real \in Int \cup {NotNumber}
           /\ IsText(line.text)
BY SessionAssumption

\* The bytes of a line fit the field that it is entered for.
LEMMA BytesFit ==
    ASSUME NEW table, IsTable(table), NEW f, IsField(table, f), f.kind # "STRUCT",
           NEW line \in Lines, NEW bytes, bytes = BytesFrom(f, line), bytes # <<>>
    PROVE  /\ bytes \in Seq(Byte) /\ Len(bytes) <= ElementSize(f)
           /\ f.kind = "CHAR_ARRAY" => HasNUL(bytes)
<1>1. Natural(f) /\ f.kind \in Kinds
  BY FieldIs
<1>2. ASSUME NEW v \in Int, f.kind # "CHAR_ARRAY", bytes = BytesOf(v, f.element_size)
      PROVE  bytes \in Seq(Byte) /\ Len(bytes) <= ElementSize(f)
  <2>1. bytes \in Seq(Byte) /\ Len(bytes) = f.element_size
    BY <1>1, <1>2, BytesOfIs DEF Natural
  <2>2. ElementSize(f) = f.element_size /\ f.element_size \in Nat
    BY <1>1, <1>2 DEF ElementSize, Natural
  <2> QED BY <2>1, <2>2
<1>3. CASE f.kind = "SIGNED_INTEGER"
  <2>1. bytes = IF line.int # NotNumber /\ store_signed(f.element_size, line.int)
                THEN BytesOf(line.int, f.element_size) ELSE <<>>
    BY <1>3, Zenon DEF BytesFrom
  <2>2. line.int \in Int /\ bytes = BytesOf(line.int, f.element_size)
    BY <2>1, LineIs
  <2>3. f.kind # "CHAR_ARRAY"
    BY <1>3
  <2> QED BY <1>2, <2>2, <2>3
<1>4. CASE f.kind = "UNSIGNED_INTEGER"
  <2>0. f.kind # "SIGNED_INTEGER" /\ f.kind # "CHAR_ARRAY"
    BY <1>4
  <2>1. PICK unsigned : unsigned = parse_unsigned_integer(line)
    OBVIOUS
  <2>a. PICK fits \in BOOLEAN : fits <=> store_unsigned(f.element_size, unsigned)
    OBVIOUS
  <2>2. bytes = IF unsigned # NotNumber /\ fits
                THEN BytesOf(unsigned, f.element_size) ELSE <<>>
    BY <1>4, <2>0, <2>1, <2>a DEF BytesFrom
  <2>3. unsigned # NotNumber /\ bytes = BytesOf(unsigned, f.element_size)
    BY <2>2
  <2>4. unsigned \in Int
    <3>1. PICK c \in Nat \ {0} : c = Combinations(WordBytes)
      BY CombinationsAre, ValuesAssumption
    <3>2. line.int # NotNumber /\ unsigned = line.int % c
      BY <2>1, <2>3, <3>1 DEF parse_unsigned_integer
    <3>3. line.int \in Int
      BY <3>2, LineIs
    <3> QED BY <3>1, <3>2, <3>3
  <2> QED BY <1>2, <2>0, <2>3, <2>4
<1>5. CASE f.kind \in {"FLOAT", "DOUBLE"}
  <2>0. f.kind # "CHAR_ARRAY"
    BY <1>5
  <2>1. bytes = IF line.real # NotNumber
                THEN BytesOf(Rounded(f.element_size, line.real), f.element_size) ELSE <<>>
    BY <1>5 DEF BytesFrom
  <2>2. line.real \in Int
        /\ bytes = BytesOf(Rounded(f.element_size, line.real), f.element_size)
    BY <2>1, LineIs
  <2>3. Rounded(f.element_size, line.real) \in Int
    BY <1>1, <2>2, InfinityIs DEF Natural
  <2> QED BY <1>2, <2>0, <2>2, <2>3
<1>6. CASE f.kind = "CHAR_ARRAY"
  <2>1. PICK characters \in Seq(Byte) : characters = line.text.characters
    BY LineIs DEF IsText
  <2>2. bytes = IF Len(characters) < f.char_buffer_size THEN Append(characters, NUL) ELSE <<>>
    BY <1>6, <2>1 DEF BytesFrom, text_fits
  <2>3. Len(characters) < f.char_buffer_size /\ bytes = Append(characters, NUL)
    BY <2>2
  <2>4. /\ Append(characters, NUL) \in Seq(Byte)
        /\ Len(Append(characters, NUL)) = Len(characters) + 1
        /\ HasNUL(Append(characters, NUL))
    BY TextIs
  <2>5. ElementSize(f) = f.char_buffer_size /\ f.char_buffer_size \in Nat
        /\ Len(characters) \in Nat
    BY <1>1, <1>6 DEF ElementSize, Natural
  <2> QED BY <2>3, <2>4, <2>5
<1> QED BY <1>1, <1>3, <1>4, <1>5, <1>6 DEF Kinds, Integral

\* A new instance.
LEMMA ZeroIsWhole ==
    ASSUME NEW table, IsTable(table), NEW t \in 1..Len(table)
    PROVE  LET zero == [b \in 1..table[t].size |-> 0] IN
           /\ IsInstance(zero, table[t].size)
           /\ validate(table, t) = "OK" => Whole(table, t, zero)
<1>1. PICK size \in Nat : size = table[t].size
  BY TableIs DEF IsDescriptor
<1>2. PICK zero : zero = [b \in 1..size |-> 0]
  OBVIOUS
<1>3. IsSeq(zero) /\ Len(zero) = size /\ \A b \in 1..size : zero[b] = 0
  BY <1>2 DEF IsSeq
<1>4. IsInstance(zero, size)
  <2>1. 0 \in Byte
    BY ValuesAssumption DEF Byte
  <2> QED BY <1>3, <2>1 DEF IsInstance
<1>5. ASSUME validate(table, t) = "OK" PROVE Whole(table, t, zero)
  <2>1. Ranked(table, t, Len(table))
    BY <1>5, RankedTop
  <2>2. ASSUME NEW p \in AllPlaces(table, t), p.field.kind = "CHAR_ARRAY"
        PROVE  HasNUL(Slice(zero, p.address, p.field.char_buffer_size))
    <3>1. /\ IsPlace(table, p) /\ p.address \in Nat
          /\ PlaceBytes(p) = Bytes(p.address, ElementSize(p.field))
          /\ PlaceBytes(p) \subseteq Bytes(0, size)
      BY <1>1, <2>1, AllPlacesLie
    <3>2. ElementSize(p.field) = p.field.char_buffer_size
          /\ p.field.char_buffer_size \in Nat /\ p.field.char_buffer_size # 0
      <4>1. IsField(table, p.field)
        BY <3>1 DEF IsPlace
      <4> QED BY <2>2, <4>1, FieldIs DEF ElementSize, Natural
    <3>3. p.address \in Bytes(p.address, p.field.char_buffer_size)
      BY <3>1, <3>2 DEF Bytes
    <3>4. p.address + 1 \in 1..size
      BY <3>1, <3>2, <3>3 DEF Bytes
    <3>5. zero[p.address + 1] = NUL
      BY <1>3, <3>4 DEF NUL
    <3> QED BY <1>3, <3>1, <3>2, <3>3, <3>5, SliceIs
  <2> QED BY <1>1, <1>3, <2>2 DEF Whole, Legible
<1> QED BY <1>1, <1>2, <1>4, <1>5

-----------------------------------------------------------------------------
(* Where the menus and prompts of the editor are                           *)

Inside(table, t, frame) ==
    /\ frame.kind \in {"struct", "array", "hex", "scalar"}
    /\ frame.kind = "struct" =>
          \E n : StructAt(table, t, frame.field.nested, n, frame.address)
    /\ frame.kind \in {"array", "hex"} =>
          ElementAt(table, t, frame.field, frame.address, 1)
    /\ frame.kind = "array" => is_array(frame.field)
    /\ frame.kind = "hex" => is_hex(frame.field)
    /\ frame.kind = "scalar" =>
          /\ frame.field.kind # "STRUCT"
          /\ \E m : ElementAt(table, t, frame.field, frame.address, m)

\* What the editor opens for an element, or for a whole array at its first one.
LEMMA EditorIs ==
    ASSUME NEW table, IsTable(table), NEW t, Ranked(table, t, Len(table)),
           NEW f, NEW a, NEW m, ElementAt(table, t, f, a, m),
           NEW path, NEW whole \in BOOLEAN, whole => m = 1
    PROVE  LET frame == Editor(f, a, path, whole) IN
           /\ Inside(table, t, frame)
           /\ frame.field = f /\ frame.address = a /\ frame.path = path
           /\ frame.kind = "struct" => f.kind = "STRUCT" /\ (f.element_count <= 1 \/ ~whole)
           /\ frame.kind = "array" => whole
<1>1. /\ IsField(table, f)
      /\ f.kind = "STRUCT" => \E n : StructAt(table, t, f.nested, n, a)
  BY ElementAtIs
<1>2. f.element_count \in Nat /\ f.kind \in Kinds
      /\ (is_hex(f) => f.kind \in Integral)
  BY <1>1, FieldIs DEF Natural
<1>3. PICK frame : frame = Editor(f, a, path, whole)
  OBVIOUS
<1>4. CASE is_hex(f) /\ whole
  <2>1. frame = Frame("hex", f, a, path)
    BY <1>3, <1>4 DEF Editor
  <2>2. frame.kind = "hex" /\ frame.field = f /\ frame.address = a /\ frame.path = path
    BY <2>1 DEF Frame
  <2> QED BY <1>3, <1>4, <2>2 DEF Inside
<1>5. CASE ~(is_hex(f) /\ whole) /\ is_array(f) /\ whole
  <2>1. frame = Frame("array", f, a, path)
    BY <1>3, <1>5 DEF Editor
  <2>2. frame.kind = "array" /\ frame.field = f /\ frame.address = a /\ frame.path = path
    BY <2>1 DEF Frame
  <2> QED BY <1>3, <1>5, <2>2 DEF Inside
<1>6. CASE ~(is_hex(f) /\ whole) /\ ~(is_array(f) /\ whole) /\ f.kind = "STRUCT"
  <2>1. frame = Frame("struct", f, a, path)
    BY <1>3, <1>6 DEF Editor, patch_element
  <2>2. frame.kind = "struct" /\ frame.field = f /\ frame.address = a /\ frame.path = path
    BY <2>1 DEF Frame
  <2>3. f.element_count <= 1 \/ ~whole
    BY <1>2, <1>6 DEF is_array
  <2> QED BY <1>1, <1>3, <1>6, <2>2, <2>3 DEF Inside
<1>7. CASE ~(is_hex(f) /\ whole) /\ ~(is_array(f) /\ whole) /\ f.kind # "STRUCT"
  <2>1. frame = Frame("scalar", f, a, path)
    BY <1>3, <1>7 DEF Editor, patch_element
  <2>2. frame.kind = "scalar" /\ frame.field = f /\ frame.address = a /\ frame.path = path
    BY <2>1 DEF Frame
  <2> QED BY <1>3, <1>7, <2>2 DEF Inside
<1> QED BY <1>4, <1>5, <1>6, <1>7
-----------------------------------------------------------------------------
(* The inductive invariant                                                 *)

StatusInv ==
    /\ where \in {"main", "select", "patch", "exited"}
    /\ stdin \in {"open", "closed"} /\ raw \in BOOLEAN /\ changes \in 0..MaxChanges
    /\ catalogs \in [Handles -> Headers \cup {Free}]

\* There is no target, or one with an instance of a structure of its catalogue.
TargetInv ==
    /\ target = Select(target.catalog, target.parsed, target.descriptor, target.instance)
    /\ target.catalog = "" => target = NoTarget
    /\ target.catalog # "" =>
          /\ target.catalog \in Builtin \cup Headers
          /\ target.descriptor \in 1..Len(Table)
          /\ IsInstance(target.instance, Size)

PendingInv ==
    /\ pending = Select(pending.catalog, pending.parsed, 0, <<>>)
    /\ pending.catalog = "" => pending = NoTarget
    /\ pending.catalog # "" => pending.catalog \in Builtin \cup Headers
    /\ where = "select" <=> pending.catalog # ""

\* The catalogues that exist are the owned ones, and each has one owner.
Owned(cats, t, p) ==
    /\ {h \in Handles : cats[h] # Free}
          = {x.parsed : x \in {y \in {t, p} : y.parsed # NoHandle}}
    /\ \A x \in {t, p} : x.parsed # NoHandle => cats[x.parsed] = x.catalog
    /\ t.parsed # NoHandle => t.parsed # p.parsed

OwnersInv == Owned(catalogs, target, pending)

FileInv ==
    /\ file.type = "json" => IsGood(file.item)
    /\ file.type = "binary" => file.bytes \in Seq(Byte)

\* No structure that is reached has two fields of one name.
Distinct(table, t) ==
    \A i \in Reached(table, {t}) :
        \A k, m \in 1..Len(table[i].fields) :
            table[i].fields[k].name = table[i].fields[m].name => k = m

\* The editor's menus and prompts are within the structure in use, and where
\* their paths lead.
FrameInv(table, t, frame, n) ==
    /\ Inside(table, t, frame)
    /\ Distinct(table, t) => Shown(table, t, frame) /\ (frame.path = <<>> => n = 1)

EditorInv ==
    /\ IsSeq(frames)
    /\ where = "patch" <=> frames # <<>>
    /\ frames # <<>> =>
          /\ Selected /\ validate(Table, target.descriptor) = "OK"
          /\ \A n \in 1..Len(frames) : FrameInv(Table, target.descriptor, frames[n], n)

InstanceInv ==
    Selected /\ ~raw /\ validate(Table, target.descriptor) = "OK" =>
        Whole(Table, target.descriptor, target.instance)

SessionInv ==
    /\ StatusInv /\ TargetInv /\ PendingInv /\ OwnersInv
    /\ FileInv /\ EditorInv /\ InstanceInv

\* SessionAssumption, of one table.
LEMMA TablesAre ==
    ASSUME NEW name \in Builtin \cup Headers
    PROVE  IsTable(Tables[name])
BY SessionAssumption DEF IsTable

\* The parts of a target.
LEMMA SelectIs ==
    /\ \A catalog, parsed, descriptor, instance :
          LET t == Select(catalog, parsed, descriptor, instance) IN
          /\ t.catalog = catalog /\ t.parsed = parsed
          /\ t.descriptor = descriptor /\ t.instance = instance
    /\ NoTarget.catalog = "" /\ NoTarget.parsed = NoHandle
    /\ NoTarget.descriptor = 0 /\ NoTarget.instance = <<>>
BY DEF Select, NoTarget

\* A byte of a write that is no longer than the place.
LEMMA WithinExtent ==
    ASSUME NEW a \in Nat, NEW size \in Nat, NEW length \in Nat, length <= size,
           NEW b \in Nat, b - a \in 1..length
    PROVE  b - 1 \in a..(a - 1 + size)
OBVIOUS

\* A target that is selected is what it should be.
LEMMA TargetIs ==
    ASSUME TargetInv
    PROVE  /\ Selected <=> target.catalog # ""
           /\ Selected => /\ IsTable(Table) /\ target.descriptor \in 1..Len(Table)
                          /\ Size \in Nat /\ IsInstance(target.instance, Size)
<1>1. CASE target.catalog = ""
  <2>1. target.descriptor = 0
    BY <1>1, SelectIs DEF TargetInv
  <2> QED BY <1>1, <2>1 DEF Selected
<1>2. CASE target.catalog # ""
  <2>1. IsTable(Table)
    BY <1>2, TablesAre DEF TargetInv, Table
  <2>2. target.descriptor \in 1..Len(Table) /\ IsInstance(target.instance, Size)
    BY <1>2 DEF TargetInv
  <2>3. Len(Table) \in Nat /\ Size \in Nat
    BY <2>1, <2>2, TableIs DEF IsDescriptor, Size
  <2>4. target.descriptor # 0
    BY <2>2, <2>3
  <2> QED BY <1>2, <2>1, <2>2, <2>3, <2>4 DEF Selected
<1> QED BY <1>1, <1>2

\* The call that is under way is for a place within the target.
LEMMA TopIs ==
    ASSUME SessionInv, where = "patch"
    PROVE  /\ Selected /\ IsTable(Table) /\ target.descriptor \in 1..Len(Table)
           /\ Ranked(Table, target.descriptor, Len(Table))
           /\ IsSeq(frames) /\ frames # <<>> /\ Len(frames) \in Nat \ {0}
           /\ Top = frames[Len(frames)] /\ FrameInv(Table, target.descriptor, Top, Len(frames))
<1>1. /\ IsSeq(frames) /\ frames # <<>>
      /\ Selected /\ validate(Table, target.descriptor) = "OK"
      /\ \A n \in 1..Len(frames) : FrameInv(Table, target.descriptor, frames[n], n)
  BY DEF SessionInv, EditorInv
<1>2. Len(frames) \in Nat \ {0}
  BY <1>1, FrontIs
<1>3. IsTable(Table) /\ target.descriptor \in 1..Len(Table)
  BY <1>1, TargetIs DEF SessionInv
<1>4. Ranked(Table, target.descriptor, Len(Table))
  BY <1>1, <1>3, RankedTop
<1>5. FrameInv(Table, target.descriptor, Top, Len(frames))
  BY <1>1, <1>2 DEF Top
<1> QED BY <1>1, <1>2, <1>3, <1>4, <1>5 DEF Top

\* The value that a line is stored as.
Entered(line) ==
    IF Top.kind = "hex" THEN line.text.hex ELSE BytesFrom(Top.field, line)

\* It fits the place that it is entered for, and stays within it.
LEMMA PatchFits ==
    ASSUME SessionInv, where = "patch", NEW line \in Lines,
           \/ Top.kind = "scalar"
           \/ Top.kind = "hex" /\ bytes_from_hex(Top.field.element_count, line.text),
           NEW bytes, bytes = Entered(line), bytes # <<>>
    PROVE  /\ Write(Top.address, bytes)
                 \in FittingWrites(AllPlaces(Table, target.descriptor))
           /\ bytes \in Seq(Byte) /\ Top.address \in Nat
           /\ \A b : b \in Nat /\ b - Top.address \in 1..Len(bytes) =>
                 b - 1 \in Extent(Top.field, Top.address, Top.kind = "hex")
<1>1. PICK table : table = Table
  OBVIOUS
<1>2. PICK t : t = target.descriptor
  OBVIOUS
<1>3. IsTable(table) /\ Ranked(table, t, Len(table)) /\ Inside(table, t, Top)
  BY <1>1, <1>2, TopIs DEF FrameInv
<1>4. PICK f : f = Top.field
  OBVIOUS
<1>5. PICK a : a = Top.address
  OBVIOUS
<1>6. CASE Top.kind = "scalar"
  <2>1. PICK m : ElementAt(table, t, f, a, m) /\ f.kind # "STRUCT"
    BY <1>3, <1>4, <1>5, <1>6 DEF Inside
  <2>2. IsField(table, f) /\ a \in Nat /\ [field |-> f, address |-> a] \in AllPlaces(table, t)
    BY <1>3, <2>1, ElementAtIs
  <2>3. bytes = BytesFrom(f, line)
    BY <1>4, <1>6 DEF Entered
  <2>4. /\ bytes \in Seq(Byte) /\ Len(bytes) <= ElementSize(f)
        /\ f.kind = "CHAR_ARRAY" => HasNUL(bytes)
    BY <1>3, <2>1, <2>2, <2>3, BytesFit
  <2>5. PICK p \in AllPlaces(table, t) : p = [field |-> f, address |-> a]
    BY <2>2
  <2>6. p.field = f /\ p.address = a
    BY <2>5
  <2>7. Write(a, bytes) \in FittingWrites(AllPlaces(table, t))
    BY <1>3, <2>4, <2>6, ScalarFits
  <2>8. Extent(f, a, FALSE) = a..(a - 1 + ElementSize(f)) /\ ElementSize(f) \in Nat
    <3>1. Natural(f) /\ (f.kind = "CHAR_ARRAY" => f.element_count = 1)
      BY <1>3, <2>2, FieldIs
    <3>2. f.kind = "CHAR_ARRAY" => FieldSize(f) = f.char_buffer_size
      BY <3>1 DEF FieldSize
    <3> QED BY <3>1, <3>2 DEF Extent, ElementSize, Natural
  <2>9. \A b : b \in Nat /\ b - a \in 1..Len(bytes) => b - 1 \in Extent(f, a, FALSE)
    <3>1. Len(bytes) \in Nat
      BY <2>4
    <3> QED BY <2>2, <2>4, <2>8, <3>1, WithinExtent
  <2>10. (Top.kind = "hex") = FALSE
    BY <1>6
  <2> QED BY <1>1, <1>2, <1>4, <1>5, <2>2, <2>4, <2>7, <2>9, <2>10
<1>7. CASE Top.kind = "hex" /\ bytes_from_hex(Top.field.element_count, line.text)
  <2>1. ElementAt(table, t, f, a, 1) /\ is_hex(f)
    BY <1>3, <1>4, <1>5, <1>7 DEF Inside
  <2>2. IsField(table, f) /\ a \in Nat
        /\ \A l \in 1..f.element_count :
              ElementAt(table, t, f, a + (l - 1) * f.element_size, l)
    BY <1>3, <2>1, ElementAtIs
  <2>3. Natural(f) /\ f.kind \in Integral /\ f.element_size = 1 /\ f.element_count > 1
    BY <1>3, <2>1, <2>2, FieldIs
  <2>4. f.kind # "STRUCT" /\ f.kind # "CHAR_ARRAY"
    BY <2>3 DEF Integral
  <2>5. ASSUME NEW l \in 1..f.element_count
        PROVE  [field |-> f, address |-> a + (l - 1) * f.element_size]
                  \in AllPlaces(table, t)
    BY <1>3, <2>2, <2>4, ElementAtIs
  <2>6. bytes \in Seq(Byte) /\ Len(bytes) = f.element_count
    BY <1>4, <1>7, LineIs DEF Entered, IsText, bytes_from_hex
  <2>7. Write(a, bytes) \in FittingWrites(AllPlaces(table, t))
    BY <1>3, <2>1, <2>2, <2>5, <2>6, HexFits
  <2>8. Extent(f, a, TRUE) = a..(a - 1 + f.element_count)
    <3>1. FieldSize(f) = f.element_count
      BY <2>3, <2>4 DEF FieldSize, Natural
    <3> QED BY <3>1 DEF Extent
  <2>9. \A b : b \in Nat /\ b - a \in 1..Len(bytes) => b - 1 \in Extent(f, a, TRUE)
    <3>1. PICK c \in Nat : c = f.element_count
      BY <2>3 DEF Natural
    <3>2. Len(bytes) = c /\ Extent(f, a, TRUE) = a..(a - 1 + c)
      BY <2>6, <2>8, <3>1
    <3>3. \A b \in Nat : b - a \in 1..c => b - 1 \in a..(a - 1 + c)
      BY <2>2, <3>1, WithinExtent
    <3> QED BY <3>2, <3>3
  <2>10. (Top.kind = "hex") = TRUE
    BY <1>7
  <2> QED BY <1>1, <1>2, <1>4, <1>5, <2>2, <2>6, <2>7, <2>9, <2>10
<1> QED BY <1>6, <1>7
-----------------------------------------------------------------------------
(* The steps, by what they change                                          *)

Saves == cmd_savejson \/ cmd_savebin
Loads == cmd_loadjson \/ cmd_loadbin
Stores == \E line \in Lines : patch_scalar(line) \/ patch_hex_array(line)

\* The editor opens, goes on to another prompt or ends.
Edits ==
    \/ patch_interactive
    \/ \E path \in Paths : patch_path_interactive(path)
    \/ \E line \in Lines : patch_struct(line) \/ patch_array_field(line)
    \/ GoBack
    \/ \E code \in {"EOF", "CANCELED"} : CancelPatch(code)

\* Every step is one of these.
LEMMA StepIs ==
    ASSUME [Next]_vars
    PROVE  \/ \E name \in Builtin \cup Headers : cmd_init(name)
           \/ \E line \in Lines : select_descriptor(line)
           \/ CancelInit \/ Exit \/ Saves \/ Loads \/ Stores \/ Edits
           \/ Close \/ UNCHANGED vars
BY Zenon DEF Next, Answer, Ends, Saves, Loads, Stores, Edits

\* Saving changes the file alone.
LEMMA SavesKeep ==
    ASSUME Saves
    PROVE  /\ UNCHANGED <<target, catalogs, pending, where, frames, stdin, raw>>
           /\ where = "main" /\ Selected /\ changes < MaxChanges /\ changes' = changes + 1
BY DEF Saves, cmd_savejson, cmd_savebin, Command, Commands, Counted

\* Loading changes the instance alone.
LEMMA LoadsKeep ==
    ASSUME Loads
    PROVE  /\ UNCHANGED <<catalogs, pending, where, frames, file, stdin>>
           /\ where = "main" /\ Selected /\ changes < MaxChanges /\ changes' = changes + 1
BY DEF Loads, cmd_loadjson, cmd_loadbin, Command, Commands, Counted

\* Entering a value changes the instance and goes back.
LEMMA StoresKeep ==
    ASSUME Stores
    PROVE  /\ UNCHANGED <<catalogs, pending, file, stdin, raw>>
           /\ where = "patch" /\ where' \in {"main", "patch"}
           /\ changes < MaxChanges /\ changes' = changes + 1
BY DEF Stores, patch_scalar, patch_hex_array, Store, Return, Counted, Enters

\* Going through the menus changes no target.
LEMMA EditsKeep ==
    ASSUME Edits
    PROVE  /\ UNCHANGED <<target, catalogs, pending, file, stdin, raw, changes>>
           /\ where \in {"main", "patch"} /\ where' \in {"main", "patch"}
<1>1. CASE patch_interactive
  BY <1>1 DEF patch_interactive, Begin, Command, Commands
<1>2. CASE \E path \in Paths : patch_path_interactive(path)
  BY <1>2 DEF patch_path_interactive, Begin, Command, Commands
<1>3. CASE \E line \in Lines : patch_struct(line)
  BY <1>3 DEF patch_struct, Push, Enters
<1>4. CASE \E line \in Lines : patch_array_field(line)
  BY <1>4 DEF patch_array_field, Push, Enters
<1>5. CASE GoBack
  BY <1>5 DEF GoBack, Return
<1>6. CASE \E code \in {"EOF", "CANCELED"} : CancelPatch(code)
  BY <1>6 DEF CancelPatch, Unwind, Return, ReturnAll
<1> QED BY <1>1, <1>2, <1>3, <1>4, <1>5, <1>6 DEF Edits

-----------------------------------------------------------------------------
(* Each part of the invariant after a step                                 *)

\* Destroying a catalogue leaves the others as they are.
LEMMA DestroyedTyped ==
    ASSUME catalogs \in [Handles -> Headers \cup {Free}], NEW handle
    PROVE  Destroyed(handle) \in [Handles -> Headers \cup {Free}]
<1>1. [catalogs EXCEPT ![handle] = Free] \in [Handles -> Headers \cup {Free}]
  OBVIOUS
<1> QED BY <1>1 DEF Destroyed

\* Types.
LEMMA StatusStep ==
    ASSUME SessionInv, [Next]_vars
    PROVE  StatusInv'
<1>0. StatusInv /\ MaxChanges \in Nat
  BY SessionAssumption DEF SessionInv
<1>1. CASE \E name \in Builtin \cup Headers : cmd_init(name)
  <2>1. PICK name \in Builtin \cup Headers : cmd_init(name)
    BY <1>1
  <2>2. catalogs' \in [Handles -> Headers \cup {Free}]
    BY <1>0, <2>1 DEF cmd_init, StatusInv
  <2>3. where' = "select" /\ UNCHANGED <<stdin, raw, changes>>
    BY <2>1 DEF cmd_init
  <2> QED BY <1>0, <2>2, <2>3 DEF StatusInv
<1>2. CASE \E line \in Lines : select_descriptor(line)
  <2>1. PICK line \in Lines : select_descriptor(line)
    BY <1>2
  <2>2. catalogs' \in {Destroyed(pending.parsed), Destroyed(target.parsed)}
        /\ raw' \in {raw, FALSE}
    BY <2>1 DEF select_descriptor, KeepTarget, ReplaceTarget
  <2>3. where' = "main" /\ UNCHANGED <<stdin, changes>>
    BY <2>1 DEF select_descriptor
  <2>4. catalogs' \in [Handles -> Headers \cup {Free}]
    BY <1>0, <2>2, DestroyedTyped DEF StatusInv
  <2> QED BY <1>0, <2>2, <2>3, <2>4 DEF StatusInv
<1>3. CASE CancelInit \/ Exit
  <2>1. catalogs' \in {Destroyed(pending.parsed), Destroyed(target.parsed)}
        /\ where' \in {"main", "exited"} /\ UNCHANGED <<stdin, raw, changes>>
    BY <1>3 DEF CancelInit, KeepTarget, Exit
  <2>2. catalogs' \in [Handles -> Headers \cup {Free}]
    BY <1>0, <2>1, DestroyedTyped DEF StatusInv
  <2> QED BY <1>0, <2>1, <2>2 DEF StatusInv
<1>4. CASE Saves
  BY <1>0, <1>4, SavesKeep DEF StatusInv
<1>5. CASE Loads
  <2>1. raw' = raw \/ raw' = TRUE
    BY <1>5 DEF Loads, cmd_loadjson, cmd_loadbin
  <2>2. raw' \in BOOLEAN
    BY <1>0, <2>1 DEF StatusInv
  <2> QED BY <1>0, <1>5, <2>2, LoadsKeep DEF StatusInv
<1>6. CASE Stores
  BY <1>0, <1>6, StoresKeep DEF StatusInv
<1>7. CASE Edits
  BY <1>0, <1>7, EditsKeep DEF StatusInv
<1>8. CASE Close
  BY <1>0, <1>8 DEF Close, StatusInv
<1>9. CASE UNCHANGED vars
  BY <1>0, <1>9 DEF vars, StatusInv
<1> QED BY <1>1, <1>2, <1>3, <1>4, <1>5, <1>6, <1>7, <1>8, <1>9, StepIs

\* A structure is being selected exactly at its prompt.
LEMMA PendingStep ==
    ASSUME SessionInv, [Next]_vars
    PROVE  PendingInv'
<1>0. PendingInv
  BY DEF SessionInv
<1>1. CASE \E name \in Builtin \cup Headers : cmd_init(name)
  <2>1. PICK name \in Builtin \cup Headers : cmd_init(name)
    BY <1>1
  <2>2. PICK h : pending' = Select(name, h, 0, <<>>)
    BY <2>1 DEF cmd_init
  <2>3. where' = "select" /\ name # ""
    BY <2>1, SessionAssumption DEF cmd_init
  <2>4. pending'.catalog = name /\ pending'.parsed = h
    BY <2>2 DEF Select
  <2> QED BY <2>2, <2>3, <2>4 DEF PendingInv
<1>2. CASE (\E line \in Lines : select_descriptor(line)) \/ CancelInit
  <2>1. pending' = NoTarget /\ where' = "main"
    BY <1>2 DEF select_descriptor, CancelInit
  <2>2. NoTarget = Select("", NoHandle, 0, <<>>)
    BY DEF NoTarget
  <2> QED BY <2>1, <2>2, SelectIs DEF PendingInv
<1>3. CASE Exit
  BY <1>0, <1>3 DEF Exit, PendingInv
<1>4. CASE Saves
  BY <1>0, <1>4, SavesKeep DEF PendingInv
<1>5. CASE Loads
  BY <1>0, <1>5, LoadsKeep DEF PendingInv
<1>6. CASE Stores
  BY <1>0, <1>6, StoresKeep DEF PendingInv
<1>7. CASE Edits
  BY <1>0, <1>7, EditsKeep DEF PendingInv
<1>8. CASE Close
  BY <1>0, <1>8 DEF Close, PendingInv
<1>9. CASE UNCHANGED vars
  BY <1>0, <1>9 DEF vars, PendingInv
<1> QED BY <1>1, <1>2, <1>3, <1>4, <1>5, <1>6, <1>7, <1>8, <1>9, StepIs

\* Selecting and cancelling pass each catalogue on or destroy it.
LEMMA OwnersStep ==
    ASSUME SessionInv, [Next]_vars
    PROVE  OwnersInv'
<1>0. /\ Owned(catalogs, target, pending) /\ PendingInv
      /\ catalogs \in [Handles -> Headers \cup {Free}]
  BY DEF SessionInv, OwnersInv, StatusInv
<1>a. /\ where # "select" => pending = NoTarget
      /\ NoTarget.parsed = NoHandle /\ NoHandle \notin Handles /\ Free \notin Headers
  BY <1>0, SelectIs, SessionAssumption DEF PendingInv
<1>b. \A x \in {target, pending} : x.parsed # NoHandle =>
         x.parsed \in Handles /\ catalogs[x.parsed] # Free
  <2>1. \A x \in {target, pending} : x.parsed # NoHandle =>
           x.parsed \in {y.parsed : y \in {z \in {target, pending} : z.parsed # NoHandle}}
    OBVIOUS
  <2> QED BY <1>0, <2>1 DEF Owned
<1>1. ASSUME NEW name \in Builtin \cup Headers, cmd_init(name)
      PROVE  OwnersInv'
  <2>1. where = "main" /\ target' = target
    BY <1>1 DEF cmd_init, Commands
  <2>2. pending = NoTarget
    BY <1>a, <2>1
  <2>3. CASE name \in Builtin /\ pending' = Select(name, NoHandle, 0, <<>>)
             /\ catalogs' = catalogs
    <3>1. pending'.parsed = NoHandle
      BY <2>3 DEF Select
    <3> QED BY <1>0, <1>a, <2>1, <2>2, <2>3, <3>1 DEF OwnersInv, Owned
  <2>4. ASSUME NEW h \in Handles, name \in Headers, catalogs[h] = Free,
               catalogs' = [catalogs EXCEPT ![h] = name],
               pending' = Select(name, h, 0, <<>>)
        PROVE  OwnersInv'
    <3>1. pending'.parsed = h /\ pending'.catalog = name
      BY <2>4 DEF Select
    <3>2. \A g \in Handles : catalogs'[g] = IF g = h THEN name ELSE catalogs[g]
      BY <1>0, <2>4
    <3>3. name # Free /\ h # NoHandle
      BY <1>a, <2>4
    <3>4. target.parsed # NoHandle => target.parsed # h /\ target.parsed \in Handles
      BY <1>b, <2>4
    <3>5. {g \in Handles : catalogs'[g] # Free} = {g \in Handles : catalogs[g] # Free} \cup {h}
      BY <3>2, <3>3
    <3>6. {x.parsed : x \in {y \in {target, pending} : y.parsed # NoHandle}} \cup {h}
             = {x.parsed : x \in {y \in {target, pending'} : y.parsed # NoHandle}}
      BY <1>a, <2>2, <3>1, <3>3
    <3>7. \A x \in {target, pending'} : x.parsed # NoHandle => catalogs'[x.parsed] = x.catalog
      BY <1>0, <3>1, <3>2, <3>4 DEF Owned
    <3> QED BY <1>0, <2>1, <3>1, <3>4, <3>5, <3>6, <3>7 DEF OwnersInv, Owned
  <2> QED BY <1>1, <2>3, <2>4 DEF cmd_init
\* One of the owners is left, with a catalogue or without.
<1>c. ASSUME NEW gone \in {target, pending}, NEW kept \in {target, pending},
             {gone, kept} = {target, pending}, gone = kept => kept.parsed = NoHandle,
             catalogs' = Destroyed(gone.parsed),
             target'.parsed = kept.parsed, target'.catalog = kept.catalog,
             pending' = NoTarget
      PROVE  OwnersInv'
  <2>1. gone.parsed # NoHandle => gone.parsed # kept.parsed
    BY <1>0, <1>c DEF Owned
  <2>2. \A g \in Handles : catalogs'[g] = IF g = gone.parsed THEN Free ELSE catalogs[g]
    BY <1>0, <1>a, <1>c DEF Destroyed
  <2>3. {g \in Handles : catalogs'[g] # Free}
           = {g \in Handles : catalogs[g] # Free} \ {gone.parsed}
    BY <2>2
  <2>4. {x.parsed : x \in {y \in {target, pending} : y.parsed # NoHandle}} \ {gone.parsed}
           = {x.parsed : x \in {y \in {target', pending'} : y.parsed # NoHandle}}
    BY <1>a, <1>c, <2>1
  <2>5. target'.parsed # NoHandle => catalogs'[target'.parsed] = target'.catalog
    <3>1. kept.parsed # NoHandle => catalogs[kept.parsed] = kept.catalog
                                    /\ kept.parsed \in Handles
      BY <1>0, <1>b, <1>c DEF Owned
    <3> QED BY <1>c, <2>1, <2>2, <3>1
  <2>6. pending'.parsed = NoHandle
    BY <1>a, <1>c
  <2> QED BY <1>0, <2>3, <2>4, <2>5, <2>6 DEF OwnersInv, Owned
<1>2. ASSUME NEW line \in Lines, select_descriptor(line)
      PROVE  OwnersInv'
  <2>1. pending' = NoTarget
    BY <1>2 DEF select_descriptor
  <2>2. CASE catalogs' = Destroyed(pending.parsed) /\ target' = target
    BY <1>0, <1>a, <1>c, <2>1, <2>2 DEF Owned
  <2>3. CASE \E i : ReplaceTarget(i)
    <3>1. catalogs' = Destroyed(target.parsed)
          /\ target'.parsed = pending.parsed /\ target'.catalog = pending.catalog
      <4>1. pending = Select(pending.catalog, pending.parsed, 0, <<>>)
        BY <1>0 DEF PendingInv
      <4> QED BY <2>3, <4>1 DEF ReplaceTarget, Select
    <3> QED BY <1>0, <1>a, <1>c, <2>1, <3>1 DEF Owned
  <2> QED BY <1>2, <2>2, <2>3 DEF select_descriptor, KeepTarget
<1>3. CASE CancelInit
  <2>1. catalogs' = Destroyed(pending.parsed) /\ target' = target /\ pending' = NoTarget
    BY <1>3 DEF CancelInit, KeepTarget
  <2> QED BY <1>0, <1>a, <1>c, <2>1 DEF Owned
<1>4. CASE Exit
  <2>1. catalogs' = Destroyed(target.parsed) /\ target' = NoTarget
        /\ pending' = pending /\ where = "main"
    BY <1>4 DEF Exit
  <2>2. pending = NoTarget
    BY <1>a, <2>1
  <2> QED BY <1>0, <1>a, <1>c, <2>1, <2>2 DEF Owned
<1>5. CASE UNCHANGED <<catalogs, pending, target.parsed, target.catalog>>
  <2>1. {x.parsed : x \in {y \in {target, pending} : y.parsed # NoHandle}}
           = {x.parsed : x \in {y \in {target', pending'} : y.parsed # NoHandle}}
    BY <1>5
  <2>2. target'.parsed # NoHandle => catalogs'[target'.parsed] = target'.catalog
    BY <1>0, <1>5 DEF Owned
  <2> QED BY <1>0, <1>5, <2>1, <2>2 DEF OwnersInv, Owned
<1>6. CASE Saves \/ Edits \/ Close \/ UNCHANGED vars
  <2>1. UNCHANGED <<catalogs, pending, target>>
    BY <1>6, SavesKeep, EditsKeep DEF Close, vars
  <2> QED BY <1>5, <2>1
<1>7. CASE Loads \/ Stores
  <2>1. \E new : target' = [target EXCEPT !.instance = new]
    BY <1>7 DEF Loads, cmd_loadjson, cmd_loadbin, Stores, patch_scalar, patch_hex_array, Store
  <2>2. target = Select(target.catalog, target.parsed, target.descriptor, target.instance)
    BY DEF SessionInv, TargetInv
  <2>3. target'.parsed = target.parsed /\ target'.catalog = target.catalog
    BY <2>1, <2>2 DEF Select
  <2> QED BY <1>5, <1>7, <2>3, LoadsKeep, StoresKeep
<1> QED BY <1>1, <1>2, <1>3, <1>4, <1>6, <1>7, StepIs

\* A change of the instance alone.
LEMMA InstanceAfter ==
    ASSUME SessionInv, Selected, NEW new, target' = [target EXCEPT !.instance = new]
    PROVE  /\ target' = Select(target.catalog, target.parsed, target.descriptor, new)
           /\ target'.catalog = target.catalog /\ target'.parsed = target.parsed
           /\ target'.descriptor = target.descriptor /\ target'.instance = new
           /\ Table' = Table /\ Size' = Size /\ Selected'
           /\ IsInstance(new, Size) => TargetInv'
<1>1. /\ target = Select(target.catalog, target.parsed, target.descriptor, target.instance)
      /\ target.catalog # "" /\ target.catalog \in Builtin \cup Headers
      /\ target.descriptor \in 1..Len(Table)
  BY TargetIs DEF SessionInv, TargetInv
<1>2. target' = Select(target.catalog, target.parsed, target.descriptor, new)
  BY <1>1 DEF Select
<1>3. /\ target'.catalog = target.catalog /\ target'.parsed = target.parsed
      /\ target'.descriptor = target.descriptor /\ target'.instance = new
  BY <1>2 DEF Select
<1>4. Table' = Table /\ Size' = Size /\ Selected'
  BY <1>3 DEF Table, Size, Selected
<1>5. IsInstance(new, Size) => TargetInv'
  BY <1>1, <1>2, <1>3, <1>4 DEF TargetInv
<1> QED BY <1>2, <1>3, <1>4, <1>5

\* What loading and entering a value make of the instance.
LEMMA ChangesMake ==
    ASSUME SessionInv, Loads \/ Stores
    PROVE  /\ Selected
           /\ \E new :
                 /\ target' = [target EXCEPT !.instance = new]
                 /\ IsInstance(new, Size)
                 /\ ~raw' => ~raw
                 /\ ~raw' /\ validate(Table, target.descriptor) = "OK"
                          /\ Whole(Table, target.descriptor, target.instance)
                       => Whole(Table, target.descriptor, new)
<1>1. Selected
  BY LoadsKeep, StoresKeep, TopIs
<1>2. /\ IsTable(Table) /\ target.descriptor \in 1..Len(Table)
      /\ Size \in Nat /\ IsInstance(target.instance, Size)
      /\ Size = Table[target.descriptor].size
  BY <1>1, TargetIs DEF SessionInv, Size
<1>3. CASE cmd_loadjson
  <2>1. IsGood(file.item)
    BY <1>3 DEF cmd_loadjson, SessionInv, FileInv
  <2>2. PICK new : new = AfterWrites(target.instance,
                            json_decode(Table, target.descriptor, file.item).value)
    OBVIOUS
  <2>3. target' = [target EXCEPT !.instance = new] /\ raw' = raw
    BY <1>3, <2>2 DEF cmd_loadjson
  <2>4. /\ IsInstance(new, Size)
        /\ validate(Table, target.descriptor) = "OK"
           /\ Whole(Table, target.descriptor, target.instance)
           => Whole(Table, target.descriptor, new)
    BY <1>2, <2>1, <2>2, DecodeKeeps
  <2> QED BY <1>1, <2>3, <2>4
<1>4. CASE cmd_loadbin
  <2>1. file.bytes \in Seq(Byte) /\ 0 \in Nat
    BY <1>4 DEF cmd_loadbin, SessionInv, FileInv
  <2>2. PICK new : new = Put(target.instance, 0, file.bytes)
    OBVIOUS
  <2>3. target' = [target EXCEPT !.instance = new] /\ raw'
    BY <1>4, <2>2 DEF cmd_loadbin
  <2>4. IsInstance(new, Size)
    BY <1>2, <2>1, <2>2, PutTyped
  <2> QED BY <1>1, <2>3, <2>4
<1>5. CASE Stores
  <2>1. PICK line \in Lines : patch_scalar(line) \/ patch_hex_array(line)
    BY <1>5 DEF Stores
  <2>2. PICK bytes : bytes = Entered(line)
    OBVIOUS
  <2>3. /\ where = "patch"
        /\ \/ Top.kind = "scalar"
           \/ Top.kind = "hex" /\ bytes_from_hex(Top.field.element_count, line.text)
        /\ Store(bytes)
    BY <2>1, <2>2 DEF patch_scalar, patch_hex_array, Enters, Entered
  <2>4. bytes # <<>>
    BY <2>3 DEF Store
  <2>5. PICK w \in FittingWrites(AllPlaces(Table, target.descriptor)) :
           w = Write(Top.address, bytes)
    BY <2>2, <2>3, <2>4, PatchFits
  <2>6. w.address = Top.address /\ w.bytes = bytes
        /\ Fits(AllPlaces(Table, target.descriptor), w)
    BY <2>5 DEF FittingWrites, Write
  <2>7. PICK new : new = Put(target.instance, w.address, w.bytes)
    OBVIOUS
  <2>8. target' = [target EXCEPT !.instance = new] /\ raw' = raw
    BY <2>3, <2>6, <2>7 DEF Store
  <2>9. Ranked(Table, target.descriptor, Len(Table))
    BY <2>3, TopIs
  <2>10. /\ IsInstance(new, Size)
         /\ Whole(Table, target.descriptor, target.instance)
               => Whole(Table, target.descriptor, new)
    BY <1>2, <2>6, <2>7, <2>9, PutKeeps
  <2> QED BY <1>1, <2>8, <2>10
<1> QED BY <1>3, <1>4, <1>5 DEF Loads

\* The new target that a structure is selected as.
LEMMA ReplaceMakes ==
    ASSUME SessionInv, NEW line \in Lines, Enters(line, "select"),
           NEW i, i = Chosen(Tables[pending.catalog], line), i # 0, ReplaceTarget(i)
    PROVE  /\ TargetInv' /\ target'.catalog # "" /\ Selected'
           /\ validate(Table', target'.descriptor) = "OK" =>
                 Whole(Table', target'.descriptor, target'.instance)
<1>1. /\ pending = Select(pending.catalog, pending.parsed, 0, <<>>)
      /\ pending.catalog # "" /\ pending.catalog \in Builtin \cup Headers
  BY DEF SessionInv, PendingInv, Enters
<1>2. PICK table : table = Tables[pending.catalog]
  OBVIOUS
<1>3. IsTable(table) /\ Len(table) \in Nat
  BY <1>1, <1>2, TablesAre, TableIs
<1>4. i \in 1..Len(table)
  <2>1. CASE line.int # NotNumber
    BY <1>2, <2>1 DEF Chosen
  <2>2. CASE line.int = NotNumber
    <3> DEFINE named == {j \in 1..Len(table) : table[j].name = line.name}
    <3>1. i = IF named = {} THEN 0 ELSE CHOOSE j \in named : TRUE
      BY <1>2, <2>2 DEF Chosen
    <3>2. i \in named
      BY <3>1
    <3> QED BY <3>2
  <2> QED BY <2>1, <2>2
<1>5. PICK zero : zero = [b \in 1..table[i].size |-> 0]
  OBVIOUS
<1>6. IsInstance(zero, table[i].size) /\ (validate(table, i) = "OK" => Whole(table, i, zero))
  BY <1>3, <1>4, <1>5, ZeroIsWhole
<1>7. target' = Select(pending.catalog, pending.parsed, i, zero)
  BY <1>1, <1>2, <1>5 DEF ReplaceTarget, Select
<1>8. /\ target'.catalog = pending.catalog /\ target'.parsed = pending.parsed
      /\ target'.descriptor = i /\ target'.instance = zero
  BY <1>7 DEF Select
<1>9. Table' = table /\ Size' = table[i].size /\ Selected'
  BY <1>2, <1>3, <1>4, <1>8 DEF Table, Size, Selected
<1>10. TargetInv'
  BY <1>1, <1>4, <1>6, <1>7, <1>8, <1>9 DEF TargetInv
<1> QED BY <1>1, <1>6, <1>8, <1>9, <1>10

\* The instance keeps the size of its structure.
LEMMA TargetStep ==
    ASSUME SessionInv, [Next]_vars
    PROVE  TargetInv'
<1>0. TargetInv
  BY DEF SessionInv
<1>1. CASE target' = target
  BY <1>0, <1>1 DEF TargetInv, Table, Size
<1>2. CASE \E line \in Lines : select_descriptor(line)
  <2>1. PICK line \in Lines : select_descriptor(line)
    BY <1>2
  <2>2. PICK i : i = Chosen(Tables[pending.catalog], line)
    OBVIOUS
  <2>3. Enters(line, "select") /\ i # 0 /\ (ReplaceTarget(i) \/ KeepTarget)
    BY <2>1, <2>2 DEF select_descriptor
  <2>4. KeepTarget => target' = target
    BY DEF KeepTarget
  <2> QED BY <1>1, <2>2, <2>3, <2>4, ReplaceMakes
<1>3. CASE Exit
  <2>1. target' = NoTarget
    BY <1>3 DEF Exit
  <2>2. NoTarget = Select("", NoHandle, 0, <<>>)
    BY DEF NoTarget
  <2> QED BY <2>1, <2>2, SelectIs DEF TargetInv
<1>4. CASE Loads \/ Stores
  <2>1. PICK new : target' = [target EXCEPT !.instance = new] /\ IsInstance(new, Size)
    BY <1>4, ChangesMake
  <2>2. Selected
    BY <1>4, ChangesMake
  <2> QED BY <2>1, <2>2, InstanceAfter
<1>5. CASE \/ \E name \in Builtin \cup Headers : cmd_init(name)
           \/ CancelInit \/ Saves \/ Edits \/ Close \/ UNCHANGED vars
  <2>1. target' = target
    BY <1>5, SavesKeep, EditsKeep DEF cmd_init, CancelInit, KeepTarget, Close, vars
  <2> QED BY <1>1, <2>1
<1> QED BY <1>2, <1>3, <1>4, <1>5, StepIs

\* It stays whole until a binary file is read.
LEMMA InstanceStep ==
    ASSUME SessionInv, [Next]_vars
    PROVE  InstanceInv'
<1>0. InstanceInv
  BY DEF SessionInv
<1>1. CASE UNCHANGED <<target, raw>>
  BY <1>0, <1>1 DEF InstanceInv, Selected, Table
<1>2. CASE \E line \in Lines : select_descriptor(line)
  <2>1. PICK line \in Lines : select_descriptor(line)
    BY <1>2
  <2>2. PICK i : i = Chosen(Tables[pending.catalog], line)
    OBVIOUS
  <2>3. Enters(line, "select") /\ i # 0 /\ (ReplaceTarget(i) \/ KeepTarget)
    BY <2>1, <2>2 DEF select_descriptor
  <2>4. KeepTarget => UNCHANGED <<target, raw>>
    BY DEF KeepTarget
  <2>5. ReplaceTarget(i) => InstanceInv'
    BY <2>2, <2>3, ReplaceMakes DEF InstanceInv
  <2> QED BY <1>1, <2>3, <2>4, <2>5
<1>3. CASE Exit
  <2>1. target'.descriptor = 0
    BY <1>3, SelectIs DEF Exit
  <2> QED BY <2>1 DEF InstanceInv, Selected
<1>4. CASE Loads \/ Stores
  <2>1. PICK new :
           /\ target' = [target EXCEPT !.instance = new]
           /\ ~raw' => ~raw
           /\ ~raw' /\ validate(Table, target.descriptor) = "OK"
                    /\ Whole(Table, target.descriptor, target.instance)
                 => Whole(Table, target.descriptor, new)
    BY <1>4, ChangesMake
  <2>2. Selected
    BY <1>4, ChangesMake
  <2>3. target'.descriptor = target.descriptor /\ target'.instance = new /\ Table' = Table
    BY <2>1, <2>2, InstanceAfter
  <2> QED BY <1>0, <2>1, <2>2, <2>3 DEF InstanceInv
<1>5. CASE \/ \E name \in Builtin \cup Headers : cmd_init(name)
           \/ CancelInit \/ Saves \/ Edits \/ Close \/ UNCHANGED vars
  <2>1. UNCHANGED <<target, raw>>
    BY <1>5, SavesKeep, EditsKeep DEF cmd_init, CancelInit, KeepTarget, Close, vars
  <2> QED BY <1>1, <2>1
<1> QED BY <1>2, <1>3, <1>4, <1>5, StepIs

\* What is saved can be loaded.
LEMMA FileStep ==
    ASSUME SessionInv, [Next]_vars
    PROVE  FileInv'
<1>0. FileInv
  BY DEF SessionInv
<1>1. CASE file' = file
  BY <1>0, <1>1 DEF FileInv
<1>2. CASE cmd_savejson
  <2>1. /\ IsTable(Table) /\ target.descriptor \in 1..Len(Table)
        /\ Size \in Nat /\ IsInstance(target.instance, Size)
        /\ Size = Table[target.descriptor].size
    BY <1>2, TargetIs DEF cmd_savejson, Command, SessionInv, Size
  <2>2. PICK json : json = json_encode(Table, target.descriptor, target.instance)
    OBVIOUS
  <2>3. json.code = "OK" /\ file' \in {Json(json.value), Torn}
    BY <1>2, <2>2 DEF cmd_savejson
  <2>4. IsGood(json.value)
    <3>1. validate(Table, target.descriptor) = "OK"
      BY <2>2, <2>3 DEF json_encode, Result
    <3>2. Ranked(Table, target.descriptor, Len(Table)) /\ Len(Table) \in Nat
      BY <2>1, <3>1, RankedTop, TableIs
    <3>3. HasBytes(target.instance, 0, Table[target.descriptor].size)
      BY <2>1 DEF HasBytes, IsInstance, Bytes
    <3>4. json = struct_to_json(Table, target.instance)[Len(Table)][target.descriptor][0]
      BY <2>2, <3>1 DEF json_encode
    <3>5. Len(Table) \in 0..Len(Table)
      BY <3>2
    <3> QED BY <2>1, <3>2, <3>3, <3>4, <3>5, SavedIsGood
  <2>5. CASE file' = Json(json.value)
    <3>1. file'.type = "json" /\ file'.item = json.value
      BY <2>5 DEF Json
    <3> QED BY <2>4, <3>1 DEF FileInv
  <2>6. CASE file' = Torn
    <3>1. file'.type = "torn"
      BY <2>6 DEF Torn
    <3> QED BY <3>1 DEF FileInv
  <2> QED BY <2>3, <2>5, <2>6
<1>3. CASE cmd_savebin
  <2>1. Size \in Nat /\ IsInstance(target.instance, Size)
    BY <1>3, TargetIs DEF cmd_savebin, Command, SessionInv
  <2>2. PICK written \in 0..Size : file' = Binary(SubSeq(target.instance, 1, written))
    BY <1>3, <2>1 DEF cmd_savebin
  <2>3. target.instance \in Seq(Byte)
    BY <2>1 DEF IsInstance, IsSeq
  <2>4. SubSeq(target.instance, 1, written) \in Seq(Byte)
    BY <2>1, <2>3 DEF IsInstance
  <2>5. file'.type = "binary" /\ file'.bytes = SubSeq(target.instance, 1, written)
    BY <2>2 DEF Binary
  <2> QED BY <2>4, <2>5 DEF FileInv
<1>4. CASE ~Saves
  <2>1. file' = file
    BY <1>4, StepIs, LoadsKeep, StoresKeep, EditsKeep
       DEF cmd_init, select_descriptor, CancelInit, Exit, Close, vars
  <2> QED BY <1>1, <2>1
<1> QED BY <1>2, <1>3, <1>4 DEF Saves

-----------------------------------------------------------------------------
(* The menus and prompts that the editor opens                             *)

\* The same structure in use, the same table.
LEMMA SameTarget ==
    ASSUME target'.catalog = target.catalog, target'.descriptor = target.descriptor
    PROVE  Table' = Table /\ (Selected' <=> Selected)
BY DEF Table, Selected

\* The menu or prompt that opens for an element.
LEMMA OpensIs ==
    ASSUME NEW table, IsTable(table), NEW t, Ranked(table, t, Len(table)),
           NEW f, NEW a, NEW m, ElementAt(table, t, f, a, m),
           NEW path, NEW whole \in BOOLEAN, whole => m = 1,
           NEW frame, frame = Editor(f, a, path, whole)
    PROVE  /\ Inside(table, t, frame) /\ frame.path = path
           /\ /\ IsPath(path) /\ path # <<>>
              /\ resolve_path(table, t, path) = At("OK", f, a)
              /\ whole => path[Len(path)].index = NoIndex
              /\ ~whole => path[Len(path)].index # NoIndex
              => Shown(table, t, frame)
<1>1. /\ Inside(table, t, frame)
      /\ frame.field = f /\ frame.address = a /\ frame.path = path
      /\ frame.kind = "struct" => f.kind = "STRUCT" /\ (f.element_count <= 1 \/ ~whole)
      /\ frame.kind = "array" => whole
  BY EditorIs
<1> QED BY <1>1 DEF Shown

\* The path of "patch" leads to the place that is opened.
LEMMA PathOpens ==
    ASSUME SessionInv, NEW path \in Paths, patch_path_interactive(path)
    PROVE  EditorInv'
<1>1. PICK table : table = Table
  OBVIOUS
<1>2. PICK t : t = target.descriptor
  OBVIOUS
<1>3. PICK at : at = path_resolve(table, t, path)
  OBVIOUS
<1>4. PICK whole \in BOOLEAN : whole <=> ~path_has_terminal_index(path)
  OBVIOUS
<1>5. PICK frame : frame = Editor(at.field, at.address, path, whole)
  OBVIOUS
<1>6. at.code = "OK" /\ Selected /\ Begin(frame)
  <2>1. (~path_has_terminal_index(path)) = whole
    BY <1>4 DEF path_has_terminal_index
  <2> QED BY <1>1, <1>2, <1>3, <1>5, <2>1 DEF patch_path_interactive, Command
<1>7. path # <<>> /\ validate(table, t) = "OK" /\ at = resolve_path(table, t, path)
  BY <1>3, <1>6, AtIs DEF path_resolve
<1>8. IsTable(table) /\ Ranked(table, t, Len(table))
  BY <1>1, <1>2, <1>6, <1>7, TargetIs, RankedTop DEF SessionInv
<1>9. IsPath(path)
  <2>1. /\ IsSeq(path)
        /\ \A n \in 1..Len(path) :
              /\ path[n] = Segment(path[n].name, path[n].index)
              /\ path[n].index \in Nat \cup {NoIndex}
    BY SessionAssumption
  <2>2. Len(path) # 0
    BY <1>7, <2>1 DEF IsSeq
  <2> QED BY <2>1, <2>2 DEF IsPath
<1>10. at = At("OK", at.field, at.address)
  BY <1>6, <1>7, <1>8, <1>9, PathLeads
<1>11. PICK m : ElementAt(table, t, at.field, at.address, m)
                /\ (path[Len(path)].index = NoIndex => m = 1)
  BY <1>6, <1>7, <1>8, <1>9, PathLeads
<1>12. /\ whole => path[Len(path)].index = NoIndex
       /\ ~whole => path[Len(path)].index # NoIndex
  BY <1>4 DEF path_has_terminal_index
<1>13. Inside(table, t, frame) /\ Shown(table, t, frame) /\ frame.path = path
  <2>1. whole => m = 1
    BY <1>11, <1>12
  <2>2. resolve_path(table, t, path) = At("OK", at.field, at.address)
    BY <1>7, <1>10
  <2>3. PICK f : f = at.field
    OBVIOUS
  <2>4. PICK a : a = at.address
    OBVIOUS
  <2>5. /\ ElementAt(table, t, f, a, m) /\ frame = Editor(f, a, path, whole)
        /\ resolve_path(table, t, path) = At("OK", f, a)
    BY <1>5, <1>11, <2>2, <2>3, <2>4
  <2> QED BY <1>7, <1>8, <1>9, <1>12, <2>1, <2>5, OpensIs
<1>15. frames' = <<frame>> /\ where' = "patch" /\ target' = target
  BY <1>6 DEF Begin
<1>16. FrameInv(Table', target'.descriptor, frame, 1) /\ Selected' /\ validate(Table', target'.descriptor) = "OK"
  BY <1>1, <1>2, <1>6, <1>7, <1>13, <1>15, SameTarget DEF FrameInv
<1>17. IsSeq(<<frame>>) /\ <<frame>> # <<>> /\ Len(<<frame>>) = 1 /\ <<frame>>[1] = frame
  BY DEF IsSeq
<1> QED BY <1>15, <1>16, <1>17 DEF EditorInv

\* The editor of the whole structure.
LEMMA RootOpens ==
    ASSUME SessionInv, patch_interactive
    PROVE  EditorInv'
<1>1. PICK table : table = Table
  OBVIOUS
<1>2. PICK t : t = target.descriptor
  OBVIOUS
<1>3. PICK root : root = [name |-> "", kind |-> "STRUCT", nested |-> t]
  OBVIOUS
<1>4. PICK frame : frame = Frame("struct", root, 0, <<>>)
  OBVIOUS
<1>5. validate(table, t) = "OK" /\ Selected /\ Begin(frame)
  BY <1>1, <1>2, <1>3, <1>4 DEF patch_interactive, Command
<1>6. IsTable(table) /\ Ranked(table, t, Len(table))
  BY <1>1, <1>2, <1>5, TargetIs, RankedTop DEF SessionInv
<1>7. frame.kind = "struct" /\ frame.field.nested = t /\ frame.address = 0
      /\ frame.path = <<>>
  BY <1>3, <1>4 DEF Frame
<1>8. Inside(table, t, frame)
  BY <1>6, <1>7, StructAtTop DEF Inside
<1>9. Shown(table, t, frame)
  BY <1>7 DEF Shown
<1>11. frames' = <<frame>> /\ where' = "patch" /\ target' = target
  BY <1>5 DEF Begin
<1>12. FrameInv(Table', target'.descriptor, frame, 1) /\ Selected' /\ validate(Table', target'.descriptor) = "OK"
  BY <1>1, <1>2, <1>5, <1>8, <1>9, <1>11, SameTarget DEF FrameInv
<1>13. IsSeq(<<frame>>) /\ <<frame>> # <<>> /\ Len(<<frame>>) = 1 /\ <<frame>>[1] = frame
  BY DEF IsSeq
<1> QED BY <1>11, <1>12, <1>13 DEF EditorInv

\* A call from one that is under way.
LEMMA PushKeeps ==
    ASSUME SessionInv, where = "patch", NEW frame, Push(frame),
           Inside(Table, target.descriptor, frame),
           Distinct(Table, target.descriptor) =>
              Shown(Table, target.descriptor, frame) /\ frame.path # <<>>
    PROVE  EditorInv'
<1>1. /\ IsSeq(frames) /\ Len(frames) \in Nat
      /\ Selected /\ validate(Table, target.descriptor) = "OK"
      /\ \A n \in 1..Len(frames) : FrameInv(Table, target.descriptor, frames[n], n)
  BY TopIs DEF SessionInv, EditorInv
<1>2. frames' = Append(frames, frame) /\ target' = target /\ where' = where
  BY DEF Push
<1>3. /\ IsSeq(frames') /\ frames' # <<>> /\ Len(frames') = Len(frames) + 1
      /\ \A n \in 1..Len(frames) : frames'[n] = frames[n]
      /\ frames'[Len(frames) + 1] = frame
  BY <1>1, <1>2, AppendIs
<1>4. \A n : FrameInv(Table, target.descriptor, frame, n)
  BY DEF FrameInv
<1>5. \A n \in 1..Len(frames') : FrameInv(Table, target.descriptor, frames'[n], n)
  BY <1>1, <1>3, <1>4
<1>6. Table' = Table /\ (Selected' <=> Selected)
  BY <1>2, SameTarget
<1>7. /\ Selected' /\ validate(Table', target'.descriptor) = "OK"
      /\ \A n \in 1..Len(frames') : FrameInv(Table', target'.descriptor, frames'[n], n)
  BY <1>1, <1>2, <1>5, <1>6
<1> QED BY <1>2, <1>3, <1>7 DEF EditorInv

\* A field of the structure whose menu is shown.
LEMMA FieldOpens ==
    ASSUME SessionInv, NEW line \in Lines, patch_struct(line)
    PROVE  EditorInv'
<1>1. PICK table : table = Table
  OBVIOUS
<1>2. PICK t : t = target.descriptor
  OBVIOUS
<1>3. PICK i : i = Top.field.nested
  OBVIOUS
<1>4. PICK d : d = table[i]
  OBVIOUS
<1>5. PICK base : base = Top.address
  OBVIOUS
<1>6. PICK k : k = IF line.int = NotNumber THEN find_field_by_name(d, line.name)
                   ELSE IF line.int \in 1..Len(d.fields) THEN line.int ELSE 0
  OBVIOUS
<1>7. PICK f : f = d.fields[k]
  OBVIOUS
<1>8. PICK a : a = element_address(f, base, 0)
  OBVIOUS
<1>9. PICK path : path = append_field_path(Top.path, f.name)
  OBVIOUS
<1>a. PICK whole \in BOOLEAN : whole
  OBVIOUS
<1>10. PICK frame : frame = Editor(f, a, path, whole)
  OBVIOUS
<1>11. where = "patch" /\ Top.kind = "struct" /\ k # 0 /\ Push(frame)
  <2>1. whole = TRUE
    BY <1>a
  <2> QED BY <2>1, <1>1, <1>3, <1>4, <1>5, <1>6, <1>7, <1>8, <1>9, <1>10 DEF patch_struct, Enters
<1>12. IsTable(table) /\ Ranked(table, t, Len(table)) /\ Inside(table, t, Top)
  BY <1>1, <1>2, <1>11, TopIs DEF FrameInv
<1>13. PICK n : StructAt(table, t, i, n, base)
  BY <1>3, <1>5, <1>11, <1>12 DEF Inside
<1>14. Len(table) \in Nat /\ n \in 0..Len(table) /\ Ranked(table, i, n)
       /\ i \in 1..Len(table) /\ i \in Reached(table, {t}) /\ Len(d.fields) \in Nat
  BY <1>4, <1>12, <1>13, TableIs DEF StructAt, Ranked
<1>15. k \in 1..Len(d.fields)
  <2>1. CASE line.int = NotNumber
    <3> DEFINE found == {j \in 1..Len(d.fields) : d.fields[j].name = line.name}
    <3>1. k = IF Cardinality(found) = 1 THEN CHOOSE j \in found : TRUE ELSE 0
      BY <1>6, <2>1 DEF find_field_by_name
    <3>2. found # {}
      BY <1>11, <3>1, FS_EmptySet
    <3>3. k \in found
      BY <1>11, <3>1, <3>2
    <3> QED BY <3>3
  <2>2. CASE line.int # NotNumber
    BY <1>6, <1>11, <2>2
  <2> QED BY <2>1, <2>2
<1>16. ElementAt(table, t, f, a, 1)
  <2>1. IsField(table, f)
    BY <1>4, <1>7, <1>12, <1>14, <1>15, FieldsOf
  <2>2. f.element_count \in Nat /\ f.element_count # 0
    BY <1>12, <2>1, FieldIs DEF Natural
  <2>3. 1 \in 1..f.element_count /\ a = element_address(f, base, 1 - 1)
    BY <1>8, <2>2
  <2>4. ElementIn(table, i, base, f, a, 1)
    BY <1>4, <1>7, <1>15, <2>3 DEF ElementIn
  <2> QED BY <1>13, <2>4 DEF ElementAt
<1>b. PICK m : m = 1
  OBVIOUS
<1>c. ElementAt(table, t, f, a, m) /\ (whole => m = 1)
  BY <1>16, <1>b
<1>17. Inside(table, t, frame) /\ frame.path = path
  BY <1>10, <1>12, <1>c, OpensIs
<1>18. ASSUME Distinct(table, t)
       PROVE  Shown(table, t, frame) /\ frame.path # <<>>
  <2>1. \A j \in 1..Len(d.fields) : d.fields[j].name = d.fields[k].name => j = k
    BY <1>1, <1>2, <1>4, <1>14, <1>15, <1>18 DEF Distinct
  <2>2. Shown(table, t, Top)
    BY <1>1, <1>2, <1>11, <1>18, TopIs DEF FrameInv
  <2>3. /\ IsPath(path) /\ path # <<>>
        /\ resolve_path(table, t, path) = At("OK", f, a)
        /\ path[Len(path)].index = NoIndex
    <3>1. PICK top : top = Top
      OBVIOUS
    <3>2. top.kind = "struct" /\ Shown(table, t, top) /\ d = table[top.field.nested]
      BY <1>3, <1>4, <1>11, <2>2, <3>1
    <3>3. FieldLeads(table, t, top, d, k)
      BY <1>12, <1>14, <1>15, <2>1, <3>2, FieldShown
    <3> QED BY <1>5, <1>7, <1>8, <1>9, <3>1, <3>3 DEF FieldLeads
  <2>4. path # <<>> /\ (whole => path[Len(path)].index = NoIndex)
        /\ (~whole => path[Len(path)].index # NoIndex)
    BY <1>a, <2>3
  <2> QED BY <1>10, <1>12, <1>c, <1>17, <2>3, <2>4, OpensIs
<1> QED BY <1>1, <1>2, <1>11, <1>17, <1>18, PushKeeps

\* An element of the array whose menu is shown.
LEMMA ElementOpens ==
    ASSUME SessionInv, NEW line \in Lines, patch_array_field(line)
    PROVE  EditorInv'
<1>1. PICK table : table = Table
  OBVIOUS
<1>2. PICK t : t = target.descriptor
  OBVIOUS
<1>3. PICK f : f = Top.field
  OBVIOUS
<1>4. PICK index : index = line.int
  OBVIOUS
<1>5. PICK a : a = Top.address + index * f.element_size
  OBVIOUS
<1>6. PICK path : path = append_index_path(Top.path, index)
  OBVIOUS
<1>a. PICK whole \in BOOLEAN : ~whole
  OBVIOUS
<1>7. PICK frame : frame = Editor(f, a, path, whole)
  OBVIOUS
<1>8. /\ where = "patch" /\ Top.kind = "array" /\ index \in 0..(f.element_count - 1)
      /\ Push(frame)
  <2>1. frame = patch_element(f, a, path)
    BY <1>a, <1>7 DEF Editor
  <2> QED BY <1>3, <1>4, <1>5, <1>6, <2>1 DEF patch_array_field, Enters, ArrayElement
<1>9. IsTable(table) /\ Ranked(table, t, Len(table)) /\ Inside(table, t, Top)
  BY <1>1, <1>2, <1>8, TopIs DEF FrameInv
<1>10. ElementAt(table, t, f, Top.address, 1) /\ is_array(f)
  BY <1>3, <1>8, <1>9 DEF Inside
<1>11. /\ IsField(table, f)
       /\ \A l \in 1..f.element_count :
             ElementAt(table, t, f, Top.address + (l - 1) * f.element_size, l)
  BY <1>9, <1>10, ElementAtIs
<1>12. ElementAt(table, t, f, a, index + 1)
  <2>1. f.element_count \in Nat
    BY <1>9, <1>11, FieldIs DEF Natural
  <2>2. index + 1 \in 1..f.element_count /\ (index + 1) - 1 = index
    BY <1>8, <2>1
  <2>3. ElementAt(table, t, f, Top.address + ((index + 1) - 1) * f.element_size, index + 1)
    BY <1>11, <2>2
  <2> QED BY <1>5, <2>2, <2>3
<1>13. Inside(table, t, frame) /\ frame.path = path
  BY <1>a, <1>7, <1>9, <1>12, OpensIs
<1>14. ASSUME Distinct(table, t)
       PROVE  Shown(table, t, frame) /\ frame.path # <<>>
  <2>1. Shown(table, t, Top)
    BY <1>1, <1>2, <1>8, <1>14, TopIs DEF FrameInv
  <2>2. f.kind # "CHAR_ARRAY"
    BY <1>10 DEF is_array
  <2>3. /\ IsPath(path) /\ path # <<>>
        /\ resolve_path(table, t, path) = At("OK", f, a)
        /\ path[Len(path)].index = index
    <3>1. PICK top : top = Top
      OBVIOUS
    <3>2. /\ top.kind = "array" /\ Shown(table, t, top) /\ top.field.kind # "CHAR_ARRAY"
          /\ IsField(table, top.field) /\ index \in 0..(top.field.element_count - 1)
      BY <1>3, <1>8, <1>11, <2>1, <2>2, <3>1
    <3>3. LET q == append_index_path(top.path, index)
              b == top.address + index * top.field.element_size
          IN
          /\ IsPath(q) /\ q # <<>>
          /\ resolve_path(table, t, q) = At("OK", top.field, b)
          /\ q[Len(q)].index = index
      BY <1>9, <3>2, IndexShown
    <3> QED BY <1>3, <1>5, <1>6, <3>1, <3>3
  <2>4. path[Len(path)].index # NoIndex
    BY <1>8, <2>3 DEF NoIndex
  <2> QED BY <1>a, <1>7, <1>9, <1>12, <1>13, <2>3, <2>4, OpensIs
<1> QED BY <1>1, <1>2, <1>8, <1>13, <1>14, PushKeeps

\* A call that returns.
LEMMA ReturnKeeps ==
    ASSUME SessionInv, where = "patch", Return \/ ReturnAll,
           target'.catalog = target.catalog, target'.descriptor = target.descriptor
    PROVE  EditorInv'
<1>1. /\ IsSeq(frames) /\ frames # <<>> /\ Len(frames) \in Nat \ {0}
      /\ Selected /\ validate(Table, target.descriptor) = "OK"
      /\ \A n \in 1..Len(frames) : FrameInv(Table, target.descriptor, frames[n], n)
  BY TopIs DEF SessionInv, EditorInv
<1>2. CASE ReturnAll
  <2>1. IsSeq(<<>>)
    BY DEF IsSeq
  <2> QED BY <1>2, <2>1 DEF ReturnAll, EditorInv
<1>3. CASE Return
  <2>1. frames' = Front(frames) /\ where' = IF Len(frames) = 1 THEN "main" ELSE "patch"
    BY <1>3 DEF Return
  <2>2. /\ IsSeq(frames') /\ Len(frames') = Len(frames) - 1
        /\ frames' = <<>> <=> Len(frames) = 1
        /\ \A n \in 1..(Len(frames) - 1) : frames'[n] = frames[n]
    BY <1>1, <2>1, FrontIs
  <2>3. \A n \in 1..Len(frames') : FrameInv(Table, target.descriptor, frames'[n], n)
    BY <1>1, <2>2
  <2>4. Table' = Table /\ (Selected' <=> Selected)
    BY SameTarget
  <2>5. /\ Selected' /\ validate(Table', target'.descriptor) = "OK"
        /\ \A n \in 1..Len(frames') : FrameInv(Table', target'.descriptor, frames'[n], n)
    BY <1>1, <2>3, <2>4
  <2> QED BY <2>1, <2>2, <2>5 DEF EditorInv
<1> QED BY <1>2, <1>3

\* The editor stays within the structure, at what it shows.
LEMMA EditorStep ==
    ASSUME SessionInv, [Next]_vars
    PROVE  EditorInv'
<1>0. EditorInv
  BY DEF SessionInv
<1>1. CASE where # "patch" /\ where' # "patch" /\ frames' = frames
  <2>1. frames = <<>> /\ IsSeq(frames)
    BY <1>0, <1>1 DEF EditorInv
  <2> QED BY <1>1, <2>1 DEF EditorInv
<1>2. CASE \/ \E name \in Builtin \cup Headers : cmd_init(name)
           \/ \E line \in Lines : select_descriptor(line)
           \/ CancelInit \/ Exit \/ Saves \/ Loads
  <2>1. where # "patch" /\ where' # "patch" /\ frames' = frames
    BY <1>2, SavesKeep, LoadsKeep
       DEF cmd_init, Commands, select_descriptor, Enters, CancelInit, Exit
  <2> QED BY <1>1, <2>1
<1>3. CASE Stores
  <2>1. where = "patch" /\ Return
    BY <1>3, StoresKeep DEF Stores, patch_scalar, patch_hex_array, Store
  <2>2. PICK new : target' = [target EXCEPT !.instance = new]
    BY <1>3, ChangesMake
  <2>3. Selected
    BY <1>3, ChangesMake
  <2>4. target'.catalog = target.catalog /\ target'.descriptor = target.descriptor
    BY <2>2, <2>3, InstanceAfter
  <2> QED BY <2>1, <2>4, ReturnKeeps
<1>4. CASE patch_interactive
  BY <1>4, RootOpens
<1>5. CASE \E path \in Paths : patch_path_interactive(path)
  BY <1>5, PathOpens
<1>6. CASE \E line \in Lines : patch_struct(line)
  BY <1>6, FieldOpens
<1>7. CASE \E line \in Lines : patch_array_field(line)
  BY <1>7, ElementOpens
<1>8. CASE GoBack
  BY <1>8, ReturnKeeps DEF GoBack
<1>9. CASE \E code \in {"EOF", "CANCELED"} : CancelPatch(code)
  <2>1. where = "patch" /\ (Return \/ ReturnAll) /\ target' = target
    BY <1>9 DEF CancelPatch, Unwind
  <2> QED BY <2>1, ReturnKeeps
<1>10. CASE Close \/ UNCHANGED vars
  <2>1. UNCHANGED <<frames, where, target>>
    BY <1>10 DEF Close, vars
  <2> QED BY <1>0, <2>1, SameTarget DEF EditorInv
<1> QED BY <1>2, <1>3, <1>4, <1>5, <1>6, <1>7, <1>8, <1>9, <1>10, StepIs DEF Edits
-----------------------------------------------------------------------------
(* The theorems                                                            *)

\* The session begins so,
LEMMA InitInv ==
    ASSUME Init
    PROVE  SessionInv
<1>1. /\ target = NoTarget /\ pending = NoTarget /\ where = "main" /\ frames = <<>>
      /\ catalogs = [h \in Handles |-> Free] /\ file \in Files
      /\ stdin = "open" /\ raw = FALSE /\ changes = 0
  BY DEF Init
<1>2. NoTarget = Select("", NoHandle, 0, <<>>) /\ NoTarget.catalog = ""
      /\ NoTarget.parsed = NoHandle /\ NoTarget.descriptor = 0
  BY SelectIs DEF NoTarget
<1>3. StatusInv
  <2>1. changes \in 0..MaxChanges
    <3>1. MaxChanges \in Nat
      BY SessionAssumption
    <3> QED BY <1>1, <3>1
  <2>2. catalogs \in [Handles -> Headers \cup {Free}]
    BY <1>1
  <2>3. /\ where \in {"main", "select", "patch", "exited"}
        /\ stdin \in {"open", "closed"} /\ raw \in BOOLEAN
    BY <1>1
  <2> QED BY <2>1, <2>2, <2>3 DEF StatusInv
<1>4. TargetInv
  BY <1>1, <1>2, SelectIs DEF TargetInv
<1>5. PendingInv
  BY <1>1, <1>2 DEF PendingInv
<1>6. OwnersInv
  BY <1>1, <1>2 DEF OwnersInv, Owned
<1>7. FileInv
  <2>1. Closed(Items)
    BY SessionAssumption DEF Closed
  <2>2. /\ file.type = "json" => file.item \in Items
        /\ file.type = "binary" => file.bytes \in Seq(Byte)
    BY <1>1, SessionAssumption
  <2> QED BY <2>1, <2>2 DEF FileInv, IsGood
<1>8. EditorInv
  <2>1. IsSeq(<<>>)
    BY DEF IsSeq
  <2> QED BY <1>1, <2>1 DEF EditorInv
<1>9. InstanceInv
  BY <1>1, <1>2 DEF InstanceInv, Selected
<1> QED BY <1>3, <1>4, <1>5, <1>6, <1>7, <1>8, <1>9 DEF SessionInv

\* and every step keeps it.
LEMMA StepInv ==
    ASSUME SessionInv, [Next]_vars
    PROVE  SessionInv'
<1>1. StatusInv' /\ TargetInv' /\ PendingInv' /\ OwnersInv'
  BY StatusStep, TargetStep, PendingStep, OwnersStep
<1>2. FileInv' /\ EditorInv' /\ InstanceInv'
  BY FileStep, EditorStep, InstanceStep
<1> QED BY <1>1, <1>2 DEF SessionInv

\* In every state of a session: one owner for each catalogue of a parsed
\* header, an instance of the size of its structure, whole unless bytes were
\* loaded, a file that can be loaded, and an editor within the structure in
\* use, at the places that its paths lead to.
THEOREM SessionIsSound == Spec => []SessionInv
<1>1. Init => SessionInv
  BY InitInv
<1>2. SessionInv /\ [Next]_vars => SessionInv'
  BY StepInv
<1> QED BY <1>1, <1>2, PTL DEF Spec

\* Every variable is of its type, and where the session waits agrees with what
\* is selected and edited (sample_target, cmd_init, patch.c).
THEOREM SessionTyped == Spec => []TypeOK
<1>1. SessionInv => TypeOK
  <2> SUFFICES ASSUME SessionInv PROVE TypeOK
    OBVIOUS
  <2>1. StatusInv /\ (where = "patch" <=> frames # <<>>)
        /\ (where = "select" <=> pending.catalog # "")
    BY DEF SessionInv, EditorInv, PendingInv
  <2>2. Selected <=> target.catalog # ""
    BY TargetIs DEF SessionInv
  <2>3. CASE Selected
    <3>1. Size \in Nat /\ IsInstance(target.instance, Size)
      BY <2>3, TargetIs DEF SessionInv
    <3>2. Len(target.instance) = Size
          /\ \A b \in 1..Len(target.instance) : target.instance[b] \in Byte
      BY <3>1 DEF IsInstance
    <3> QED BY <2>1, <2>2, <2>3, <3>2 DEF StatusInv, TypeOK
  <2>4. CASE ~Selected
    <3>1. target = NoTarget
      BY <2>2, <2>4 DEF SessionInv, TargetInv
    <3>2. target.instance = <<>>
      BY <3>1, SelectIs
    <3>3. Len(target.instance) = 0
      BY <3>2
    <3>4. \A b \in 1..Len(target.instance) : target.instance[b] \in Byte
      BY <3>3
    <3> QED BY <2>1, <2>2, <2>4, <3>3, <3>4 DEF StatusInv, TypeOK
  <2> QED BY <2>3, <2>4
<1> QED BY <1>1, SessionIsSound, PTL

\* The catalogues of parsed headers that exist are those of the target and of
\* the structure that is being selected (cmd_init, main): none leaks, and none
\* that is in use is destroyed.
THEOREM CatalogsAreOwned == Spec => []CatalogsOwned
<1>1. SessionInv => CatalogsOwned
  BY DEF SessionInv, OwnersInv, Owned, CatalogsOwned
<1> QED BY <1>1, SessionIsSound, PTL

\* Where names are unique, the path that each menu or prompt of the editor
\* shows leads to the place that it edits (patch.c, path.c).
THEOREM PathsShowTargets == Spec => []PathShowsTarget
<1>1. SessionInv => PathShowsTarget
  <2> SUFFICES ASSUME SessionInv, frames # <<>>, DistinctNames, NEW n \in 1..Len(frames)
               PROVE  LET frame == frames[n]
                          at == resolve_path(Table, target.descriptor, frame.path)
                      IN  IF frame.path = <<>> THEN n = 1 /\ frame.address = 0
                          ELSE at = At("OK", frame.field, frame.address)
    BY DEF PathShowsTarget
  <2>1. FrameInv(Table, target.descriptor, frames[n], n)
    BY DEF SessionInv, EditorInv
  <2>2. Distinct(Table, target.descriptor)
    BY DEF DistinctNames, Distinct
  <2>3. Shown(Table, target.descriptor, frames[n]) /\ (frames[n].path = <<>> => n = 1)
    BY <2>1, <2>2 DEF FrameInv
  <2> QED BY <2>3 DEF Shown
<1> QED BY <1>1, SessionIsSound, PTL

\* A value that is entered changes no byte but those of the place whose path
\* the prompt shows (patch_scalar, patch_hex_array).
THEOREM EditsAreShown == Spec => EditsWhatIsShown
<1> DEFINE Edited ==
      where = "patch" /\ target' # target /\ DistinctNames =>
          LET at == resolve_path(Table, target.descriptor, Top.path)
          IN  /\ at.code = "OK"
              /\ \A b \in 1..Size : target'.instance[b] # target.instance[b] =>
                    b - 1 \in Extent(at.field, at.address, Top.kind = "hex")
<1>1. SessionInv /\ [Next]_vars => Edited
  <2> SUFFICES ASSUME SessionInv, [Next]_vars, where = "patch", target' # target, DistinctNames
               PROVE  LET at == resolve_path(Table, target.descriptor, Top.path)
                      IN  /\ at.code = "OK"
                          /\ \A b \in 1..Size : target'.instance[b] # target.instance[b] =>
                                b - 1 \in Extent(at.field, at.address, Top.kind = "hex")
    OBVIOUS
  <2>1. Stores
    <3>1. /\ \A name : ~cmd_init(name)
          /\ \A line \in Lines : ~select_descriptor(line)
          /\ ~CancelInit /\ ~Exit /\ ~Saves /\ ~Loads
      BY SavesKeep, LoadsKeep
         DEF cmd_init, Commands, select_descriptor, Enters, CancelInit, Exit
    <3>2. ~Edits /\ ~Close /\ ~UNCHANGED vars
      BY EditsKeep DEF Close, vars
    <3> QED BY <3>1, <3>2, StepIs
  <2>2. PICK line \in Lines : patch_scalar(line) \/ patch_hex_array(line)
    BY <2>1 DEF Stores
  <2>3. PICK bytes : bytes = Entered(line)
    OBVIOUS
  <2>4. /\ \/ Top.kind = "scalar"
           \/ Top.kind = "hex" /\ bytes_from_hex(Top.field.element_count, line.text)
        /\ Store(bytes)
    BY <2>2, <2>3 DEF patch_scalar, patch_hex_array, Entered
  <2>5. bytes # <<>> /\ target' = [target EXCEPT !.instance = Put(@, Top.address, bytes)]
    BY <2>4 DEF Store
  <2>6. /\ bytes \in Seq(Byte) /\ Top.address \in Nat
        /\ \A b : b \in Nat /\ b - Top.address \in 1..Len(bytes) =>
              b - 1 \in Extent(Top.field, Top.address, Top.kind = "hex")
    BY <2>3, <2>4, <2>5, PatchFits
  <2>7. Selected /\ FrameInv(Table, target.descriptor, Top, Len(frames))
    BY TopIs
  <2>8. Shown(Table, target.descriptor, Top)
    <3>1. Distinct(Table, target.descriptor)
      BY DEF DistinctNames, Distinct
    <3> QED BY <2>7, <3>1 DEF FrameInv
  <2>9. resolve_path(Table, target.descriptor, Top.path) = At("OK", Top.field, Top.address)
    <3>1. Top.kind # "struct"
      BY <2>4
    <3> QED BY <2>8, <3>1 DEF Shown
  <2>10. Size \in Nat /\ IsInstance(target.instance, Size)
    BY <2>7, TargetIs DEF SessionInv
  <2>11. target'.instance = Put(target.instance, Top.address, bytes)
    BY <2>5, <2>7, InstanceAfter
  <2>12. Len(target.instance) = Size
    BY <2>10 DEF IsInstance
  <2>13. ASSUME NEW b \in 1..Size, target'.instance[b] # target.instance[b]
         PROVE  b - 1 \in Extent(Top.field, Top.address, Top.kind = "hex")
    <3>1. b - Top.address \in 1..Len(bytes)
      <4>1. PICK memory : memory = target.instance
        OBVIOUS
      <4>2. PICK address \in Nat : address = Top.address
        BY <2>6
      <4>3. Len(memory) \in Nat /\ b \in 1..Len(memory)
        BY <2>10, <2>12, <4>1
      <4>4. b - address \notin 1..Len(bytes) => Put(memory, address, bytes)[b] = memory[b]
        BY <2>6, <4>3, PutIs
      <4> QED BY <2>11, <2>13, <4>1, <4>2, <4>4
    <3>2. b \in Nat
      BY <2>10
    <3> QED BY <2>6, <3>1, <3>2
  <2> QED BY <2>9, <2>13, AtIs
<1> QED BY <1>1, SessionIsSound, PTL DEF Spec, EditsWhatIsShown

\* The structure in use is one that has been validated, if it is.
LEMMA RestingIs ==
    ASSUME SessionInv, Resting, validate(Table, target.descriptor) = "OK"
    PROVE  /\ IsTable(Table) /\ Len(Table) \in 0..Len(Table) /\ 0 \in Nat
           /\ Ranked(Table, target.descriptor, Len(Table))
           /\ Size = Table[target.descriptor].size
           /\ Legible(AllPlaces(Table, target.descriptor), target.instance)
                  => Encoded.code = "OK"
<1>1. IsTable(Table) /\ target.descriptor \in 1..Len(Table)
  BY TargetIs DEF SessionInv, Resting
<1>2. Ranked(Table, target.descriptor, Len(Table))
  BY <1>1, RankedTop
<1>3. Len(Table) \in 0..Len(Table) /\ 0 \in Nat
  BY <1>1, TableIs
<1>4. ASSUME Legible(AllPlaces(Table, target.descriptor), target.instance)
      PROVE  Encoded.code = "OK"
  <2>1. Legible(Places(Table)[Len(Table)][target.descriptor][0], target.instance)
    BY <1>4 DEF AllPlaces
  <2>2. PICK table : table = Table
    OBVIOUS
  <2>3. PICK memory : memory = target.instance
    OBVIOUS
  <2>4. struct_to_json(table, memory)[Len(table)][target.descriptor][0].code = "OK"
    BY <1>1, <1>2, <1>3, <2>1, <2>2, <2>3, LegibleSaves
  <2> QED BY <2>2, <2>3, <2>4 DEF Encoded, json_encode
<1> QED BY <1>1, <1>2, <1>3, <1>4 DEF Size

\* Unless a binary file has been read, the instance can be saved as JSON and
\* its padding is zero, whatever was entered and wherever a load failed
\* (patch.c, decode.c, cmd_savebin).
THEOREM InstanceStaysWhole == Spec => []StaysWhole
<1>1. SessionInv => StaysWhole
  <2> SUFFICES ASSUME SessionInv, Resting, ~raw, validate(Table, target.descriptor) = "OK"
               PROVE  /\ Encoded.code = "OK"
                      /\ \A b \in 1..Size : b - 1 \notin Covered(Table, target.descriptor)
                            => target.instance[b] = 0
    BY DEF StaysWhole
  <2>1. Whole(Table, target.descriptor, target.instance)
    BY DEF SessionInv, InstanceInv, Resting
  <2> QED BY <2>1, RestingIs DEF Whole
<1> QED BY <1>1, SessionIsSound, PTL

\* What print.c shows without a fault, encode.c can save: both end a text at
\* its NUL and look for it within the field.
THEOREM ShownIsSaved == Spec => []ShownIsSavable
<1>1. SessionInv => ShownIsSavable
  <2> SUFFICES ASSUME SessionInv, Resting,
                      print_write(Table, target.descriptor, target.instance) = "OK"
               PROVE  Encoded.code = "OK"
    BY DEF ShownIsSavable
  <2>1. validate(Table, target.descriptor) = "OK"
    BY DEF print_write
  <2>2. print_struct(Table, target.instance)[Len(Table)][target.descriptor][0] = "OK"
    BY <2>1 DEF print_write
  <2>3. PICK table : table = Table
    OBVIOUS
  <2>4. PICK memory : memory = target.instance
    OBVIOUS
  <2>5. Legible(Places(table)[Len(table)][target.descriptor][0], memory)
    BY <2>1, <2>2, <2>3, <2>4, RestingIs, PrintReads
  <2> QED BY <2>1, <2>3, <2>4, <2>5, RestingIs DEF AllPlaces
<1> QED BY <1>1, SessionIsSound, PTL

\* What savejson writes, loadjson reads (struct_meta_json_encode and
\* struct_meta_json_decode): every number, text and array of every structure,
\* however deep, comes back, whatever the widths, and of any bytes, as long as
\* no two members of an object have one key and no number is saved as null.
THEOREM SavedComesBack == Spec => []SavedLoadsBack
<1>1. SessionInv => SavedLoadsBack
  <2> SUFFICES ASSUME SessionInv, Resting, Encoded.code = "OK",
                      Faithful(Table, Encoded.value)
               PROVE  LET decoded == json_decode(Table, target.descriptor, Encoded.value)
                          new == AfterWrites([b \in 1..Size |-> 0], decoded.value)
                      IN  /\ decoded.code = "OK"
                          /\ json_encode(Table, target.descriptor, new) = Encoded
    BY DEF SavedLoadsBack
  <2>1. PICK table : table = Table
    OBVIOUS
  <2>2. PICK i : i = target.descriptor
    OBVIOUS
  <2>3. PICK memory : memory = target.instance
    OBVIOUS
  <2>4. IsTable(table) /\ i \in 1..Len(table) /\ IsInstance(memory, table[i].size)
    BY <2>1, <2>2, <2>3, TargetIs DEF SessionInv, Resting, Size
  <2>5. PICK saved : saved = json_encode(table, i, memory)
    OBVIOUS
  <2>6. saved = Encoded
    BY <2>1, <2>2, <2>3, <2>5 DEF Encoded
  <2>7. saved.code = "OK" /\ Faithful(table, saved.value)
    BY <2>1, <2>6
  <2>8. LET decoded == json_decode(table, i, saved.value)
            new == AfterWrites([b \in 1..table[i].size |-> 0], decoded.value)
        IN  decoded.code = "OK" /\ json_encode(table, i, new) = saved
    BY <2>4, <2>5, <2>7, InstanceBack
  <2> QED BY <2>1, <2>2, <2>6, <2>8 DEF Size
<1> QED BY <1>1, SessionIsSound, PTL
=============================================================================
