---------------------------- MODULE LayoutProofs -----------------------------
(***************************************************************************)
(* Proofs about the structure layout, for every width of size_t, every     *)
(* table of scalar types and every sequence of calls.                      *)
(***************************************************************************)
EXTENDS Layout, TLAPS

-----------------------------------------------------------------------------
(* Arithmetic                                                              *)

\* Division with remainder.
LEMMA DivMod ==
    ASSUME NEW n \in Nat, NEW a \in Nat \ {0}
    PROVE  /\ n % a \in 0..(a - 1)
           /\ n \div a \in Nat
           /\ n = a * (n \div a) + (n % a)
BY SMT

\* A product has its factor as divisor.
LEMMA MultipleMod ==
    ASSUME NEW q \in Nat, NEW a \in Nat \ {0}
    PROVE  (a * q) % a = 0
BY SMT

\* A divisor of a positive number is no larger.
LEMMA DivisorBound ==
    ASSUME NEW n \in Nat \ {0}, NEW a \in Nat \ {0}, n % a = 0
    PROVE  a <= n
BY SMT

\* A value that fits a size_t is kept by size_t arithmetic.
LEMMA WrapFits ==
    ASSUME NEW n \in 0..SizeMax
    PROVE  Wrap(n) = n
BY LayoutAssumption, SMT DEF Wrap, LayoutAssumption

\* The division that guards a multiplication.
LEMMA ProductFits ==
    ASSUME NEW size \in Nat \ {0}, NEW count \in Nat, count <= SizeMax \div size
    PROVE  size * count \in 0..SizeMax
BY LayoutAssumption, SMT DEF LayoutAssumption

\* Padding yields an aligned place that is less than one alignment away.
LEMMA PaddingAligns ==
    ASSUME NEW n \in Nat, NEW a \in Nat \ {0}
    PROVE  /\ Padding(n, a) \in 0..(a - 1)
           /\ (n + Padding(n, a)) % a = 0
<1>1. CASE n % a = 0
  BY <1>1, SMT DEF Padding
<1>2. CASE n % a # 0
  <2>1. (n + (a - (n % a))) % a = 0
    BY SMT
  <2>2. (n % a) \in 1..(a - 1)
    BY <1>2, DivMod, SMT
  <2>. QED  BY <1>2, <2>1, <2>2, SMT DEF Padding
<1>. QED  BY <1>1, <1>2

\* Two multiples of a that are less than a apart are the same.
LEMMA MultiplesApart ==
    ASSUME NEW a \in Nat \ {0}, NEW x \in Nat, NEW y \in Nat,
           x % a = 0, y % a = 0, x <= y, y < x + a
    PROVE  x = y
<1>. DEFINE p == x \div a
            q == y \div a
<1>1. p \in Nat /\ x = a * p + (x % a)
  BY DivMod
<1>2. q \in Nat /\ y = a * q + (y % a)
  BY DivMod
<1>. HIDE DEF p, q
<1>3. x = a * p /\ y = a * q
  BY <1>1, <1>2, SMT
<1>4. ~(q < p)
  BY <1>1, <1>2, <1>3, SMT
<1>5. ~(q >= p + 1)
  BY <1>1, <1>2, <1>3, SMT
<1>6. p = q
  BY <1>1, <1>2, <1>4, <1>5, SMT
<1>. QED  BY <1>3, <1>6

\* The reference definition has one value, and padding leads to it.
LEMMA FirstMultipleIsPadded ==
    ASSUME NEW n \in Nat, NEW a \in Nat \ {0}
    PROVE  FirstMultiple(n, a) = n + Padding(n, a)
<1>. DEFINE x == n + Padding(n, a)
            y == FirstMultiple(n, a)
<1>1. x \in n..(n + a - 1) /\ x % a = 0
  <2>1. Padding(n, a) \in 0..(a - 1) /\ x % a = 0
    BY PaddingAligns
  <2>. QED  BY <2>1, SMT
<1>2. y \in n..(n + a - 1) /\ y % a = 0
  BY <1>1 DEF FirstMultiple
<1>. HIDE DEF x, y
<1>3. x \in Nat /\ y \in Nat /\ x < y + a /\ y < x + a
  BY <1>1, <1>2, SMT
<1>4. x <= y => x = y
  BY <1>1, <1>2, <1>3, MultiplesApart
<1>5. y <= x => x = y
  BY <1>1, <1>2, <1>3, MultiplesApart
<1>6. x = y
  BY <1>3, <1>4, <1>5, SMT
<1>. QED  BY <1>6 DEF x, y


-----------------------------------------------------------------------------
(* What one call does                                                      *)

\* The arguments of layout_add are size_t values.
LEMMA ArgumentTypes ==
    ASSUME TypeOK, NEW t \in types \cup BadTypes
    PROVE  t.size \in 0..SizeMax /\ t.alignment \in 0..SizeMax
<1>1. CASE t \in types
  <2>1. t \in [size : 1..SizeMax, alignment : PowersOfTwo]
    BY <1>1 DEF TypeOK
  <2>2. PowersOfTwo \subseteq 1..SizeMax /\ SizeMax \in Nat
    BY LayoutAssumption DEF LayoutAssumption
  <2>3. t.size \in 1..SizeMax /\ t.alignment \in 1..SizeMax
    BY <2>1, <2>2
  <2>. QED  BY <2>2, <2>3, SMT
<1>2. CASE t \in BadTypes
  BY <1>2, LayoutAssumption DEF LayoutAssumption
<1>. QED  BY <1>1, <1>2

\* A call of layout_add that succeeds: nothing wraps, and the member is
\* aligned, behind the others and within the address space.
LEMMA PlaceFits ==
    ASSUME TypeOK, NEW size \in 0..SizeMax, NEW count \in 0..SizeMax,
           NEW align \in 0..SizeMax, AddResult(size, count, align) = "OK"
    PROVE  /\ align \in PowersOfTwo
           /\ Place(size, count, align) =
                 [offset |-> offset + Padding(offset, align),
                  size |-> size * count, alignment |-> align]
           /\ offset + Padding(offset, align) \in offset..SizeMax
           /\ (offset + Padding(offset, align)) % align = 0
           /\ size * count \in 1..SizeMax
           /\ offset + Padding(offset, align) + size * count \in 0..SizeMax
<1>. DEFINE at == offset + Padding(offset, align)
<1>1. /\ size # 0 /\ count # 0 /\ align \in PowersOfTwo
      /\ ~(Padding(offset, align) > SizeMax - offset)
      /\ ~(count > SizeMax \div size)
      /\ ~(Wrap(size * count) > SizeMax - Wrap(at))
  BY DEF AddResult, BadArgument, is_power_of_two, OffsetOverflows, ArrayOverflows,
         MemberOverflows
<1>2. SizeMax \in Nat /\ align \in Nat \ {0} /\ offset \in 0..SizeMax
  BY <1>1, LayoutAssumption, SMT DEF LayoutAssumption, TypeOK
<1>3. Padding(offset, align) \in 0..(align - 1) /\ at % align = 0
  <2>1. offset \in Nat
    BY <1>2, SMT
  <2>. QED  BY <1>2, <2>1, PaddingAligns
<1>4. at \in offset..SizeMax
  BY <1>1, <1>2, <1>3, SMT
<1>5. size * count \in 0..SizeMax
  BY <1>1, <1>2, ProductFits, SMT
<1>6. size * count # 0
  BY <1>1, <1>2, SMT
<1>7. Wrap(at) = at /\ Wrap(size * count) = size * count
  BY <1>2, <1>4, <1>5, WrapFits, SMT
<1>8. at + size * count \in 0..SizeMax
  BY <1>1, <1>2, <1>4, <1>5, <1>7, SMT
<1>. QED  BY <1>1, <1>2, <1>3, <1>4, <1>5, <1>6, <1>7, <1>8, SMT DEF Place

\* A call of layout_end that succeeds: the size is padded without wrapping.
LEMMA EndFits ==
    ASSUME TypeOK, EndResult = "OK"
    PROVE  /\ EndSize = offset + Padding(offset, alignment)
           /\ EndSize \in 1..SizeMax
           /\ EndSize % alignment = 0
<1>1. /\ offset # 0
      /\ ~(Padding(offset, alignment) > SizeMax - offset)
  BY DEF EndResult, OffsetOverflows
<1>2. SizeMax \in Nat /\ alignment \in Nat \ {0} /\ offset \in 0..SizeMax
  BY LayoutAssumption, SMT DEF LayoutAssumption, TypeOK
<1>3. /\ Padding(offset, alignment) \in 0..(alignment - 1)
      /\ (offset + Padding(offset, alignment)) % alignment = 0
  BY <1>2, PaddingAligns, SMT
<1>4. offset + Padding(offset, alignment) \in 1..SizeMax
  BY <1>1, <1>2, <1>3, SMT
<1>5. EndSize = offset + Padding(offset, alignment)
  BY <1>2, <1>4, WrapFits, SMT DEF EndSize
<1>. QED  BY <1>3, <1>4, <1>5


-----------------------------------------------------------------------------
(* The invariants                                                          *)

THEOREM InitTypes == Init => TypeOK
<1>1. BasicTypes \subseteq [size : 1..SizeMax, alignment : PowersOfTwo]
  <2>1. \A t \in BasicTypes : t \in TypeInfo /\ t.alignment \in PowersOfTwo
                                 /\ t.size \in 1..SizeMax
    BY LayoutAssumption DEF LayoutAssumption
  <2>. QED  BY <2>1 DEF TypeInfo
<1>2. 0 \in 0..SizeMax /\ 1 \in PowersOfTwo
  BY LayoutAssumption, SMT DEF LayoutAssumption
<1>. QED  BY <1>1, <1>2 DEF Init, TypeOK

THEOREM NextTypes == TypeOK /\ [Next]_vars => TypeOK'
<1>. SUFFICES ASSUME TypeOK, [Next]_vars PROVE TypeOK'
  OBVIOUS
<1>1. CASE Begin
  <2>1. 0 \in 0..SizeMax /\ 1 \in PowersOfTwo
    BY LayoutAssumption, SMT DEF LayoutAssumption
  <2>. QED  BY <1>1, <2>1 DEF Begin, layout_begin, TypeOK
<1>2. ASSUME NEW t \in types \cup BadTypes, NEW n \in Counts,
             layout_add(t.size, n, t.alignment)
      PROVE  TypeOK'
  <2>1. /\ t.size \in 0..SizeMax /\ t.alignment \in 0..SizeMax
        /\ n \in 0..SizeMax
    BY ArgumentTypes, LayoutAssumption DEF LayoutAssumption
  <2>2. CASE AddResult(t.size, n, t.alignment) = "OK"
    <3>. DEFINE m == Place(t.size, n, t.alignment)
    <3>1. /\ members' = members \cup {m}
          /\ offset' = Wrap(m.offset + m.size)
          /\ alignment' = (IF t.alignment > alignment THEN t.alignment ELSE alignment)
          /\ UNCHANGED <<types, open>>
      BY <1>2, <2>2 DEF layout_add
    <3>2. /\ t.alignment \in PowersOfTwo
          /\ m.offset \in offset..SizeMax
          /\ m.size \in 1..SizeMax
          /\ m.offset + m.size \in 0..SizeMax
          /\ m = [offset |-> m.offset, size |-> m.size, alignment |-> t.alignment]
      BY <2>1, <2>2, PlaceFits
    <3>. HIDE DEF m
    <3>3. m.offset \in 0..SizeMax
      BY <3>2, LayoutAssumption, SMT DEF TypeOK, LayoutAssumption
    <3>4. m \in Member
      BY <3>2, <3>3 DEF Member
    <3>5. offset' \in 0..SizeMax
      BY <3>1, <3>2, WrapFits
    <3>6. alignment' \in PowersOfTwo
      BY <3>1, <3>2 DEF TypeOK
    <3>. QED  BY <3>1, <3>4, <3>5, <3>6 DEF TypeOK
  <2>3. CASE AddResult(t.size, n, t.alignment) # "OK"
    BY <1>2, <2>3 DEF layout_add, TypeOK
  <2>. QED  BY <2>2, <2>3
<1>3. CASE layout_end
  <2>1. CASE EndResult = "OK"
    <3>1. EndSize \in 1..SizeMax
      BY <2>1, EndFits
    <3>2. types' = types \cup {[size |-> EndSize, alignment |-> alignment]}
      BY <1>3, <2>1 DEF layout_end
    <3>3. types' \subseteq [size : 1..SizeMax, alignment : PowersOfTwo]
      BY <3>1, <3>2 DEF TypeOK
    <3>. QED  BY <1>3, <3>3 DEF layout_end, TypeOK
  <2>2. CASE EndResult # "OK"
    BY <1>3, <2>2 DEF layout_end, TypeOK
  <2>. QED  BY <2>1, <2>2
<1>4. CASE UNCHANGED vars
  BY <1>4 DEF vars, TypeOK
<1>. QED  BY <1>1, <1>2, <1>3, <1>4 DEF Next

\* No offset, size or alignment that layout_add and layout_end compute wraps
\* around, however the calls are sequenced.
THEOREM TypeCorrect == Spec => []TypeOK
BY InitTypes, NextTypes, PTL DEF Spec

\* Structures laid out by the builder tile, like the scalar types: their size
\* is a multiple of their alignment.
THEOREM TypesTileHolds == Spec => []TypesTile
<1>1. Init => TypesTile
  BY LayoutAssumption DEF Init, TypesTile, LayoutAssumption
<1>2. TypeOK /\ TypesTile /\ [Next]_vars => TypesTile'
  <2>. SUFFICES ASSUME TypeOK, TypesTile, [Next]_vars PROVE TypesTile'
    OBVIOUS
  <2>1. CASE layout_end /\ EndResult = "OK"
    <3>1. EndSize % alignment = 0
      BY <2>1, EndFits
    <3>. QED  BY <2>1, <3>1 DEF layout_end, TypesTile
  <2>2. CASE layout_end /\ EndResult # "OK"
    BY <2>2 DEF layout_end, TypesTile
  <2>3. CASE UNCHANGED types
    BY <2>3 DEF TypesTile
  <2>. QED  BY <2>1, <2>2, <2>3 DEF Next, Begin, layout_begin, layout_add, vars
<1>. QED  BY <1>1, <1>2, TypeCorrect, PTL DEF Spec


\* What a step that changes the members does: it starts a structure, or it
\* places a member, aligned, behind builder->offset.
LEMMA MemberStep ==
    ASSUME TypeOK, [Next]_vars
    PROVE  \/ members' = {}
           \/ UNCHANGED <<members, offset, alignment>>
           \/ \E m \in Member :
                 /\ members' = members \cup {m}
                 /\ m.offset >= offset
                 /\ offset' = m.offset + m.size
                 /\ m.offset % m.alignment = 0
                 /\ alignment' = (IF m.alignment > alignment THEN m.alignment
                                                            ELSE alignment)
<1>1. ASSUME NEW t \in types \cup BadTypes, NEW n \in Counts,
             layout_add(t.size, n, t.alignment),
             AddResult(t.size, n, t.alignment) = "OK"
      PROVE  \E m \in Member :
                 /\ members' = members \cup {m}
                 /\ m.offset >= offset
                 /\ offset' = m.offset + m.size
                 /\ m.offset % m.alignment = 0
                 /\ alignment' = (IF m.alignment > alignment THEN m.alignment
                                                            ELSE alignment)
  <2>. DEFINE m == Place(t.size, n, t.alignment)
  <2>1. /\ t.size \in 0..SizeMax /\ t.alignment \in 0..SizeMax
        /\ n \in 0..SizeMax
    BY ArgumentTypes, LayoutAssumption DEF LayoutAssumption
  <2>2. /\ members' = members \cup {m}
        /\ offset' = Wrap(m.offset + m.size)
        /\ alignment' = (IF t.alignment > alignment THEN t.alignment ELSE alignment)
    BY <1>1 DEF layout_add
  <2>3. /\ t.alignment \in PowersOfTwo
        /\ m.offset \in offset..SizeMax
        /\ m.size \in 1..SizeMax
        /\ m.offset + m.size \in 0..SizeMax
        /\ m.offset % t.alignment = 0
        /\ m = [offset |-> m.offset, size |-> m.size, alignment |-> t.alignment]
    BY <1>1, <2>1, PlaceFits
  <2>. HIDE DEF m
  <2>4. m.offset \in 0..SizeMax /\ m.offset >= offset
    BY <2>3, LayoutAssumption, SMT DEF TypeOK, LayoutAssumption
  <2>5. m \in Member /\ m.alignment = t.alignment
    BY <2>3, <2>4 DEF Member
  <2>6. offset' = m.offset + m.size
    BY <2>2, <2>3, WrapFits
  <2>7. /\ members' = members \cup {m}
        /\ m.offset >= offset
        /\ offset' = m.offset + m.size
        /\ m.offset % m.alignment = 0
        /\ alignment' = (IF m.alignment > alignment THEN m.alignment ELSE alignment)
    BY <2>2, <2>3, <2>4, <2>5, <2>6
  <2>. QED  BY <2>5, <2>7
<1>2. ASSUME NEW t \in types \cup BadTypes, NEW n \in Counts,
             layout_add(t.size, n, t.alignment),
             AddResult(t.size, n, t.alignment) # "OK"
      PROVE  UNCHANGED <<members, offset, alignment>>
  BY <1>2 DEF layout_add
<1>3. ASSUME Begin PROVE members' = {}
  BY <1>3 DEF Begin, layout_begin
<1>4. ASSUME layout_end \/ UNCHANGED vars
      PROVE  UNCHANGED <<members, offset, alignment>>
  BY <1>4 DEF layout_end, vars
<1>. QED  BY <1>1, <1>2, <1>3, <1>4 DEF Next

\* No two members of a structure overlap: the offset of a field is never
\* inside another field, and all fields are below builder->offset.
THEOREM MembersDisjointHolds == Spec => []MembersDisjoint
<1>1. Init => MembersDisjoint
  BY DEF Init, MembersDisjoint
<1>2. TypeOK /\ MembersDisjoint /\ [Next]_vars => MembersDisjoint'
  <2>. SUFFICES ASSUME TypeOK, MembersDisjoint, [Next]_vars PROVE MembersDisjoint'
    OBVIOUS
  <2>1. CASE members' = {}
    BY <2>1 DEF MembersDisjoint
  <2>2. CASE UNCHANGED <<members, offset, alignment>>
    BY <2>2 DEF MembersDisjoint
  <2>3. ASSUME NEW m \in Member, members' = members \cup {m},
               m.offset >= offset, offset' = m.offset + m.size
        PROVE  MembersDisjoint'
    <3>1. /\ offset \in Nat /\ m.offset \in Nat /\ m.size \in Nat
          /\ \A k \in members : k.offset \in Nat /\ k.size \in Nat
      BY LayoutAssumption, SMT DEF TypeOK, Member, LayoutAssumption
    <3>2. \A k \in members : k.offset + k.size <= m.offset
      BY <2>3, <3>1, SMT DEF MembersDisjoint
    <3>3. \A k \in members' : k.offset + k.size <= offset'
      BY <2>3, <3>1, <3>2, SMT
    <3>4. ASSUME NEW k \in members', NEW l \in members', k # l
          PROVE  k.offset + k.size <= l.offset \/ l.offset + l.size <= k.offset
      BY <2>3, <3>2, <3>4 DEF MembersDisjoint
    <3>. QED  BY <3>3, <3>4 DEF MembersDisjoint
  <2>. QED  BY <2>1, <2>2, <2>3, MemberStep
<1>. QED  BY <1>1, <1>2, TypeCorrect, PTL DEF Spec

\* Every member is aligned in its structure, and in every placement of the
\* structure at a multiple of the alignment that layout_end reports.
THEOREM MembersAlignedHolds == Spec => []MembersAligned
<1>1. Init => MembersAligned
  BY DEF Init, MembersAligned
<1>2. TypeOK /\ MembersAligned /\ [Next]_vars => MembersAligned'
  <2>. SUFFICES ASSUME TypeOK, MembersAligned, [Next]_vars PROVE MembersAligned'
    OBVIOUS
  <2>1. CASE members' = {}
    BY <2>1 DEF MembersAligned
  <2>2. CASE UNCHANGED <<members, offset, alignment>>
    BY <2>2 DEF MembersAligned
  <2>3. ASSUME NEW m \in Member, members' = members \cup {m},
               m.offset % m.alignment = 0,
               alignment' = (IF m.alignment > alignment THEN m.alignment ELSE alignment)
        PROVE  MembersAligned'
    <3>1. /\ alignment \in PowersOfTwo /\ m.alignment \in PowersOfTwo
          /\ \A k \in members : k.alignment \in PowersOfTwo
      BY DEF TypeOK, Member
    <3>2. /\ \A a \in PowersOfTwo : a \in Nat \ {0}
          /\ \A a, b \in PowersOfTwo : a <= b => b % a = 0
      BY LayoutAssumption, SMT DEF LayoutAssumption
    <3>3. alignment' \in PowersOfTwo /\ alignment <= alignment'
          /\ m.alignment <= alignment'
      BY <2>3, <3>1, <3>2, SMT
    <3>4. ASSUME NEW k \in members PROVE k.alignment <= alignment'
      <4>1. k.alignment <= alignment
        BY <3>1, <3>2, DivisorBound DEF MembersAligned
      <4>. QED  BY <3>1, <3>2, <3>3, <4>1, SMT
    <3>5. \A k \in members' : alignment' % k.alignment = 0
      BY <2>3, <3>1, <3>2, <3>3, <3>4
    <3>6. \A k \in members' : k.offset % k.alignment = 0
      BY <2>3 DEF MembersAligned
    <3>. QED  BY <3>5, <3>6 DEF MembersAligned
  <2>. QED  BY <2>1, <2>2, <2>3, MemberStep
<1>. QED  BY <1>1, <1>2, TypeCorrect, PTL DEF Spec


-----------------------------------------------------------------------------
(* Exactness                                                               *)

\* A call of layout_add that runs out of range would have needed a byte
\* beyond SIZE_MAX.
LEMMA OutOfRangeIsReal ==
    ASSUME TypeOK, NEW size \in 0..SizeMax, NEW count \in 0..SizeMax,
           NEW align \in 0..SizeMax, AddResult(size, count, align) = "OUT_OF_RANGE"
    PROVE  FirstMultiple(offset, align) + size * count > SizeMax
<1>. DEFINE at == offset + Padding(offset, align)
<1>1. /\ size # 0 /\ count # 0 /\ align \in PowersOfTwo
      /\ \/ Padding(offset, align) > SizeMax - offset
         \/ count > SizeMax \div size
         \/ Wrap(size * count) > SizeMax - Wrap(at)
  BY DEF AddResult, BadArgument, is_power_of_two, OffsetOverflows, ArrayOverflows,
         MemberOverflows
<1>2. /\ SizeMax \in Nat /\ align \in Nat \ {0} /\ offset \in Nat
      /\ size \in Nat \ {0} /\ count \in Nat \ {0}
  BY <1>1, LayoutAssumption, SMT DEF LayoutAssumption, TypeOK
<1>3. Padding(offset, align) \in 0..(align - 1) /\ FirstMultiple(offset, align) = at
  BY <1>2, PaddingAligns, FirstMultipleIsPadded
<1>4. at \in Nat /\ size * count \in Nat
  BY <1>2, <1>3, SMT
<1>5. CASE at > SizeMax
  BY <1>2, <1>3, <1>4, <1>5, SMT
<1>6. CASE size * count > SizeMax
  BY <1>2, <1>3, <1>4, <1>6, SMT
<1>7. CASE at <= SizeMax /\ size * count <= SizeMax
  <2>1. Wrap(at) = at /\ Wrap(size * count) = size * count
    BY <1>2, <1>4, <1>7, WrapFits, SMT
  <2>2. ~(Padding(offset, align) > SizeMax - offset)
    BY <1>2, <1>3, <1>7, SMT
  <2>3. ~(count > SizeMax \div size)
    <3>. DEFINE q == SizeMax \div size
    <3>1. /\ q \in Nat /\ SizeMax % size \in 0..(size - 1)
          /\ SizeMax = size * q + (SizeMax % size)
      BY <1>2, DivMod
    <3>. HIDE DEF q
    <3>2. ~(count >= q + 1)
      BY <1>2, <1>7, <3>1, SMT
    <3>. QED  BY <1>2, <3>1, <3>2, SMT DEF q
  <2>4. size * count > SizeMax - at
    BY <1>1, <2>1, <2>2, <2>3
  <2>. QED  BY <1>2, <1>3, <1>4, <2>4, SMT
<1>. QED  BY <1>2, <1>4, <1>5, <1>6, <1>7, SMT

\* layout_add places a member at the first aligned offset behind the last
\* member, and refuses one only if it does not fit the address space.
THEOREM AddExactHolds == Spec => AddExact
<1>. DEFINE A == open /\ open' /\ call' # call =>
        LET first == FirstMultiple(offset, call'.align)
            total == call'.size * call'.count
        IN  /\ call'.result = "OK" =>
                 members' = members \cup {[offset |-> first, size |-> total,
                                           alignment |-> call'.align]}
            /\ call'.result = "OUT_OF_RANGE" => first + total > SizeMax
<1>1. TypeOK /\ [Next]_vars => A
  <2>. SUFFICES ASSUME TypeOK, [Next]_vars, open, open', call' # call PROVE A
    OBVIOUS
  <2>1. PICK t \in types \cup BadTypes, n \in Counts :
            layout_add(t.size, n, t.alignment)
    BY DEF Next, Begin, layout_begin, layout_end, vars
  <2>2. /\ t.size \in 0..SizeMax /\ t.alignment \in 0..SizeMax
        /\ n \in 0..SizeMax
    BY ArgumentTypes, LayoutAssumption DEF LayoutAssumption
  <2>3. /\ call'.size = t.size /\ call'.count = n /\ call'.align = t.alignment
        /\ call'.result = AddResult(t.size, n, t.alignment)
    BY <2>1 DEF layout_add
  <2>4. ASSUME call'.result = "OK"
        PROVE  members' = members \cup
                 {[offset |-> FirstMultiple(offset, call'.align),
                   size |-> call'.size * call'.count, alignment |-> call'.align]}
    <3>1. members' = members \cup {Place(t.size, n, t.alignment)}
      BY <2>1, <2>3, <2>4 DEF layout_add
    <3>2. /\ t.alignment \in PowersOfTwo
          /\ Place(t.size, n, t.alignment) =
                [offset |-> offset + Padding(offset, t.alignment),
                 size |-> t.size * n, alignment |-> t.alignment]
      <4>1. AddResult(t.size, n, t.alignment) = "OK"
        BY <2>3, <2>4
      <4>. QED  BY <2>2, <4>1, PlaceFits
    <3>3. offset \in Nat /\ t.alignment \in Nat \ {0}
      <4>1. offset \in 0..SizeMax /\ t.alignment \in 1..SizeMax /\ SizeMax \in Nat
        BY <3>2, LayoutAssumption DEF TypeOK, LayoutAssumption
      <4>. QED  BY <4>1, SMT
    <3>4. FirstMultiple(offset, t.alignment) = offset + Padding(offset, t.alignment)
      BY <3>3, FirstMultipleIsPadded
    <3>. QED  BY <2>3, <3>1, <3>2, <3>4
  <2>5. ASSUME call'.result = "OUT_OF_RANGE"
        PROVE  FirstMultiple(offset, call'.align) + call'.size * call'.count > SizeMax
    BY <2>2, <2>3, <2>5, OutOfRangeIsReal
  <2>. QED  BY <2>4, <2>5
<1>. QED  BY <1>1, TypeCorrect, PTL DEF Spec, AddExact

\* layout_end gives a structure the least size that holds all members and
\* keeps arrays of it aligned.
THEOREM SizeExactHolds == Spec => SizeExact
<1>. DEFINE A == \A t \in types' \ types :
                    /\ t.alignment = alignment
                    /\ t.size = FirstMultiple(offset, alignment)
<1>1. TypeOK /\ [Next]_vars => A
  <2>. SUFFICES ASSUME TypeOK, [Next]_vars, NEW t \in types', t \notin types
                PROVE  /\ t.alignment = alignment
                       /\ t.size = FirstMultiple(offset, alignment)
    OBVIOUS
  <2>1. /\ EndResult = "OK"
        /\ types' = types \cup {[size |-> EndSize, alignment |-> alignment]}
    BY DEF Next, Begin, layout_begin, layout_add, layout_end, vars
  <2>2. EndSize = offset + Padding(offset, alignment)
    BY <2>1, EndFits
  <2>3. offset \in Nat /\ alignment \in Nat \ {0}
    BY LayoutAssumption, SMT DEF TypeOK, LayoutAssumption
  <2>4. FirstMultiple(offset, alignment) = EndSize
    BY <2>2, <2>3, FirstMultipleIsPadded
  <2>. QED  BY <2>1, <2>4
<1>. QED  BY <1>1, TypeCorrect, PTL DEF Spec, SizeExact

=============================================================================
