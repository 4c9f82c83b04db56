----------------------------- MODULE BuildProofs ------------------------------
(***************************************************************************)
(* Theorems about Build and the Arena beneath it, for every header that    *)
(* the parser can hand over, every table of layout types that the ABI      *)
(* allows, every width of size_t, and wherever calloc places the chunks or *)
(* refuses to.                                                             *)
(*                                                                         *)
(*   - the arena: what is handed out is aligned and shared by none         *)
(*   - induction, by way of sets of numbers, for what is defined by        *)
(*     recursion over data: extents, rounds, copies, nesting               *)
(*   - the reference layout of ParsedHeader, and that Layout follows it    *)
(*   - the inductive invariant BuildInv, kept by every action              *)
(*   - what the result of the call means                                   *)
(***************************************************************************)
EXTENDS Build, WellFoundedInduction, FiniteSetTheorems, SequenceTheorems, TLAPS

-----------------------------------------------------------------------------
(* The arena                                                               *)

\* Filling up to the next multiple yields a multiple.
LEMMA FillsUp ==
    ASSUME NEW at \in Nat, NEW alignment \in Nat \ {0}
    PROVE  /\ at % alignment \in 0..(alignment - 1)
           /\ (at + (alignment - (at % alignment))) % alignment = 0
<1>1. at % alignment \in 0..(alignment - 1)
  BY SMT
<1>2. (at + (alignment - (at % alignment))) % alignment = 0
  BY SMT
<1> QED BY <1>1, <1>2

\* The place that aligned_offset finds is free, aligned, and less than one
\* alignment further.
LEMMA OffsetAligned ==
    ASSUME NEW chunk \in ChunkType, NEW alignment \in Nat \ {0}
    PROVE  /\ aligned_offset(chunk, alignment) \in Nat
           /\ chunk.used <= aligned_offset(chunk, alignment)
           /\ aligned_offset(chunk, alignment) < chunk.used + alignment
           /\ (chunk.base + aligned_offset(chunk, alignment)) % alignment = 0
<1>1. PICK base \in Nat, used \in Nat : chunk.base = base /\ chunk.used = used
  BY DEF ChunkType
<1>2. PICK at \in Nat : at = base + used
  BY <1>1
<1>3. PICK misaligned \in 0..(alignment - 1) : misaligned = at % alignment
  BY FillsUp
<1>3a. (at + (alignment - misaligned)) % alignment = 0
  BY <1>3, FillsUp
<1>4. CASE misaligned = 0
  <2>1. aligned_offset(chunk, alignment) = used
    BY <1>1, <1>2, <1>3, <1>4 DEF aligned_offset
  <2> QED BY <2>1, <1>1, <1>2, <1>3, <1>4
<1>5. CASE misaligned # 0
  <2>1. aligned_offset(chunk, alignment) = used + (alignment - misaligned)
    BY <1>1, <1>2, <1>3, <1>5 DEF aligned_offset
  <2>2. base + (used + (alignment - misaligned)) = at + (alignment - misaligned)
    BY <1>1, <1>2, <1>3
  <2>3. (base + (used + (alignment - misaligned))) % alignment = 0
    BY <2>2, <1>3a
  <2>4. (chunk.base + aligned_offset(chunk, alignment)) % alignment = 0
    BY <2>1, <2>3, <1>1
  <2>5. alignment \in Nat /\ misaligned \in Nat /\ misaligned < alignment
        /\ misaligned # 0
    BY <1>3, <1>5
  <2>6. /\ aligned_offset(chunk, alignment) \in Nat
        /\ chunk.used <= aligned_offset(chunk, alignment)
        /\ aligned_offset(chunk, alignment) < chunk.used + alignment
    BY ONLY <2>1, <2>5, <1>1, used \in Nat
  <2> QED BY <2>4, <2>6
<1> QED BY <1>3, <1>4, <1>5

\* A chunk that is added for a request has room for it: allocate does not look
\* for another, and its failure means that calloc has failed.
THEOREM NewChunkHasRoom ==
    ASSUME NEW size \in Nat, NEW alignment \in Alignments, NEW base \in Bases
    PROVE  HasRoom([base |-> base, used |-> 0,
                    capacity |-> Capacity(size, alignment)], size, alignment)
<1> DEFINE chunk == [base |-> base, used |-> 0,
                     capacity |-> Capacity(size, alignment)]
<1>1. /\ alignment \in Nat \ {0} /\ base \in Nat /\ ChunkBytes \in Nat
  BY ArenaAssumption DEF ArenaAssumption
<1>2. /\ Capacity(size, alignment) \in Nat
      /\ size + alignment <= Capacity(size, alignment)
  BY <1>1 DEF Capacity
<1>3. chunk \in ChunkType /\ chunk.used = 0
      /\ chunk.capacity = Capacity(size, alignment)
  BY <1>1, <1>2 DEF ChunkType
<1> HIDE DEF chunk
<1>4. /\ aligned_offset(chunk, alignment) \in Nat
      /\ aligned_offset(chunk, alignment) < alignment
  BY <1>1, <1>3, OffsetAligned
<1>5. HasRoom(chunk, size, alignment)
  BY <1>1, <1>2, <1>3, <1>4 DEF HasRoom
<1> QED BY <1>5 DEF chunk

-----------------------------------------------------------------------------
(* The inductive invariant: the conjunction of the three.                  *)

ArenaInv == ArenaTypeOK /\ BlocksInPlace /\ BlocksDisjoint

\* A piece handed out of the last chunk of s, when s holds all pieces so far.
LEMMA HandOutKeeps ==
    ASSUME NEW s \in Seq(ChunkType), s # <<>>,
           ArenaTypeOK,
           NEW size \in Nat \ {0}, NEW alignment \in Alignments,
           \A b \in blocks :
               /\ b.chunk \in 1..Len(s)
               /\ b.first + b.size <= s[b.chunk].used
               /\ s[b.chunk].used <= s[b.chunk].capacity
               /\ (s[b.chunk].base + b.first) % b.alignment = 0,
           BlocksDisjoint,
           HasRoom(s[Len(s)], size, alignment),
           HandOut(s, size, alignment)
    PROVE  ArenaInv'
<1> DEFINE n == Len(s)
           chunk == s[n]
           first == aligned_offset(chunk, alignment)
           b == [chunk |-> n, first |-> first, size |-> size,
                 alignment |-> alignment]
<1>1. /\ n \in Nat \ {0} /\ n = Len(s)
      /\ chunk \in ChunkType /\ chunk = s[n]
  OBVIOUS
<1> HIDE DEF n, chunk
<1>2. alignment \in Nat \ {0}
  BY ArenaAssumption DEF ArenaAssumption
<1>3. /\ first \in Nat /\ chunk.used <= first
      /\ (chunk.base + first) % alignment = 0
  BY <1>1, <1>2, OffsetAligned
<1>4. first + size <= chunk.capacity
  BY <1>1, <1>3 DEF HasRoom, ChunkType
<1>5. /\ chunks' = [s EXCEPT ![n] = [@ EXCEPT !.used = first + size]]
      /\ blocks' = blocks \cup {b}
      /\ starved' = starved
  BY <1>1 DEF HandOut, Used, Block
<1> HIDE DEF first
<1>6. /\ chunks' \in Seq(ChunkType) /\ Len(chunks') = n
      /\ \A i \in 1..n : i # n => chunks'[i] = s[i]
      /\ chunks'[n].base = chunk.base
      /\ chunks'[n].capacity = chunk.capacity
      /\ chunks'[n].used = first + size
  <2> DEFINE filled == [chunk EXCEPT !.used = first + size]
  <2>1. /\ filled \in ChunkType /\ filled.base = chunk.base
        /\ filled.capacity = chunk.capacity /\ filled.used = first + size
    BY <1>1, <1>3 DEF ChunkType
  <2>2. chunks' = [s EXCEPT ![n] = filled]
    BY <1>1, <1>5
  <2> HIDE DEF filled
  <2> QED BY <2>1, <2>2, <1>1
<1>7. \A c \in blocks : c \in BlockType
  BY DEF ArenaTypeOK
<1>8. b \in BlockType
  BY <1>1, <1>3 DEF BlockType
<1>9. ArenaTypeOK'
  BY <1>5, <1>6, <1>7, <1>8 DEF ArenaTypeOK
<1>10. BlocksInPlace'
  <2> SUFFICES ASSUME NEW c \in blocks'
               PROVE  /\ c.chunk \in 1..Len(chunks')
                      /\ c.first + c.size <= chunks'[c.chunk].used
                      /\ chunks'[c.chunk].used <= chunks'[c.chunk].capacity
                      /\ (chunks'[c.chunk].base + c.first) % c.alignment = 0
    BY DEF BlocksInPlace
  <2>1. CASE c = b
    <3>1. /\ c.chunk = n /\ c.first = first /\ c.size = size
          /\ c.alignment = alignment
      BY <2>1
    <3>2. /\ chunks'[n].base = chunk.base /\ chunks'[n].used = first + size
          /\ chunks'[n].capacity = chunk.capacity
      BY <1>6
    <3> HIDE DEF b
    <3>3. c.first + c.size <= chunks'[c.chunk].used
      BY <3>1, <3>2, <1>3
    <3>4. (chunks'[c.chunk].base + c.first) % c.alignment = 0
      BY <3>1, <3>2, <1>3
    <3> QED BY <3>1, <3>2, <3>3, <3>4, <1>1, <1>4, <1>6
  <2>2. CASE c \in blocks
    <3>1. /\ c.chunk \in 1..n /\ c.first + c.size <= s[c.chunk].used
          /\ s[c.chunk].used <= s[c.chunk].capacity
          /\ (s[c.chunk].base + c.first) % c.alignment = 0
      BY <2>2, <1>1
    <3>3. CASE c.chunk = n
      <4>1. /\ c.first \in Nat /\ c.size \in Nat
        BY <2>2, <1>7 DEF BlockType
      <4>2. chunks'[n].base = s[n].base
        BY <1>1, <1>6
      <4>3. c.first + c.size <= first + size
        BY <3>1, <3>3, <4>1, <1>1, <1>3 DEF ChunkType
      <4>4. (chunks'[c.chunk].base + c.first) % c.alignment = 0
        BY <3>1, <3>3, <4>2
      <4> QED BY <3>1, <3>3, <4>3, <4>4, <1>1, <1>4, <1>6
    <3>4. CASE c.chunk # n
      BY <3>1, <3>4, <1>6
    <3> QED BY <3>3, <3>4
  <2> QED BY <2>1, <2>2, <1>5
<1>11. BlocksDisjoint'
  <2>1. ASSUME NEW c \in blocks, c.chunk = n
        PROVE  c.first + c.size <= first
    <3>1. c.first \in Nat /\ c.size \in Nat /\ c.first + c.size <= chunk.used
      BY <2>1, <1>1, <1>7 DEF BlockType
    <3> QED BY <3>1, <1>1, <1>3 DEF ChunkType
  <2> QED BY <2>1, <1>5 DEF BlocksDisjoint
<1> QED BY <1>9, <1>10, <1>11 DEF ArenaInv

\* Every piece that the arena hands out lies behind those before it.
LEMMA AllocateKeeps ==
    ASSUME ArenaInv, NEW size \in 0..SizeMax, NEW alignment \in Alignments,
           allocate(size, alignment)
    PROVE  ArenaInv'
<1>1. SizeMax \in Nat /\ alignment \in Nat \ {0} /\ size \in Nat \ {0}
  BY ArenaAssumption DEF ArenaAssumption, allocate
<1>2. /\ chunks \in Seq(ChunkType) /\ ArenaTypeOK /\ BlocksDisjoint
      /\ \A b \in blocks :
            /\ b.chunk \in 1..Len(chunks)
            /\ b.first + b.size <= chunks[b.chunk].used
            /\ chunks[b.chunk].used <= chunks[b.chunk].capacity
            /\ (chunks[b.chunk].base + b.first) % b.alignment = 0
  BY DEF ArenaInv, ArenaTypeOK, BlocksInPlace
<1>3. CASE NewestHasRoom(size, alignment)
  BY <1>1, <1>2, <1>3, HandOutKeeps DEF allocate, NewestHasRoom, Newest
<1>4. CASE ~NewestHasRoom(size, alignment)
  <2>1. PICK base \in Bases :
          LET chunk == [base |-> base, used |-> 0,
                        capacity |-> Capacity(size, alignment)]
          IN  /\ HasRoom(chunk, size, alignment)
              /\ HandOut(Append(chunks, chunk), size, alignment)
    BY <1>4 DEF allocate
  <2> DEFINE chunk == [base |-> base, used |-> 0,
                       capacity |-> Capacity(size, alignment)]
             s == Append(chunks, chunk)
  <2>2. chunk \in ChunkType
    BY <1>1, ArenaAssumption DEF ArenaAssumption, Capacity, ChunkType
  <2>3. HasRoom(chunk, size, alignment) /\ HandOut(s, size, alignment)
    BY <2>1
  <2> HIDE DEF chunk
  <2>4. /\ s \in Seq(ChunkType) /\ s # <<>> /\ s[Len(s)] = chunk
        /\ Len(s) = Len(chunks) + 1
        /\ \A n \in 1..Len(chunks) : s[n] = chunks[n]
    BY <1>2, <2>2
  <2> HIDE DEF s
  <2>5. \A b \in blocks :
            /\ b.chunk \in 1..Len(s)
            /\ b.first + b.size <= s[b.chunk].used
            /\ s[b.chunk].used <= s[b.chunk].capacity
            /\ (s[b.chunk].base + b.first) % b.alignment = 0
    BY <1>2, <2>4
  <2> QED BY <1>1, <1>2, <2>3, <2>4, <2>5, HandOutKeeps
<1> QED BY <1>3, <1>4

-----------------------------------------------------------------------------
(* The specification keeps the invariant.                                  *)

\* An arena begins empty.
LEMMA ArenaInitInv == ArenaInit => ArenaInv
<1> SUFFICES ASSUME ArenaInit PROVE ArenaInv
  OBVIOUS
<1>1. chunks = <<>> /\ blocks = {} /\ starved \in BOOLEAN
  BY DEF ArenaInit
<1>2. chunks \in Seq(ChunkType)
  BY <1>1
<1>3. ArenaTypeOK
  BY <1>1, <1>2 DEF ArenaTypeOK
<1>4. BlocksInPlace /\ BlocksDisjoint
  BY <1>1 DEF BlocksInPlace, BlocksDisjoint
<1> QED BY <1>3, <1>4 DEF ArenaInv

\* Every operation of the arena keeps the invariant.
LEMMA ArenaNextInv == ArenaInv /\ [ArenaNext]_arenaVars => ArenaInv'
<1> SUFFICES ASSUME ArenaInv, [ArenaNext]_arenaVars PROVE ArenaInv'
  OBVIOUS
<1>1. ASSUME NEW size \in 0..SizeMax, NEW alignment \in Alignments,
             allocate(size, alignment)
      PROVE  ArenaInv'
  BY <1>1, AllocateKeeps
<1>2. ASSUME NEW size \in 0..SizeMax, NEW alignment \in Alignments,
             allocate_fails(size, alignment)
      PROVE  ArenaInv'
  <2>1. /\ UNCHANGED <<chunks, blocks>>
        /\ starved' \in BOOLEAN
    BY <1>2 DEF allocate_fails, ArenaInv, ArenaTypeOK
  <2> QED BY <2>1 DEF ArenaInv, ArenaTypeOK, BlocksInPlace, BlocksDisjoint
<1>3. CASE arena_destroy
  BY <1>3 DEF arena_destroy, ArenaInv, ArenaTypeOK, BlocksInPlace, BlocksDisjoint
<1>4. CASE UNCHANGED arenaVars
  BY <1>4 DEF arenaVars, ArenaInv, ArenaTypeOK, BlocksInPlace, BlocksDisjoint
<1> QED BY <1>1, <1>2, <1>3, <1>4 DEF ArenaNext

\* What is handed out keeps lying where its alignment is right, within its
\* chunk and within what is marked as used of it.
THEOREM BlocksInPlaceHolds == ArenaSpec => []BlocksInPlace
<1>1. ArenaInv => BlocksInPlace
  BY DEF ArenaInv
<1> QED BY <1>1, ArenaInitInv, ArenaNextInv, PTL DEF ArenaSpec

\* No two pieces ever share a byte.
THEOREM BlocksDisjointHolds == ArenaSpec => []BlocksDisjoint
<1>1. ArenaInv => BlocksDisjoint
  BY DEF ArenaInv
<1> QED BY <1>1, ArenaInitInv, ArenaNextInv, PTL DEF ArenaSpec

-----------------------------------------------------------------------------
(* Induction, by way of sets of numbers                                    *)

\* A set of numbers has a least one.
LEMMA LeastNumber ==
    ASSUME NEW T \in SUBSET Nat, T # {}
    PROVE  \E m \in T : \A n \in T : m <= n
<1> DEFINE Less == {p \in Nat \X Nat : p[1] < p[2]}
<1>1. Less = OpToRel(<, Nat)
  BY DEF OpToRel
<1>2. IsWellFoundedOn(Less, Nat)
  BY <1>1, NatLessThanWellFounded
<1>3. PICK m \in T : \A n \in T : <<n, m>> \notin Less
  <2> HIDE DEF Less
  <2> QED BY <1>2, WFMin, Zenon
<1>4. ASSUME NEW n \in T, n < m PROVE <<n, m>> \in Less
  <2>1. <<n, m>> \in Nat \X Nat
    OBVIOUS
  <2> QED BY <2>1, <1>4
<1>5. \A n \in T : ~(n < m)
  BY <1>3, <1>4, Zenon
<1> QED BY <1>5

\* What holds of 0, and of k whenever it holds of k - 1, holds up to n.
LEMMA CountUp ==
    ASSUME NEW n \in Nat, NEW T, 0 \in T, \A k \in 1..n : k - 1 \in T => k \in T
    PROVE  0..n \subseteq T
<1> SUFFICES ASSUME (0..n) \ T # {} PROVE FALSE
  BY Zenon
<1>1. (0..n) \ T \in SUBSET Nat
  OBVIOUS
<1>2. PICK m \in (0..n) \ T : \A k \in (0..n) \ T : m <= k
  BY <1>1, LeastNumber, Zenon
<1>3. m \in 1..n /\ m - 1 \in 0..n /\ ~(m <= m - 1)
  BY <1>2
<1>4. m - 1 \in T
  BY <1>2, <1>3
<1> QED BY <1>2, <1>3, <1>4

\* A function given by its first value and the step from one to the next.
Recursive(f, n, first, step) ==
    f[0] = first /\ \A k \in 1..n : f[k] = step[k][f[k - 1]]

\* Its values are all of the type that its steps keep.
LEMMA RecursiveType ==
    ASSUME NEW n \in Nat, NEW S, NEW first \in S, NEW step \in [1..n -> [S -> S]],
           NEW f, Recursive(f, n, first, step)
    PROVE  \A k \in 0..n : f[k] \in S
<1> DEFINE T == {k \in 0..n : f[k] \in S}
<1>1. 0 \in T
  BY DEF Recursive
<1>2. ASSUME NEW k \in 1..n, f[k - 1] \in S PROVE k \in 0..n /\ f[k] \in S
  BY <1>2 DEF Recursive
<1>3. \A k \in 1..n : k - 1 \in T => k \in T
  BY <1>2
<1>4. 0..n \subseteq T
  <2> HIDE DEF T
  <2> QED BY <1>1, <1>3, CountUp
<1> QED BY <1>4

\* Such a function exists.
LEMMA RecursionExists ==
    ASSUME NEW n \in Nat, NEW S, NEW first \in S, NEW step \in [1..n -> [S -> S]]
    PROVE  \E f \in [0..n -> S] : Recursive(f, n, first, step)
<1> DEFINE Right(f, m) ==
        f = [k \in 0..m |-> IF k = 0 THEN first ELSE step[k][f[k - 1]]]
           T == {m \in 0..n : \E f \in [0..m -> S] : Right(f, m)}
<1>1. 0 \in T
  <2> DEFINE f == [k \in 0..0 |-> first]
  <2>1. f \in [0..0 -> S] /\ Right(f, 0)
    OBVIOUS
  <2> HIDE DEF f, Right
  <2> QED BY <2>1
<1>2. ASSUME NEW m \in 1..n, m - 1 \in T PROVE m \in T
  <2>1. PICK g \in [0..(m - 1) -> S] : Right(g, m - 1)
    <3> HIDE DEF Right
    <3> QED BY <1>2
  <2> DEFINE f == [k \in 0..m |-> IF k = m THEN step[m][g[m - 1]] ELSE g[k]]
  <2>2. f \in [0..m -> S]
    OBVIOUS
  <2>3. \A k \in 0..m :
            f[k] = IF k = 0 THEN first ELSE step[k][f[k - 1]]
    <3> TAKE k \in 0..m
    <3>1. CASE k = m
      BY <3>1
    <3>2. CASE k # m
      <4>1. k \in 0..(m - 1) /\ (k # 0 => k - 1 \in 0..(m - 1) /\ k - 1 # m)
        BY <3>2
      <4>2. f[k] = g[k] /\ (k # 0 => f[k - 1] = g[k - 1])
        BY <3>2, <4>1
      <4> QED BY <2>1, <4>1, <4>2
    <3> QED BY <3>1, <3>2
  <2> HIDE DEF f
  <2>4. Right(f, m)
    BY <2>2, <2>3
  <2> HIDE DEF Right
  <2> QED BY <2>2, <2>4
<1>3. n \in T
  <2> HIDE DEF T
  <2>1. \A m \in 1..n : m - 1 \in T => m \in T
    BY <1>2
  <2>2. 0..n \subseteq T
    BY <1>1, <2>1, CountUp
  <2> QED BY <2>2
<1>4. PICK f \in [0..n -> S] : Right(f, n)
  <2> HIDE DEF Right
  <2> QED BY <1>3
<1>5. Recursive(f, n, first, step)
  BY <1>4 DEF Recursive
<1> QED BY <1>5

LP == INSTANCE LayoutProofs WITH
    BasicTypes <- {}, Counts <- {}, BadTypes <- {}, MaxMembers <- 0,
    MaxStructs <- 0, types <- {}, open <- TRUE, members <- {}, call <- "none",
    offset <- Top.offset, alignment <- Top.alignment

\* The assumption of Layout holds of the instance that Build uses.
LEMMA LayoutHolds == LP!LayoutAssumption
BY BuildAssumption, ArenaAssumption
   DEF BuildAssumption, ArenaAssumption, LP!LayoutAssumption

-----------------------------------------------------------------------------
(* The reference layout                                                    *)

TypeType == [size : Nat, alignment : PowersOfTwo]
ExtentType == [end : Nat, alignment : PowersOfTwo]

\* Alignments are powers of two, that fit a size_t.
LEMMA Powers == \A a \in PowersOfTwo : a \in Nat \ {0} /\ a <= SizeMax
BY BuildAssumption, ArenaAssumption DEF BuildAssumption, ArenaAssumption

\* The first multiple is one, and less than a from n.
LEMMA FirstMultipleIs ==
    ASSUME NEW n \in Nat, NEW a \in Nat \ {0}
    PROVE  /\ FirstMultiple(n, a) \in n..(n + a - 1)
           /\ FirstMultiple(n, a) % a = 0
<1>1. LP!FirstMultiple(n, a) = n + LP!Padding(n, a)
  BY LayoutHolds, LP!FirstMultipleIsPadded
<1>2. LP!Padding(n, a) \in 0..(a - 1) /\ (n + LP!Padding(n, a)) % a = 0
  BY LayoutHolds, LP!PaddingAligns
<1>3. LP!FirstMultiple(n, a) = FirstMultiple(n, a)
  BY DEF LP!FirstMultiple, FirstMultiple
<1>4. n + LP!Padding(n, a) \in n..(n + a - 1)
  BY <1>2
<1> QED BY <1>1, <1>2, <1>3, <1>4

\* Rounding up takes nothing away.
LEMMA FirstMultipleFrom ==
    ASSUME NEW n \in Nat, NEW a \in PowersOfTwo
    PROVE  FirstMultiple(n, a) \in Nat /\ n <= FirstMultiple(n, a)
<1>1. a \in Nat \ {0}
  BY Powers
<1>2. FirstMultiple(n, a) \in n..(n + a - 1)
  BY <1>1, FirstMultipleIs
<1> QED BY <1>1, <1>2

\* What a declaration of the parser consists of.
LEMMA Declared ==
    ASSUME NEW h, Parsed(h)
    PROVE  /\ Len(h) \in Nat /\ Structs(h) = DOMAIN h
           /\ \A i \in Structs(h) :
                 /\ h[i] \in StructDeclaration
                 /\ Len(h[i].fields) \in Nat
                 /\ \A k \in Fields(h, i) : h[i].fields[k] \in FieldDeclaration
<1>1. h \in Seq(StructDeclaration)
  BY DEF Parsed
<1>2. Len(h) \in Nat /\ Structs(h) = DOMAIN h
  BY <1>1 DEF Structs
<1>3. ASSUME NEW i \in Structs(h) PROVE h[i] \in StructDeclaration
  BY <1>1 DEF Structs
<1>4. ASSUME NEW i \in Structs(h) PROVE h[i].fields \in Seq(FieldDeclaration)
  BY <1>3 DEF StructDeclaration
<1>5. ASSUME NEW i \in Structs(h), NEW k \in Fields(h, i)
      PROVE  h[i].fields[k] \in FieldDeclaration
  BY <1>4 DEF Fields
<1>6. \A i \in Structs(h) : Len(h[i].fields) \in Nat
  BY <1>4
<1> QED BY <1>2, <1>3, <1>5, <1>6

\* find_entry finds the structure of a name, if there is one.
LEMMA FindsEntry ==
    ASSUME NEW h, Len(h) \in Nat, NEW name, EntriesOf(h, name) # {}
    PROVE  /\ find_entry(h, name) \in Structs(h)
           /\ h[find_entry(h, name)].name = name
<1>1. EntriesOf(h, name) \in SUBSET Nat
  BY DEF EntriesOf, Structs
<1>2. \E i \in EntriesOf(h, name) : \A j \in EntriesOf(h, name) : i <= j
  BY <1>1, LeastNumber
<1>3. find_entry(h, name) \in EntriesOf(h, name)
  BY <1>2 DEF find_entry
<1> QED BY <1>3 DEF EntriesOf

\* What a structure nests are structures, those of its fields.
LEMMA NestsStructs ==
    ASSUME NEW h, Parsed(h), NEW i \in Structs(h)
    PROVE  /\ Nests(h, i) \subseteq Structs(h)
           /\ \A k \in Fields(h, i) :
                 LET f == h[i].fields[k]
                 IN  f.is_struct_type /\ ~Unknown(h, f) =>
                        find_entry(h, f.type_name) \in Nests(h, i)
<1>1. Len(h) \in Nat
  BY Declared
<1>2. ASSUME NEW k \in Fields(h, i), h[i].fields[k].is_struct_type,
             ~Unknown(h, h[i].fields[k])
      PROVE  find_entry(h, h[i].fields[k].type_name) \in Structs(h)
  BY <1>1, <1>2, FindsEntry DEF Unknown
<1> QED BY <1>2 DEF Nests

\* The types of fields are types.
LEMMA DeclaredTypes ==
    ASSUME NEW h, Parsed(h), NEW types \in [Structs(h) -> TypeType],
           NEW i \in Structs(h), NEW k \in Fields(h, i)
    PROVE  DeclaredType(h, types, h[i].fields[k]) \in TypeType
<1> DEFINE f == h[i].fields[k]
<1>0. f \in FieldDeclaration
  BY Declared
<1>1. CASE Unknown(h, f)
  <2>1. DeclaredType(h, types, f) = NoType
    BY <1>1 DEF DeclaredType
  <2> QED BY <2>1, BuildAssumption DEF NoType, TypeType, BuildAssumption
<1>2. CASE ~Unknown(h, f) /\ f.is_struct_type
  <2>1. find_entry(h, f.type_name) \in Structs(h)
    BY <1>2, NestsStructs DEF Nests
  <2> QED BY <1>2, <2>1 DEF DeclaredType
<1>3. CASE ~Unknown(h, f) /\ ~f.is_struct_type
  <2>1. f.type_name \in DOMAIN LayoutTypes
    BY <1>3 DEF Unknown
  <2>2. LayoutTypeRight(f.type_name, LayoutTypes[f.type_name])
    BY <2>1, BuildAssumption DEF BuildAssumption
  <2>3. /\ LayoutTypes[f.type_name].size \in Nat
        /\ LayoutTypes[f.type_name].alignment \in PowersOfTwo
    BY <2>2, ArenaAssumption DEF LayoutTypeRight, ArenaAssumption
  <2> QED BY <1>3, <2>3 DEF DeclaredType, TypeType
<1> QED BY <1>1, <1>2, <1>3

\* A field takes what it extends further.
LEMMA ExtendedType ==
    ASSUME NEW extent \in ExtentType, NEW f \in FieldDeclaration,
           NEW type \in TypeType
    PROVE  LET e == Extended(extent, f, type)
               first == FirstMultiple(extent.end, type.alignment)
           IN  /\ e \in ExtentType
               /\ extent.end <= first /\ first <= e.end
               /\ first + type.size <= e.end
               /\ extent.alignment <= e.alignment /\ type.alignment <= e.alignment
<1> DEFINE n == IF f.array_count > 1 THEN f.array_count ELSE 1
           first == FirstMultiple(extent.end, type.alignment)
<1>1. n \in Nat /\ n >= 1
  BY ArenaAssumption DEF FieldDeclaration, ArenaAssumption
<1>2. /\ extent.end \in Nat /\ extent.alignment \in PowersOfTwo
      /\ type.size \in Nat /\ type.alignment \in PowersOfTwo
  BY DEF ExtentType, TypeType
<1>3. first \in Nat /\ extent.end <= first
  BY <1>2, Powers, FirstMultipleIs
<1>4. /\ Extended(extent, f, type).end = first + type.size * n
      /\ Extended(extent, f, type).alignment
            = IF type.alignment > extent.alignment THEN type.alignment
              ELSE extent.alignment
      /\ Extended(extent, f, type)
            = [end |-> first + type.size * n,
               alignment |-> IF type.alignment > extent.alignment
                             THEN type.alignment ELSE extent.alignment]
  BY DEF Extended
<1> HIDE DEF n, first
<1>5. type.size * n \in Nat /\ type.size * n >= type.size
  <2>1. PICK s \in Nat : s = type.size
    BY <1>2
  <2>2. s * n \in Nat /\ s * n >= s
    BY <1>1
  <2> QED BY <2>1, <2>2
<1>6. first + type.size * n \in Nat /\ first + type.size <= first + type.size * n
      /\ first <= first + type.size * n
  BY <1>2, <1>3, <1>5
<1>7. Extended(extent, f, type) \in ExtentType
  BY <1>2, <1>4, <1>6 DEF ExtentType
<1>8. /\ extent.alignment <= Extended(extent, f, type).alignment
      /\ type.alignment <= Extended(extent, f, type).alignment
  BY <1>2, <1>4, Powers
<1> QED BY <1>3, <1>4, <1>6, <1>7, <1>8 DEF first

\* The extents are those of one field after the other.
LEMMA ExtentsAre ==
    ASSUME NEW h, Parsed(h), NEW types \in [Structs(h) -> TypeType],
           NEW i \in Structs(h)
    PROVE  /\ Extents(h, types, i) \in [0..Len(h[i].fields) -> ExtentType]
           /\ Extents(h, types, i)[0] = NoExtent
           /\ \A k \in Fields(h, i) :
                 Extents(h, types, i)[k]
                   = Extended(Extents(h, types, i)[k - 1], h[i].fields[k],
                              DeclaredType(h, types, h[i].fields[k]))
<1> DEFINE n == Len(h[i].fields)
           Type(k) == DeclaredType(h, types, h[i].fields[k])
           Right(e) == e = [k \in 0..n |->
                               IF k = 0 THEN NoExtent
                               ELSE Extended(e[k - 1], h[i].fields[k], Type(k))]
           step == [k \in 1..n |-> [e \in ExtentType |->
                       Extended(e, h[i].fields[k], Type(k))]]
<1>1. n \in Nat /\ Fields(h, i) = 1..n
  BY Declared DEF Fields
<1>2. NoExtent \in ExtentType
  BY BuildAssumption DEF NoExtent, ExtentType, BuildAssumption
<1>3. ASSUME NEW k \in 1..n, NEW e \in ExtentType
      PROVE  Extended(e, h[i].fields[k], Type(k)) \in ExtentType
  <2>1. Type(k) \in TypeType /\ h[i].fields[k] \in FieldDeclaration
    BY <1>1, Declared, DeclaredTypes
  <2> QED BY <2>1, ExtendedType
<1>4. step \in [1..n -> [ExtentType -> ExtentType]]
  BY <1>3
<1>5. PICK e \in [0..n -> ExtentType] : Recursive(e, n, NoExtent, step)
  <2> HIDE DEF step, n
  <2> QED BY <1>1, <1>2, <1>4, RecursionExists
<1>6. e[0] = NoExtent /\ \A k \in 1..n : e[k] = step[k][e[k - 1]]
  BY <1>5 DEF Recursive
<1>7. Right(e)
  <2>1. ASSUME NEW k \in 1..n
        PROVE  step[k][e[k - 1]] = Extended(e[k - 1], h[i].fields[k], Type(k))
    BY <2>1, <1>1
  <2> HIDE DEF step, Type, n
  <2>2. \A k \in 0..n :
            e[k] = IF k = 0 THEN NoExtent
                   ELSE Extended(e[k - 1], h[i].fields[k], Type(k))
    <3> TAKE k \in 0..n
    <3>1. k # 0 => k \in 1..n
      BY <1>1
    <3> QED BY <1>6, <2>1, <3>1, Zenon
  <2>3. e = [k \in 0..n |-> e[k]]
    BY Zenon
  <2> QED BY <2>2, <2>3
<1>8. Extents(h, types, i) = CHOOSE g : Right(g)
  BY Zenon DEF Extents
<1>9. Right(Extents(h, types, i))
  <2> HIDE DEF Right
  <2> QED BY <1>7, <1>8, Zenon
<1> DEFINE g == Extents(h, types, i)
<1> HIDE DEF g
<1>10. g = [k \in 0..n |-> IF k = 0 THEN NoExtent
                           ELSE Extended(g[k - 1], h[i].fields[k], Type(k))]
  BY <1>9 DEF g
<1>11. DOMAIN g = 0..n /\ g = [k \in 0..n |-> g[k]]
  <2> HIDE DEF Type, n
  <2> QED BY <1>10
<1>12. g[0] = NoExtent
  <2> HIDE DEF Type, n
  <2> QED BY <1>1, <1>10
<1>13. \A k \in 1..n : g[k] = Extended(g[k - 1], h[i].fields[k], Type(k))
  <2> HIDE DEF Type, n
  <2> QED BY <1>1, <1>10
<1>14. \A k \in 0..n : g[k] \in ExtentType
  <2> DEFINE T == {k \in 0..n : g[k] \in ExtentType}
  <2>1. 0 \in T
    BY <1>1, <1>2, <1>12
  <2>2. ASSUME NEW k \in 1..n, g[k - 1] \in ExtentType
        PROVE  k \in 0..n /\ g[k] \in ExtentType
    <3> HIDE DEF n, Type
    <3> QED BY <1>1, <1>3, <1>13, <2>2
  <2>3. \A k \in 1..n : k - 1 \in T => k \in T
    BY <2>2
  <2>4. 0..n \subseteq T
    <3> HIDE DEF T
    <3> QED BY <1>1, <2>1, <2>3, CountUp
  <2> QED BY <2>4
<1>15. g \in [0..n -> ExtentType]
  <2> HIDE DEF n
  <2> QED BY <1>11, <1>14
<1> QED BY <1>1, <1>12, <1>13, <1>15 DEF g

\* What is laid out first stays within what is laid out later.
LEMMA ExtentsGrow ==
    ASSUME NEW h, Parsed(h), NEW types \in [Structs(h) -> TypeType],
           NEW i \in Structs(h), NEW j \in 0..Len(h[i].fields),
           NEW k \in j..Len(h[i].fields)
    PROVE  /\ Extents(h, types, i)[j].end <= Extents(h, types, i)[k].end
           /\ Extents(h, types, i)[j].alignment <= Extents(h, types, i)[k].alignment
<1> DEFINE e == Extents(h, types, i)
           n == Len(h[i].fields)
           T == {d \in 0..(n - j) : /\ e[j].end <= e[j + d].end
                                    /\ e[j].alignment <= e[j + d].alignment}
<1>1. n \in Nat /\ Fields(h, i) = 1..n
  BY Declared DEF Fields
<1>2. \A m \in 0..n : e[m] \in ExtentType
  BY <1>1, ExtentsAre
<1>3. \A m \in 0..n : e[m].end \in Nat /\ e[m].alignment \in Nat
  BY <1>2, Powers DEF ExtentType
<1>4. ASSUME NEW m \in 1..n
      PROVE  e[m - 1].end <= e[m].end /\ e[m - 1].alignment <= e[m].alignment
  <2>1. /\ h[i].fields[m] \in FieldDeclaration
        /\ DeclaredType(h, types, h[i].fields[m]) \in TypeType
        /\ e[m] = Extended(e[m - 1], h[i].fields[m],
                           DeclaredType(h, types, h[i].fields[m]))
    BY <1>1, Declared, DeclaredTypes, ExtentsAre
  <2>2. e[m - 1] \in ExtentType
    BY <1>1, <1>2
  <2>3. e[m].end \in Nat /\ e[m - 1].end \in Nat
    BY <1>1, <1>3
  <2> HIDE DEF e
  <2>4. FirstMultiple(e[m - 1].end, DeclaredType(h, types, h[i].fields[m]).alignment)
          \in Nat
    <3>1. /\ e[m - 1].end \in Nat
          /\ DeclaredType(h, types, h[i].fields[m]).alignment \in PowersOfTwo
      BY <2>1, <2>2 DEF ExtentType, TypeType
    <3> QED BY <3>1, FirstMultipleFrom
  <2> QED BY <2>1, <2>2, <2>3, <2>4, ExtendedType
<1> HIDE DEF e, n
<1>5. 0 \in T
  BY <1>1, <1>3 DEF n
<1>6. ASSUME NEW d \in 1..(n - j), d - 1 \in T PROVE d \in T
  <2>1. j + d \in 1..n /\ (j + d) - 1 = j + (d - 1) /\ j \in 0..n
    BY <1>1 DEF n
  <2>2. e[j + (d - 1)].end <= e[j + d].end
        /\ e[j + (d - 1)].alignment <= e[j + d].alignment
    BY <1>4, <2>1
  <2>3. /\ j \in 0..n /\ j + d \in 0..n /\ j + (d - 1) \in 0..n
    BY <1>1, <2>1
  <2>4. /\ e[j].end \in Nat /\ e[j + d].end \in Nat /\ e[j + (d - 1)].end \in Nat
        /\ e[j].alignment \in Nat /\ e[j + d].alignment \in Nat
        /\ e[j + (d - 1)].alignment \in Nat
    BY <1>3, <2>3
  <2>5. e[j].end <= e[j + (d - 1)].end
        /\ e[j].alignment <= e[j + (d - 1)].alignment
    BY <1>6
  <2>6. e[j].end <= e[j + d].end /\ e[j].alignment <= e[j + d].alignment
    BY <2>2, <2>4, <2>5
  <2>7. d \in 0..(n - j)
    BY <1>1
  <2> QED BY <2>6, <2>7
<1>7. n - j \in Nat /\ k - j \in 0..(n - j) /\ j + (k - j) = k
  BY <1>1 DEF n
<1>8. 0..(n - j) \subseteq T
  <2> HIDE DEF T
  <2> QED BY <1>5, <1>6, <1>7, CountUp
<1>9. k - j \in T
  BY <1>7, <1>8
<1> QED BY <1>7, <1>9 DEF e

\* A structure is a type, that has room for its fields.
LEMMA WholeIs ==
    ASSUME NEW h, Parsed(h), NEW types \in [Structs(h) -> TypeType],
           NEW i \in Structs(h)
    PROVE  LET extent == Extents(h, types, i)[Len(h[i].fields)]
           IN  /\ Whole(h, types, i) \in TypeType
               /\ Whole(h, types, i).size
                    = FirstMultiple(extent.end, extent.alignment)
               /\ Whole(h, types, i).alignment = extent.alignment
               /\ extent.end <= Whole(h, types, i).size
<1> DEFINE extent == Extents(h, types, i)[Len(h[i].fields)]
<1>1. extent \in ExtentType
  BY Declared, ExtentsAre
<1>2. Whole(h, types, i) = [size |-> FirstMultiple(extent.end, extent.alignment),
                            alignment |-> extent.alignment]
  BY DEF Whole
<1> HIDE DEF extent
<1>3. extent.end \in Nat /\ extent.alignment \in PowersOfTwo
  BY <1>1 DEF ExtentType
<1>4. /\ FirstMultiple(extent.end, extent.alignment) \in Nat
      /\ extent.end <= FirstMultiple(extent.end, extent.alignment)
  BY <1>3, FirstMultipleFrom
<1>5. Whole(h, types, i) \in TypeType
  BY <1>2, <1>3, <1>4 DEF TypeType
<1> QED BY <1>2, <1>4, <1>5 DEF extent

\* What a structure extends to is a matter of what it nests.
LEMMA SameWhole ==
    ASSUME NEW h, Parsed(h), NEW i \in Structs(h),
           NEW types \in [Structs(h) -> TypeType],
           NEW others \in [Structs(h) -> TypeType],
           \A j \in Nests(h, i) : types[j] = others[j]
    PROVE  Whole(h, types, i) = Whole(h, others, i)
<1> DEFINE e == Extents(h, types, i)
           g == Extents(h, others, i)
           n == Len(h[i].fields)
           T == {k \in 0..n : e[k] = g[k]}
<1>1. n \in Nat /\ Fields(h, i) = 1..n
  BY Declared DEF Fields
<1>2. 0 \in T
  BY <1>1, ExtentsAre
<1>3. ASSUME NEW k \in 1..n, k - 1 \in T PROVE k \in T
  <2>1. DeclaredType(h, types, h[i].fields[k]) = DeclaredType(h, others, h[i].fields[k])
    BY <1>1, NestsStructs DEF DeclaredType
  <2>2. /\ e[k] = Extended(e[k - 1], h[i].fields[k],
                           DeclaredType(h, types, h[i].fields[k]))
        /\ g[k] = Extended(g[k - 1], h[i].fields[k],
                           DeclaredType(h, others, h[i].fields[k]))
    BY <1>1, ExtentsAre
  <2> HIDE DEF e, g
  <2> QED BY <1>1, <1>3, <2>1, <2>2
<1>4. n \in T
  <2>1. 0..n \subseteq T
    <3> HIDE DEF T, n
    <3> QED BY <1>1, <1>2, <1>3, CountUp
  <2> QED BY <1>1, <2>1
<1> QED BY <1>4 DEF Whole

-----------------------------------------------------------------------------
(* Nesting                                                                 *)

\* The structures within a structure: a closed set, and the least such.
LEMMA WithinIs ==
    ASSUME NEW h, Parsed(h), NEW i \in Structs(h)
    PROVE  /\ Within(h, i) \subseteq Structs(h)
           /\ Nests(h, i) \subseteq Within(h, i)
           /\ Closed(h, Within(h, i))
           /\ \A set \in SUBSET Structs(h) :
                 Nests(h, i) \subseteq set /\ Closed(h, set) =>
                    Within(h, i) \subseteq set
<1>1. \A j \in Structs(h) : Nests(h, j) \subseteq Structs(h)
  BY NestsStructs
<1>2. Within(h, i) \subseteq Structs(h) /\ Nests(h, i) \subseteq Within(h, i)
  BY <1>1 DEF Within
<1>3. \A set \in SUBSET Structs(h) :
         Nests(h, i) \subseteq set /\ Closed(h, set) => Within(h, i) \subseteq set
  BY DEF Within
<1>4. ASSUME NEW j \in Within(h, i), NEW k \in Nests(h, j)
      PROVE  k \in Within(h, i)
  <2>1. k \in Structs(h)
    BY <1>1, <1>2
  <2>2. ASSUME NEW set \in SUBSET Structs(h), Nests(h, i) \subseteq set,
               Closed(h, set)
        PROVE  k \in set
    BY <1>3, <2>2 DEF Closed
  <2> QED BY <2>1, <2>2 DEF Within
<1> QED BY <1>2, <1>3, <1>4 DEF Closed

\* A set that is closed and of which no structure nests itself.
Acyclic(h, set) ==
    /\ set \in SUBSET Structs(h)
    /\ Closed(h, set)
    /\ \A i \in set : i \notin Within(h, i)

\* What is within a member of such a set is another one, and smaller.
LEMMA WithinAcyclic ==
    ASSUME NEW h, Parsed(h), NEW set, Acyclic(h, set), NEW i \in set
    PROVE  /\ Acyclic(h, Within(h, i))
           /\ Cardinality(Within(h, i)) \in Nat /\ Cardinality(set) \in Nat
           /\ Cardinality(Within(h, i)) < Cardinality(set)
           /\ Cardinality(set) <= Len(h)
<1>1. Within(h, i) \subseteq set \ {i} /\ Acyclic(h, Within(h, i))
  BY WithinIs DEF Acyclic, Closed
<1>2. IsFiniteSet(Structs(h)) /\ Cardinality(Structs(h)) = Len(h)
  <2>1. Len(h) \in Nat
    BY Declared
  <2>2. PICK n \in Nat : n = Len(h)
    BY <2>1
  <2>3. /\ IsFiniteSet(1..n)
        /\ Cardinality(1..n) = IF 1 > n THEN 0 ELSE n - 1 + 1
    BY FS_Interval
  <2>4. Cardinality(1..n) = n
    BY <2>3
  <2> QED BY <2>2, <2>3, <2>4 DEF Structs
<1>3. IsFiniteSet(set) /\ Cardinality(set) <= Len(h) /\ Cardinality(set) \in Nat
  BY <1>2, FS_Subset, FS_CardinalityType DEF Acyclic
<1>4. IsFiniteSet(set \ {i}) /\ Cardinality(set \ {i}) = Cardinality(set) - 1
  BY <1>3, FS_RemoveElement
<1>5. IsFiniteSet(Within(h, i)) /\ Cardinality(Within(h, i)) <= Cardinality(set \ {i})
  BY <1>1, <1>4, FS_Subset
<1>6. Cardinality(Within(h, i)) \in Nat
  BY <1>5, FS_CardinalityType
<1> QED BY <1>1, <1>3, <1>4, <1>5, <1>6

\* Each round takes what structures nest from the round before.
LEMMA RoundsAre ==
    ASSUME NEW h, Parsed(h)
    PROVE  /\ \A n \in 0..Len(h) : Rounds(h)[n] \in [Structs(h) -> TypeType]
           /\ \A n \in 1..Len(h), i \in Structs(h) :
                 Rounds(h)[n][i] = Whole(h, Rounds(h)[n - 1], i)
<1> DEFINE S == [Structs(h) -> TypeType]
           first == [i \in Structs(h) |-> NoType]
           Next1(types) == [i \in Structs(h) |-> Whole(h, types, i)]
           step == [n \in 1..Len(h) |-> [types \in S |-> Next1(types)]]
           Right(r) == r = [n \in 0..Len(h) |->
                               IF n = 0 THEN [i \in Structs(h) |-> NoType]
                               ELSE [i \in Structs(h) |-> Whole(h, r[n - 1], i)]]
<1>1. Len(h) \in Nat
  BY Declared
<1>2. first \in S
  BY BuildAssumption DEF NoType, TypeType, BuildAssumption
<1>3. ASSUME NEW types \in S PROVE Next1(types) \in S
  BY <1>3, WholeIs
<1>4. step \in [1..Len(h) -> [S -> S]]
  <2> HIDE DEF S, Next1
  <2> QED BY <1>3
<1>5. PICK r \in [0..Len(h) -> S] : Recursive(r, Len(h), first, step)
  <2> HIDE DEF S, step, first
  <2> QED BY <1>1, <1>2, <1>4, RecursionExists
<1>6. ASSUME NEW n \in 0..Len(h)
      PROVE  r[n] = IF n = 0 THEN [i \in Structs(h) |-> NoType]
                    ELSE [i \in Structs(h) |-> Whole(h, r[n - 1], i)]
  <2>1. CASE n = 0
    BY <1>5, <2>1 DEF Recursive
  <2>2. CASE n # 0
    <3>1. n \in 1..Len(h) /\ n - 1 \in 0..Len(h)
      BY <1>1, <2>2
    <3>2. r[n] = step[n][r[n - 1]] /\ r[n - 1] \in S
      BY <1>5, <3>1 DEF Recursive
    <3>3. step[n][r[n - 1]] = Next1(r[n - 1])
      <4> HIDE DEF S, Next1
      <4> QED BY <3>1, <3>2
    <3> QED BY <2>2, <3>2, <3>3
  <2> QED BY <2>1, <2>2
<1>7. Right(r)
  <2>1. r = [n \in 0..Len(h) |-> r[n]]
    <3> HIDE DEF S
    <3> QED BY Zenon
  <2> QED BY <1>6, <2>1, Zenon
<1>8. Rounds(h) = CHOOSE g : Right(g)
  BY Zenon DEF Rounds
<1>9. Right(Rounds(h))
  <2> HIDE DEF Right
  <2> QED BY <1>7, <1>8, Zenon
<1>10. Recursive(Rounds(h), Len(h), first, step) /\ \A n \in 0..Len(h) : Rounds(h)[n] \in S
  <2> DEFINE g == Rounds(h)
  <2> HIDE DEF g
  <2>1. Right(g)
    BY <1>9 DEF g
  <2>2. g[0] = first
    BY <1>1, <2>1
  <2>3. ASSUME NEW n \in 1..Len(h) PROVE g[n] = Next1(g[n - 1])
    <3>1. n \in 0..Len(h) /\ n # 0
      BY <1>1
    <3> QED BY <2>1, <3>1, Zenon
  <2> DEFINE T == {n \in 0..Len(h) : g[n] \in S}
  <2>4. 0 \in T
    <3> HIDE DEF first, S
    <3> QED BY <1>1, <1>2, <2>2
  <2>5. ASSUME NEW n \in 1..Len(h), n - 1 \in T PROVE n \in T
    <3> HIDE DEF S, Next1
    <3> QED BY <1>1, <1>3, <2>3, <2>5
  <2>6. 0..Len(h) \subseteq T
    <3> HIDE DEF T
    <3> QED BY <1>1, <2>4, <2>5, CountUp
  <2>7. ASSUME NEW n \in 1..Len(h) PROVE g[n] = step[n][g[n - 1]]
    <3>1. n - 1 \in T
      BY <1>1, <2>6
    <3> HIDE DEF S, Next1
    <3> QED BY <2>3, <3>1
  <2>8. Recursive(g, Len(h), first, step)
    <3> HIDE DEF first, step
    <3> QED BY <2>2, <2>7 DEF Recursive
  <2> HIDE DEF S
  <2> QED BY <2>6, <2>8 DEF g
<1>11. ASSUME NEW n \in 1..Len(h), NEW i \in Structs(h)
       PROVE  Rounds(h)[n][i] = Whole(h, Rounds(h)[n - 1], i)
  <2>1. Rounds(h)[n] = step[n][Rounds(h)[n - 1]]
    BY <1>10 DEF Recursive
  <2>2. Rounds(h)[n - 1] \in S
    <3>1. n - 1 \in 0..Len(h)
      BY <1>1
    <3> HIDE DEF S
    <3> QED BY <1>10, <3>1
  <2>3. Rounds(h)[n] = Next1(Rounds(h)[n - 1])
    <3> HIDE DEF S, Next1
    <3> QED BY <2>1, <2>2
  <2> QED BY <2>3
<1> QED BY <1>10, <1>11

\* A set of n structures that do not nest themselves is settled after n rounds.
LEMMA RoundsSettle ==
    ASSUME NEW h, Parsed(h), NEW n \in 0..Len(h),
           NEW set, Acyclic(h, set), Cardinality(set) <= n,
           NEW m \in n..Len(h), NEW i \in set
    PROVE  Rounds(h)[m][i] = Rounds(h)[n][i]
<1> DEFINE Settled(l) ==
        \A s \in SUBSET Structs(h) :
            Acyclic(h, s) /\ Cardinality(s) <= l =>
               \A k \in l..Len(h), j \in s : Rounds(h)[k][j] = Rounds(h)[l][j]
           T == {l \in 0..Len(h) : Settled(l)}
<1>1. Len(h) \in Nat
  BY Declared
<1>2. Settled(0)
  <2> SUFFICES ASSUME NEW s \in SUBSET Structs(h), Acyclic(h, s),
                      Cardinality(s) <= 0, NEW j \in s
               PROVE  FALSE
    OBVIOUS
  <2>1. /\ Cardinality(Within(h, j)) \in Nat /\ Cardinality(s) \in Nat
        /\ Cardinality(Within(h, j)) < Cardinality(s)
    BY WithinAcyclic
  <2> QED BY <2>1
<1>3. ASSUME NEW l \in 1..Len(h), Settled(l - 1) PROVE Settled(l)
  <2> SUFFICES ASSUME NEW s \in SUBSET Structs(h), Acyclic(h, s),
                      Cardinality(s) <= l, NEW k \in l..Len(h), NEW j \in s
               PROVE  Rounds(h)[k][j] = Rounds(h)[l][j]
    OBVIOUS
  <2>1. /\ Acyclic(h, Within(h, j))
        /\ Cardinality(Within(h, j)) <= l - 1
        /\ Within(h, j) \in SUBSET Structs(h)
    <3>1. /\ Acyclic(h, Within(h, j))
          /\ Cardinality(Within(h, j)) \in Nat /\ Cardinality(s) \in Nat
          /\ Cardinality(Within(h, j)) < Cardinality(s)
      BY WithinAcyclic
    <3>2. Cardinality(Within(h, j)) <= l - 1
      BY <3>1, <1>1
    <3> QED BY <3>1, <3>2 DEF Acyclic
  <2>2. k - 1 \in (l - 1)..Len(h) /\ k \in 1..Len(h) /\ k - 1 \in 0..Len(h)
        /\ l - 1 \in 0..Len(h)
    BY <1>1
  <2>3. \A p \in Within(h, j) : Rounds(h)[k - 1][p] = Rounds(h)[l - 1][p]
    BY <1>3, <2>1, <2>2
  <2>4. j \in Structs(h) /\ Nests(h, j) \subseteq Within(h, j)
    BY WithinIs
  <2>5. /\ Rounds(h)[k - 1] \in [Structs(h) -> TypeType]
        /\ Rounds(h)[l - 1] \in [Structs(h) -> TypeType]
    BY <2>2, RoundsAre
  <2>6. Whole(h, Rounds(h)[k - 1], j) = Whole(h, Rounds(h)[l - 1], j)
    BY <2>3, <2>4, <2>5, SameWhole
  <2> QED BY <2>2, <2>4, <2>6, RoundsAre
<1>4. 0 \in T /\ \A l \in 1..Len(h) : l - 1 \in T => l \in T
  <2> HIDE DEF Settled
  <2> QED BY <1>1, <1>2, <1>3
<1>5. n \in T
  <2>1. 0..Len(h) \subseteq T
    <3> HIDE DEF T
    <3> QED BY <1>1, <1>4, CountUp
  <2> QED BY <2>1
<1>6. Settled(n)
  <2> HIDE DEF Settled
  <2> QED BY <1>5
<1> QED BY <1>6 DEF Acyclic

\* Structures that do not nest themselves, directly or within others, have
\* the type that the types of all structures make of them.
LEMMA TypesAre ==
    ASSUME NEW h, Parsed(h)
    PROVE  /\ Types(h) \in [Structs(h) -> TypeType]
           /\ \A set \in SUBSET Structs(h) :
                 Acyclic(h, set) =>
                    \A i \in set : Types(h)[i] = Whole(h, Types(h), i)
<1>1. Len(h) \in Nat
  BY Declared
<1>2. Types(h) \in [Structs(h) -> TypeType]
  BY <1>1, RoundsAre DEF Types
<1>3. ASSUME NEW set \in SUBSET Structs(h), Acyclic(h, set), NEW i \in set
      PROVE  Types(h)[i] = Whole(h, Types(h), i)
  <2> DEFINE n == Len(h) - 1
  <2>1. /\ Acyclic(h, Within(h, i))
        /\ Cardinality(Within(h, i)) \in Nat /\ Cardinality(set) \in Nat
        /\ Cardinality(Within(h, i)) < Cardinality(set)
        /\ Cardinality(set) <= Len(h)
    BY <1>3, WithinAcyclic
  <2>2. /\ n \in 0..Len(h) /\ Len(h) \in n..Len(h) /\ Len(h) \in 1..Len(h)
        /\ Cardinality(Within(h, i)) <= n
    BY <1>1, <2>1
  <2>3. \A j \in Within(h, i) : Rounds(h)[Len(h)][j] = Rounds(h)[n][j]
    <3> HIDE DEF n
    <3> QED BY <2>1, <2>2, RoundsSettle
  <2>4. i \in Structs(h) /\ Nests(h, i) \subseteq Within(h, i)
    BY WithinIs
  <2>5. Rounds(h)[n] \in [Structs(h) -> TypeType]
    BY <2>2, RoundsAre
  <2>6. Rounds(h)[Len(h)][i] = Whole(h, Rounds(h)[n], i)
    BY <2>2, <2>4, RoundsAre
  <2>7. Whole(h, Rounds(h)[n], i) = Whole(h, Types(h), i)
    BY <1>2, <2>3, <2>4, <2>5, SameWhole DEF Types
  <2> QED BY <2>6, <2>7 DEF Types
<1> QED BY <1>2, <1>3

\* Structures that nest one another, and the last an earlier one or itself:
\* it is within itself.
LEMMA Chain ==
    ASSUME NEW h, Parsed(h), NEW n \in Nat, NEW e \in [1..n -> Structs(h)],
           \A p \in 1..(n - 1) : e[p + 1] \in Nests(h, e[p]),
           NEW q \in 1..n, e[q] \in Nests(h, e[n])
    PROVE  e[n] \in Within(h, e[n])
<1> DEFINE within == Within(h, e[n])
           T == {d \in 0..(n - q) : e[q + d] \in within}
<1>0. n \in 1..n
  OBVIOUS
<1>1. e[n] \in Structs(h) /\ Nests(h, e[n]) \subseteq within /\ Closed(h, within)
  BY <1>0, WithinIs
<1> HIDE DEF within
<1>2. 0 \in T
  BY <1>1
<1>3. ASSUME NEW d \in 1..(n - q), d - 1 \in T PROVE d \in T
  <2>1. e[q + (d - 1)] \in within
    BY <1>3
  <2>2. q + (d - 1) \in 1..(n - 1) /\ (q + (d - 1)) + 1 = q + d
    OBVIOUS
  <2>3. e[q + d] \in Nests(h, e[q + (d - 1)])
    BY <2>2
  <2> QED BY <1>1, <2>1, <2>3 DEF Closed
<1>4. n - q \in Nat /\ q + (n - q) = n
  OBVIOUS
<1>5. 0..(n - q) \subseteq T
  <2> HIDE DEF T
  <2> QED BY <1>2, <1>3, <1>4, CountUp
<1>6. n - q \in T
  BY <1>4, <1>5
<1> QED BY <1>4, <1>6 DEF within

-----------------------------------------------------------------------------
(* The arithmetic of Layout does what the reference layout says            *)

\* layout_add places a field where the reference layout has it, or there is no
\* room for it there.
LEMMA AddsField ==
    ASSUME Top.offset \in 0..SizeMax, Top.alignment \in PowersOfTwo,
           NEW size \in 1..SizeMax, NEW count \in 1..SizeMax, NEW align \in PowersOfTwo
    PROVE  LET code == Layout!AddResult(size, count, align)
               place == Layout!Place(size, count, align)
               first == FirstMultiple(Top.offset, align)
           IN  /\ code \in {"OK", "OUT_OF_RANGE"}
               /\ code = "OK" =>
                     /\ place.offset = first
                     /\ Layout!Wrap(place.offset + place.size) = first + size * count
                     /\ first + size * count <= SizeMax
               /\ code = "OUT_OF_RANGE" => first + size * count > SizeMax
<1> DEFINE first == FirstMultiple(Top.offset, align)
<1>1. LP!TypeOK
  BY ArenaAssumption, BuildAssumption DEF LP!TypeOK, LP!Member, ArenaAssumption, BuildAssumption
<1>2. /\ SizeMax \in Nat /\ size \in 0..SizeMax /\ count \in 0..SizeMax
      /\ align \in 0..SizeMax
  BY ArenaAssumption, Powers DEF ArenaAssumption
<1>3. /\ LP!AddResult(size, count, align) = Layout!AddResult(size, count, align)
      /\ LP!Place(size, count, align) = Layout!Place(size, count, align)
  BY Zenon DEF LP!AddResult, Layout!AddResult, LP!Place, Layout!Place,
     LP!BadArgument, Layout!BadArgument, LP!OffsetOverflows, Layout!OffsetOverflows,
     LP!ArrayOverflows, Layout!ArrayOverflows, LP!MemberOverflows,
     Layout!MemberOverflows, LP!Wrap, Layout!Wrap, LP!Padding, Layout!Padding,
     LP!is_power_of_two, Layout!is_power_of_two
<1>4. /\ LP!FirstMultiple(Top.offset, align) = first
      /\ first = Top.offset + LP!Padding(Top.offset, align)
  <2>1. LP!FirstMultiple(Top.offset, align) = Top.offset + LP!Padding(Top.offset, align)
    BY <1>2, Powers, LayoutHolds, LP!FirstMultipleIsPadded
  <2>2. LP!FirstMultiple(Top.offset, align) = first
    BY DEF LP!FirstMultiple, FirstMultiple
  <2> QED BY <2>1, <2>2
<1>5. Layout!AddResult(size, count, align) \in {"OK", "OUT_OF_RANGE"}
  BY DEF Layout!AddResult, Layout!BadArgument, Layout!is_power_of_two
<1>6. ASSUME Layout!AddResult(size, count, align) = "OK"
      PROVE  /\ Layout!Place(size, count, align).offset = first
             /\ Layout!Wrap(Layout!Place(size, count, align).offset
                            + Layout!Place(size, count, align).size)
                  = first + size * count
             /\ first + size * count <= SizeMax
  <2>1. /\ LP!Place(size, count, align) =
                 [offset |-> first, size |-> size * count, alignment |-> align]
        /\ first + size * count \in 0..SizeMax
    BY <1>1, <1>2, <1>3, <1>4, <1>6, LayoutHolds, LP!PlaceFits
  <2>2. LP!Wrap(first + size * count) = first + size * count
    BY <2>1, LayoutHolds, LP!WrapFits
  <2>3. Layout!Wrap(first + size * count) = LP!Wrap(first + size * count)
    BY DEF LP!Wrap, Layout!Wrap
  <2> QED BY <1>3, <2>1, <2>2, <2>3
<1>7. ASSUME Layout!AddResult(size, count, align) = "OUT_OF_RANGE"
      PROVE  first + size * count > SizeMax
  BY <1>1, <1>2, <1>3, <1>4, <1>7, LayoutHolds, LP!OutOfRangeIsReal
<1> QED BY <1>5, <1>6, <1>7

\* layout_end rounds the size up, or there is no room for it.
LEMMA EndsLayout ==
    ASSUME Top.offset \in 1..SizeMax, Top.alignment \in PowersOfTwo
    PROVE  LET size == FirstMultiple(Top.offset, Top.alignment)
           IN  /\ Layout!EndResult \in {"OK", "OUT_OF_RANGE"}
               /\ Layout!EndResult = "OK" =>
                     Layout!EndSize = size /\ size \in 1..SizeMax
               /\ Layout!EndResult = "OUT_OF_RANGE" => size > SizeMax
<1> DEFINE size == FirstMultiple(Top.offset, Top.alignment)
           padding == LP!Padding(Top.offset, Top.alignment)
<1>1. LP!TypeOK
  BY ArenaAssumption, BuildAssumption DEF LP!TypeOK, LP!Member, ArenaAssumption, BuildAssumption
<1>2. SizeMax \in Nat /\ Top.offset \in Nat /\ Top.alignment \in Nat \ {0}
  BY ArenaAssumption, Powers DEF ArenaAssumption
<1>3. size = Top.offset + padding
  <2>1. LP!FirstMultiple(Top.offset, Top.alignment) = Top.offset + padding
    BY <1>2, LayoutHolds, LP!FirstMultipleIsPadded
  <2>2. LP!FirstMultiple(Top.offset, Top.alignment) = size
    BY DEF LP!FirstMultiple, FirstMultiple
  <2> QED BY <2>1, <2>2
<1>4. padding \in Nat
  <2>1. padding \in 0..(Top.alignment - 1)
    BY <1>2, LayoutHolds, LP!PaddingAligns
  <2> HIDE DEF padding
  <2> QED BY <1>2, <2>1
<1>5. /\ LP!EndResult = Layout!EndResult /\ LP!EndSize = Layout!EndSize
  BY Zenon DEF LP!EndResult, Layout!EndResult, LP!EndSize, Layout!EndSize,
     LP!OffsetOverflows, Layout!OffsetOverflows, LP!Wrap, Layout!Wrap,
     LP!Padding, Layout!Padding, LP!is_power_of_two, Layout!is_power_of_two
<1>6. Layout!EndResult \in {"OK", "OUT_OF_RANGE"}
  BY DEF Layout!EndResult, Layout!is_power_of_two
<1>7. ASSUME Layout!EndResult = "OK"
      PROVE  Layout!EndSize = size /\ size \in 1..SizeMax
  BY <1>1, <1>3, <1>5, <1>7, LayoutHolds, LP!EndFits
<1>8. ASSUME Layout!EndResult = "OUT_OF_RANGE"
      PROVE  size > SizeMax
  <2>1. padding > SizeMax - Top.offset
    BY <1>5, <1>8 DEF LP!EndResult, LP!is_power_of_two, LP!OffsetOverflows
  <2> HIDE DEF padding, size
  <2> QED BY <1>2, <1>3, <1>4, <2>1
<1> QED BY <1>6, <1>7, <1>8

-----------------------------------------------------------------------------
(* The inductive invariant                                                 *)

\* The field of a descriptor that stands for field k of structure i.
Stands(h, i, k, field) ==
    LET f == h[i].fields[k]
        type == DeclaredType(h, Types(h), f)
        extents == Extents(h, Types(h), i)
        size == type.size * DeclaredCount(f)
    IN  /\ FieldRight(h, f)
        /\ type.size >= 1
        /\ extents[k].end <= SizeMax
        /\ field.name = f.name /\ field.attributes = f.attributes
        /\ field.offset = FirstMultiple(extents[k - 1].end, type.alignment)
        /\ field.element_size = type.size
        /\ field.nested = IF f.is_struct_type THEN find_entry(h, f.type_name)
                          ELSE NoNested
        /\ field.kind = IF is_char_array(f) THEN "CHAR_ARRAY"
                        ELSE IF f.is_struct_type THEN "STRUCT"
                        ELSE LayoutTypes[f.type_name].kind
        /\ field.element_count = IF is_char_array(f) THEN 1 ELSE DeclaredCount(f)
        /\ field.char_buffer_size = IF is_char_array(f) THEN size ELSE 0

\* The fields stand for the first of structure i, and refer to what is done.
FieldsStand(h, done, i, fields) ==
    \A k \in 1..Len(fields) :
        /\ Stands(h, i, k, fields[k])
        /\ h[i].fields[k].is_struct_type =>
              find_entry(h, h[i].fields[k].type_name) \in done

\* A call of build_one has laid out the fields that it has built.
FrameRight(h, done, frame) ==
    LET i == frame.entry
        n == Len(frame.fields)
        extent == Extents(h, Types(h), i)[n]
    IN  /\ h[i].fields # <<>>
        /\ n <= Len(h[i].fields)
        /\ FieldsStand(h, done, i, frame.fields)
        /\ frame.alignment = extent.alignment
        /\ frame.offset = IF frame.laid THEN Whole(h, Types(h), i).size
                          ELSE extent.end
        /\ frame.laid => n = Len(h[i].fields) /\ frame.offset >= 1

\* The descriptor of structure i is as it has to be.
BuiltRight(h, done, i, d) ==
    /\ h[i].fields # <<>>
    /\ Nests(h, i) \subseteq done
    /\ i \notin Within(h, i)
    /\ d.name = h[i].name /\ d.attributes = h[i].attributes
    /\ d.size = Types(h)[i].size /\ d.size \in 1..SizeMax
    /\ d.alignment = Types(h)[i].alignment
    /\ Len(d.fields) = Len(h[i].fields)
    /\ FieldsStand(h, done, i, d.fields)

Done == {i \in Structs(header) : state[i] = "DONE"}
Active == {i \in Structs(header) : state[i] = "ACTIVE"}

DoneRight == \A i \in Done : BuiltRight(header, Done, i, table[i])

\* While the call is under way: the structures being built are those on the
\* stack, once each, each nests the next, and the loop has left none out.
RunRight ==
    /\ \A p, q \in 1..Len(stack) : stack[p].entry = stack[q].entry => p = q
    /\ Active = {stack[p].entry : p \in 1..Len(stack)}
    /\ \A p \in 1..(Len(stack) - 1) :
          stack[p + 1].entry \in Nests(header, stack[p].entry)
    /\ \A p \in 1..Len(stack) : FrameRight(header, Done, stack[p])
    /\ \A i \in 1..(root - 1) : state[i] # "PENDING"
    /\ root > 0 => header # <<>>

\* What the result says.
VerdictRight ==
    /\ null => starved
    /\ result = "OK" => header # <<>> /\ Done = Structs(header)
    /\ result \notin {"none", "OK"} => starved \/ ~WellFormed(header)

BuildInv ==
    /\ BuildTypeOK
    /\ DoneRight
    /\ result = "none" => RunRight
    /\ VerdictRight

-----------------------------------------------------------------------------
(* What stands keeps standing as more structures are done                  *)

\* Fields keep standing for those of the header.
LEMMA FieldsKeepStanding ==
    ASSUME NEW h, NEW done, NEW more, done \subseteq more, NEW i, NEW fields,
           FieldsStand(h, done, i, fields)
    PROVE  FieldsStand(h, more, i, fields)
BY DEF FieldsStand

\* So does a call under way,
LEMMA FrameKeepsRight ==
    ASSUME NEW h, NEW done, NEW more, done \subseteq more, NEW frame,
           FrameRight(h, done, frame)
    PROVE  FrameRight(h, more, frame)
BY FieldsKeepStanding DEF FrameRight

\* and a descriptor.
LEMMA DescriptorKeepsRight ==
    ASSUME NEW h, NEW done, NEW more, done \subseteq more, NEW i, NEW d,
           BuiltRight(h, done, i, d)
    PROVE  BuiltRight(h, more, i, d)
BY FieldsKeepStanding DEF BuiltRight

-----------------------------------------------------------------------------
(* What a header deserves                                                  *)

\* The structures of a header that deserves to be accepted fit.
LEMMA WellFormedFits ==
    ASSUME NEW h, Parsed(h), WellFormed(h), NEW i \in Structs(h)
    PROVE  /\ Whole(h, Types(h), i).size <= SizeMax
           /\ i \notin Within(h, i)
           /\ h[i].fields # <<>>
           /\ \A k \in Fields(h, i) : FieldRight(h, h[i].fields[k])
<1>1. \A j \in Structs(h) : Nests(h, j) \subseteq Structs(h)
  BY NestsStructs
<1>2. Acyclic(h, Structs(h))
  BY <1>1 DEF Acyclic, Closed, WellFormed
<1>3. Types(h)[i] = Whole(h, Types(h), i)
  BY <1>2, TypesAre
<1> QED BY <1>3 DEF WellFormed

\* No part of such a structure extends further than fits.
LEMMA WellFormedExtents ==
    ASSUME NEW h, Parsed(h), WellFormed(h), NEW i \in Structs(h),
           NEW k \in 0..Len(h[i].fields)
    PROVE  Extents(h, Types(h), i)[k].end <= SizeMax
<1> DEFINE n == Len(h[i].fields)
           e == Extents(h, Types(h), i)
<1>1. n \in Nat /\ Types(h) \in [Structs(h) -> TypeType]
  BY Declared, TypesAre
<1>2. e[k] \in ExtentType /\ e[n] \in ExtentType
  BY <1>1, ExtentsAre
<1>3. e[k].end <= e[n].end
  BY <1>1, ExtentsGrow
<1>4. /\ Whole(h, Types(h), i) \in TypeType
      /\ e[n].end <= Whole(h, Types(h), i).size
  BY <1>1, WholeIs
<1>5. Whole(h, Types(h), i).size <= SizeMax
  BY WellFormedFits
<1>6. /\ e[k].end \in Nat /\ e[n].end \in Nat
      /\ Whole(h, Types(h), i).size \in Nat /\ SizeMax \in Nat
  BY <1>2, <1>4, ArenaAssumption DEF ExtentType, TypeType, ArenaAssumption
<1> HIDE DEF e, n
<1> QED BY <1>3, <1>4, <1>5, <1>6 DEF e, n

-----------------------------------------------------------------------------
(* Fields                                                                  *)

\* A field that is no array counts as one element.
LEMMA CountIs ==
    ASSUME NEW f \in FieldDeclaration
    PROVE  /\ DeclaredCount(f) \in 1..SizeMax
           /\ DeclaredCount(f) = IF f.array_count > 1 THEN f.array_count ELSE 1
<1>1. f.array_count \in 0..SizeMax
  BY DEF FieldDeclaration
<1>2. SizeMax \in Nat /\ 1 <= SizeMax
  BY ArenaAssumption, BuildAssumption DEF ArenaAssumption, BuildAssumption
<1> QED BY <1>1, <1>2 DEF DeclaredCount

\* The extent of a field that there is.
LEMMA ExtentOf ==
    ASSUME NEW h, Parsed(h), NEW i \in Structs(h), NEW k \in Fields(h, i)
    PROVE  LET f == h[i].fields[k]
               type == DeclaredType(h, Types(h), f)
               e == Extents(h, Types(h), i)
           IN  /\ f \in FieldDeclaration /\ type \in TypeType
               /\ k - 1 \in 0..Len(h[i].fields) /\ k \in 0..Len(h[i].fields)
               /\ e[k - 1] \in ExtentType /\ e[k] \in ExtentType
               /\ e[k].end = FirstMultiple(e[k - 1].end, type.alignment)
                             + type.size * DeclaredCount(f)
               /\ e[k].alignment = IF type.alignment > e[k - 1].alignment
                                   THEN type.alignment ELSE e[k - 1].alignment
<1> DEFINE f == h[i].fields[k]
           type == DeclaredType(h, Types(h), f)
           e == Extents(h, Types(h), i)
<1>1. Types(h) \in [Structs(h) -> TypeType]
  BY TypesAre
<1>2. f \in FieldDeclaration /\ type \in TypeType
  BY <1>1, Declared, DeclaredTypes
<1>3. k - 1 \in 0..Len(h[i].fields) /\ k \in 0..Len(h[i].fields)
  BY Declared DEF Fields
<1>4. /\ e \in [0..Len(h[i].fields) -> ExtentType]
      /\ e[k] = Extended(e[k - 1], f, type)
  BY <1>1, ExtentsAre
<1>5. e[k - 1] \in ExtentType /\ e[k] \in ExtentType
  BY <1>3, <1>4
<1> HIDE DEF e, type
<1>6. /\ e[k].end = FirstMultiple(e[k - 1].end, type.alignment)
                    + type.size * DeclaredCount(f)
      /\ e[k].alignment = IF type.alignment > e[k - 1].alignment
                          THEN type.alignment ELSE e[k - 1].alignment
  BY <1>2, <1>4, CountIs DEF Extended
<1> QED BY <1>2, <1>3, <1>5, <1>6 DEF e, type

-----------------------------------------------------------------------------
(* What build_field makes of a field                                       *)

\* The header comes from the parser.
LEMMA HeaderParsed ==
    ASSUME BuildTypeOK
    PROVE  Parsed(header)
BY BuildAssumption DEF BuildAssumption, BuildTypeOK

\* A field that build_field accepts has the type that it declares.
LEMMA FieldAccepted ==
    ASSUME BuildTypeOK, DoneRight,
           NEW i \in Structs(header), NEW k \in Fields(header, i),
           FieldError(header[i].fields[k]) = "OK",
           header[i].fields[k].is_struct_type =>
              state[find_entry(header, header[i].fields[k].type_name)] = "DONE"
    PROVE  LET f == header[i].fields[k]
               type == DeclaredType(header, Types(header), f)
           IN  /\ FieldRight(header, f)
               /\ ElementType(f).size = type.size
               /\ ElementType(f).alignment = type.alignment
               /\ ElementType(f).kind = IF f.is_struct_type THEN "STRUCT"
                                        ELSE LayoutTypes[f.type_name].kind
               /\ ElementType(f).kind \in Kinds
               /\ type.size \in 1..SizeMax
               /\ type.alignment \in PowersOfTwo
               /\ f.is_struct_type =>
                     /\ find_entry(header, f.type_name) \in Structs(header)
                     /\ find_entry(header, f.type_name) \in Done
<1> DEFINE f == header[i].fields[k]
           type == DeclaredType(header, Types(header), f)
           j == find_entry(header, f.type_name)
<1>1. Parsed(header)
  BY HeaderParsed
<1>2. FieldRight(header, f) /\ ~Unknown(header, f)
  BY DEF FieldError, FieldRight
<1>3. CASE f.is_struct_type
  <2>1. j \in Structs(header)
    BY <1>1, <1>2, <1>3, NestsStructs DEF Nests
  <2>2. j \in Done
    BY <1>3, <2>1 DEF Done
  <2>3. BuiltRight(header, Done, j, table[j])
    BY <2>2 DEF DoneRight
  <2>4. type = Types(header)[j]
    BY <1>2, <1>3 DEF DeclaredType
  <2>5. type \in TypeType
    BY <1>1, <2>1, <2>4, TypesAre
  <2> HIDE DEF f, type, j
  <2>6. /\ type.size = table[j].size /\ type.alignment = table[j].alignment
        /\ table[j].size \in 1..SizeMax
    BY <2>3, <2>4 DEF BuiltRight
  <2>7. ElementType(f) = [kind |-> "STRUCT", size |-> table[j].size,
                          alignment |-> table[j].alignment]
    BY <1>3 DEF ElementType, j
  <2>8. type.alignment \in PowersOfTwo
    BY <2>5 DEF TypeType
  <2> QED BY <1>2, <1>3, <2>1, <2>2, <2>6, <2>7, <2>8 DEF f, type, j, Kinds
<1>4. CASE ~f.is_struct_type
  <2>1. f.type_name \in DOMAIN LayoutTypes
    BY <1>2, <1>4 DEF Unknown
  <2>2. LayoutTypeRight(f.type_name, LayoutTypes[f.type_name])
    BY <2>1, BuildAssumption DEF BuildAssumption
  <2>3. type = [size |-> LayoutTypes[f.type_name].size,
                alignment |-> LayoutTypes[f.type_name].alignment]
    BY <1>2, <1>4 DEF DeclaredType
  <2>4. ElementType(f) = LayoutTypes[f.type_name]
    BY <1>4 DEF ElementType
  <2>5. /\ LayoutTypes[f.type_name].kind \in Kinds
        /\ LayoutTypes[f.type_name].size \in 1..SizeMax
        /\ LayoutTypes[f.type_name].alignment \in PowersOfTwo
    BY <2>2 DEF LayoutTypeRight, Kinds
  <2> QED BY <1>2, <1>4, <2>3, <2>4, <2>5
<1> QED BY <1>3, <1>4

\* The field of the descriptor is one, and stands for that of the header.
LEMMA DescribedStands ==
    ASSUME BuildTypeOK, DoneRight,
           NEW i \in Structs(header), NEW k \in Fields(header, i),
           FieldError(header[i].fields[k]) = "OK",
           header[i].fields[k].is_struct_type =>
              state[find_entry(header, header[i].fields[k].type_name)] = "DONE",
           Extents(header, Types(header), i)[k].end <= SizeMax
    PROVE  LET f == header[i].fields[k]
               e == Extents(header, Types(header), i)
               type == DeclaredType(header, Types(header), f)
               field == Described(f, FirstMultiple(e[k - 1].end, type.alignment))
           IN  Stands(header, i, k, field) /\ field \in FieldType
<1> DEFINE f == header[i].fields[k]
           type == DeclaredType(header, Types(header), f)
           e == Extents(header, Types(header), i)
           first == FirstMultiple(e[k - 1].end, type.alignment)
           field == Described(f, first)
           n == DeclaredCount(f)
           size == type.size * n
           j == find_entry(header, f.type_name)
<1>1. Parsed(header)
  BY HeaderParsed
<1>2. /\ FieldRight(header, f)
      /\ ElementType(f).size = type.size
      /\ ElementType(f).kind = IF f.is_struct_type THEN "STRUCT"
                               ELSE LayoutTypes[f.type_name].kind
      /\ ElementType(f).kind \in Kinds
      /\ type.size \in 1..SizeMax
      /\ f.is_struct_type => j \in Structs(header)
  BY FieldAccepted
<1>3. /\ f \in FieldDeclaration /\ type \in TypeType
      /\ e[k - 1] \in ExtentType /\ e[k].end = first + size
  BY <1>1, ExtentOf
<1>4. n \in 1..SizeMax
  BY <1>3, CountIs
<1>5. Stands(header, i, k, field)
  <2> HIDE DEF type, e, first, n
  <2>1. /\ field.name = f.name /\ field.attributes = f.attributes
        /\ field.offset = first /\ field.element_size = ElementType(f).size
        /\ field.nested = (IF f.is_struct_type THEN j ELSE NoNested)
        /\ field.kind = (IF is_char_array(f) THEN "CHAR_ARRAY"
                         ELSE ElementType(f).kind)
        /\ field.element_count = (IF is_char_array(f) THEN 1 ELSE n)
        /\ field.char_buffer_size =
              (IF is_char_array(f) THEN ElementType(f).size * n ELSE 0)
    BY DEF Described, n
  <2> HIDE DEF field, f
  <2>2. type.size >= 1 /\ e[k].end <= SizeMax
    BY <1>2 DEF e
  <2> QED BY <1>2, <2>1, <2>2 DEF Stands, f, type, e, first, n
<1>6. field \in FieldType
  <2>1. first \in Nat
    BY <1>3, FirstMultipleFrom DEF ExtentType, TypeType
  <2>2. SizeMax \in Nat /\ Len(header) \in Nat
    BY <1>1, Declared, ArenaAssumption DEF ArenaAssumption
  <2>3. size \in Nat
    <3> HIDE DEF n
    <3>1. PICK s \in Nat : s = type.size
      BY <1>3 DEF TypeType
    <3>2. PICK m \in Nat : m = n
      BY <1>4, <2>2
    <3> QED BY <3>1, <3>2
  <2>4. first \in 0..SizeMax /\ size \in 0..SizeMax
    <3> HIDE DEF size, first, e
    <3>1. e[k].end <= SizeMax
      BY DEF e
    <3> QED BY <1>3, <2>1, <2>2, <2>3, <3>1
  <2>5. f.name \in Texts /\ f.attributes \in Seq(Attribute)
    BY <1>3 DEF FieldDeclaration
  <2>6. (IF f.is_struct_type THEN j ELSE NoNested) \in 0..Len(header)
    BY <1>2, <2>2 DEF Structs, NoNested
  <2>7. (IF is_char_array(f) THEN "CHAR_ARRAY" ELSE ElementType(f).kind) \in Kinds
    BY <1>2 DEF Kinds
  <2>8. (IF is_char_array(f) THEN 1 ELSE n) \in 1..SizeMax
    BY <1>4, <2>2
  <2>9. (IF is_char_array(f) THEN ElementType(f).size * n ELSE 0) \in 0..SizeMax
    <3>1. ElementType(f).size * n = size
      BY <1>2
    <3> HIDE DEF size, n
    <3> QED BY <3>1, <2>2, <2>4
  <2>10. ElementType(f).size \in 1..SizeMax
    BY <1>2
  <2> HIDE DEF first, f, j
  <2> QED BY <2>4, <2>5, <2>6, <2>7, <2>8, <2>9, <2>10 DEF Described, FieldType, n, j
<1> QED BY <1>5, <1>6

\* A field of the header that deserves it is accepted.
LEMMA ErrorIsReal ==
    ASSUME BuildTypeOK, RunRight, InField, FieldError(Field) # "OK"
    PROVE  /\ FieldError(Field) \in {"NOT_FOUND", "CORRUPT_DESCRIPTOR"}
           /\ ~WellFormed(header)
<1> DEFINE i == Top.entry
           k == Len(Top.fields) + 1
           j == find_entry(header, Field.type_name)
           n == Len(stack)
<1>1. Parsed(header)
  BY HeaderParsed
<1>2. /\ n \in Nat \ {0} /\ stack \in Seq(FrameType)
      /\ Top \in FrameType /\ Top = stack[n]
  BY DEF InField, BuildTypeOK, Top
<1>3. i \in Structs(header) /\ Len(Top.fields) \in Nat
  BY <1>2 DEF FrameType
<1>4. k \in Fields(header, i) /\ Field = header[i].fields[k]
  BY <1>1, <1>3, Declared DEF InField, Field, Source, Fields
<1>5. FieldError(Field) \in {"NOT_FOUND", "CORRUPT_DESCRIPTOR"}
  BY DEF FieldError
<1>6. CASE ~FieldRight(header, Field)
  BY <1>3, <1>4, <1>5, <1>6 DEF WellFormed
<1>7. CASE FieldRight(header, Field)
  <2>1. Circular(Field) /\ ~Unknown(header, Field)
    BY <1>7 DEF FieldError, FieldRight
  <2>2. j \in Nests(header, i) /\ j \in Structs(header)
    BY <1>1, <1>3, <1>4, <2>1, NestsStructs DEF Circular
  <2>3. j \in Active
    BY <2>1, <2>2 DEF Circular, Active
  <2>4. PICK q \in 1..n : stack[q].entry = j
    BY <2>3 DEF RunRight
  <2> DEFINE e == [p \in 1..n |-> stack[p].entry]
  <2>5. e \in [1..n -> Structs(header)]
    <3>1. \A p \in 1..n : stack[p] \in FrameType
      BY <1>2
    <3>2. \A p \in 1..n : stack[p].entry \in Structs(header)
      BY <3>1 DEF FrameType
    <3> QED BY <3>2
  <2>6. \A p \in 1..(n - 1) : e[p + 1] \in Nests(header, e[p])
    <3> TAKE p \in 1..(n - 1)
    <3>1. p \in 1..n /\ p + 1 \in 1..n
      BY <1>2
    <3> QED BY <3>1 DEF RunRight
  <2>7. n \in 1..n /\ e[n] = i /\ e[q] = j
    BY <1>2, <2>4
  <2> HIDE DEF e, n
  <2>8. e[n] \in Within(header, e[n])
    BY <1>1, <1>2, <2>2, <2>5, <2>6, <2>7, Chain
  <2> QED BY <1>3, <1>5, <2>7, <2>8 DEF WellFormed
<1> QED BY <1>6, <1>7

-----------------------------------------------------------------------------
(* Requests                                                                *)

\* An array that fits is a request the arena can serve.
LEMMA RequestIs ==
    ASSUME NEW n \in Nat \ {0}, NEW size \in Nat \ {0}, ArrayFits(n, size)
    PROVE  Request(n * size, PointerAlign) \in RequestType
<1>1. PointerAlign \in Alignments /\ SizeMax \in Nat /\ PointerAlign \in Nat
  BY BuildAssumption, ArenaAssumption DEF BuildAssumption, ArenaAssumption, PointerAlign
<1>2. n * size \in Nat /\ n * size >= 1
  OBVIOUS
<1>3. PICK m \in Nat : m = n * size
  BY <1>2
<1>4. m <= SizeMax - PointerAlign /\ m >= 1
  BY <1>2, <1>3 DEF ArrayFits
<1>5. Request(m, PointerAlign) \in RequestType
  BY <1>1, <1>4 DEF Request, RequestType
<1> QED BY <1>3, <1>5

\* So is a text,
LEMMA CopyIs ==
    ASSUME NEW text \in Texts \cup {NoText}
    PROVE  Copy(text) \in Seq(RequestType)
<1>1. CASE text = NoText
  BY <1>1 DEF Copy
<1>2. CASE text # NoText
  <2>1. TextSize[text] \in 1..(SizeMax - 1)
    BY <1>2, BuildAssumption DEF BuildAssumption, Texts
  <2>2. 1 \in Alignments /\ SizeMax \in Nat
    BY BuildAssumption, ArenaAssumption DEF BuildAssumption, ArenaAssumption
  <2>3. Request(TextSize[text], 1) \in RequestType
    BY <2>1, <2>2 DEF Request, RequestType
  <2> QED BY <1>2, <2>3 DEF Copy
<1> QED BY <1>1, <1>2

\* and the attributes of a field or a structure are such requests,
LEMMA AttributeCopiesAre ==
    ASSUME NEW attributes \in Seq(Attribute), AttributesRight(attributes)
    PROVE  AttributeCopies(attributes) \in Seq(RequestType)
<1> DEFINE n == Len(attributes)
           S == Seq(RequestType)
           first == <<Request(n * SizeOf.attribute, PointerAlign)>>
           More(k) == Copy(attributes[k].key)
           Value(k) == Copy(attributes[k].value)
           step == [k \in 1..n |-> [s \in S |-> s \o More(k) \o Value(k)]]
           Right(f) == f = [k \in 0..n |-> IF k = 0 THEN first
                               ELSE f[k - 1] \o More(k) \o Value(k)]
<1>1. CASE n = 0
  BY <1>1 DEF AttributeCopies
<1>2. CASE n # 0
  <2>1. n \in Nat \ {0}
    BY <1>2
  <2>2. SizeOf.attribute \in Nat \ {0} /\ ArrayFits(n, SizeOf.attribute)
    BY BuildAssumption DEF BuildAssumption, AttributesRight
  <2>3. first \in S
    <3> HIDE DEF n
    <3>1. Request(n * SizeOf.attribute, PointerAlign) \in RequestType
      BY <2>1, <2>2, RequestIs
    <3> QED BY <3>1
  <2>4. ASSUME NEW k \in 1..n PROVE More(k) \in S /\ Value(k) \in S
    <3>1. attributes[k] \in Attribute
      OBVIOUS
    <3>2. attributes[k].key \in Texts /\ attributes[k].value \in Texts \cup {NoText}
      BY <3>1 DEF Attribute
    <3> QED BY <3>2, CopyIs
  <2>5. ASSUME NEW k \in 1..n, NEW s \in S PROVE s \o More(k) \o Value(k) \in S
    <3>1. More(k) \in S /\ Value(k) \in S
      BY <2>4
    <3> HIDE DEF More, Value
    <3> QED BY <3>1
  <2>6. step \in [1..n -> [S -> S]]
    <3> HIDE DEF S, More, Value
    <3> QED BY <2>5
  <2>7. PICK f \in [0..n -> S] : Recursive(f, n, first, step)
    <3> HIDE DEF S, step, first, n
    <3> QED BY <2>1, <2>3, <2>6, RecursionExists
  <2>8. ASSUME NEW k \in 0..n
        PROVE  f[k] = IF k = 0 THEN first ELSE f[k - 1] \o More(k) \o Value(k)
    <3>1. CASE k = 0
      BY <2>7, <3>1 DEF Recursive
    <3>2. CASE k # 0
      <4>1. k \in 1..n /\ k - 1 \in 0..n
        BY <2>1, <3>2
      <4>2. f[k] = step[k][f[k - 1]] /\ f[k - 1] \in S
        BY <2>7, <4>1 DEF Recursive
      <4>3. step[k][f[k - 1]] = f[k - 1] \o More(k) \o Value(k)
        <5> HIDE DEF S, More, Value
        <5> QED BY <4>1, <4>2
      <4> QED BY <3>2, <4>2, <4>3
    <3> QED BY <3>1, <3>2
  <2>9. Right(f)
    <3>1. f = [k \in 0..n |-> f[k]]
      <4> HIDE DEF S
      <4> QED BY Zenon
    <3> HIDE DEF More, Value, first, n
    <3> QED BY <2>8, <3>1, Zenon
  <2> DEFINE copies == CHOOSE g : Right(g)
  <2>10. Right(copies)
    <3> HIDE DEF Right
    <3> QED BY <2>9, Zenon
  <2> HIDE DEF copies
  <2>11. AttributeCopies(attributes) = copies[n]
    BY <1>2, Zenon DEF AttributeCopies, copies
  <2>12. copies[0] = first
    <3> HIDE DEF first, More, Value, n
    <3> QED BY <2>1, <2>10
  <2>13. ASSUME NEW k \in 1..n PROVE copies[k] = copies[k - 1] \o More(k) \o Value(k)
    <3>1. k \in 0..n /\ k # 0
      BY <2>1
    <3> HIDE DEF first, More, Value, n
    <3> QED BY <2>10, <3>1, Zenon
  <2> DEFINE T == {k \in 0..n : copies[k] \in S}
  <2>14. 0 \in T
    <3> HIDE DEF first, S
    <3> QED BY <2>1, <2>3, <2>12
  <2>15. ASSUME NEW k \in 1..n, k - 1 \in T PROVE k \in T
    <3>1. copies[k - 1] \in S /\ k \in 0..n
      BY <2>1, <2>15
    <3>2. copies[k] \in S
      <4> HIDE DEF S, More, Value
      <4> QED BY <2>5, <2>13, <3>1
    <3> QED BY <3>1, <3>2
  <2>16. 0..n \subseteq T
    <3> HIDE DEF T, n
    <3> QED BY <2>1, <2>14, <2>15, CountUp
  <2>17. copies[n] \in S
    <3> HIDE DEF S
    <3> QED BY <2>1, <2>16
  <2> QED BY <2>11, <2>17
<1> QED BY <1>1, <1>2

\* and all texts of one.
LEMMA TextsAre ==
    ASSUME NEW x, x.name \in Texts, x.brief \in Texts \cup {NoText},
           x.attributes \in Seq(Attribute), AttributesRight(x.attributes)
    PROVE  TextsOf(x) \in Seq(RequestType)
<1>1. /\ Copy(x.name) \in Seq(RequestType) /\ Copy(x.brief) \in Seq(RequestType)
      /\ AttributeCopies(x.attributes) \in Seq(RequestType)
  BY CopyIs, AttributeCopiesAre
<1> QED BY <1>1 DEF TextsOf

-----------------------------------------------------------------------------
(* Calls of build_one                                                      *)

\* A field more.
LEMMA FrameGrows ==
    ASSUME NEW h, Parsed(h), NEW done, NEW S, NEW frame,
           frame.entry \in Structs(h), frame.fields \in Seq(S),
           FrameRight(h, done, frame),
           NEW k \in Fields(h, frame.entry), k = Len(frame.fields) + 1,
           NEW field \in S, Stands(h, frame.entry, k, field),
           h[frame.entry].fields[k].is_struct_type =>
              find_entry(h, h[frame.entry].fields[k].type_name) \in done,
           NEW more, more.entry = frame.entry, ~more.laid,
           more.fields = Append(frame.fields, field),
           more.offset = Extents(h, Types(h), frame.entry)[k].end,
           more.alignment = Extents(h, Types(h), frame.entry)[k].alignment
    PROVE  FrameRight(h, done, more)
<1> DEFINE i == frame.entry
<1>1. /\ Len(h[i].fields) \in Nat /\ Len(frame.fields) \in Nat
      /\ Len(more.fields) = k /\ k <= Len(h[i].fields)
  BY Declared DEF Fields
<1>2. ASSUME NEW m \in 1..k
      PROVE  /\ Stands(h, i, m, more.fields[m])
             /\ h[i].fields[m].is_struct_type =>
                   find_entry(h, h[i].fields[m].type_name) \in done
  <2>1. CASE m = k
    <3>1. more.fields[m] = field
      BY <2>1
    <3> QED BY <2>1, <3>1
  <2>2. CASE m # k
    <3>1. m \in 1..Len(frame.fields) /\ more.fields[m] = frame.fields[m]
      BY <1>1, <2>2
    <3> QED BY <3>1 DEF FrameRight, FieldsStand
  <2> QED BY <2>1, <2>2
<1>3. FieldsStand(h, done, i, more.fields)
  BY <1>1, <1>2 DEF FieldsStand
<1> QED BY <1>1, <1>3 DEF FrameRight

\* A call that begins.
LEMMA FrameBegins ==
    ASSUME NEW h, Parsed(h), NEW done, NEW i \in Structs(h), h[i].fields # <<>>
    PROVE  FrameRight(h, done, [entry |-> i, fields |-> <<>>, offset |-> 0,
                                alignment |-> 1, laid |-> FALSE])
<1> DEFINE frame == [entry |-> i, fields |-> <<>>, offset |-> 0,
                     alignment |-> 1, laid |-> FALSE]
<1>1. /\ frame.entry = i /\ frame.fields = <<>> /\ frame.offset = 0
      /\ frame.alignment = 1 /\ frame.laid = FALSE
  OBVIOUS
<1> HIDE DEF frame
<1>2. Len(frame.fields) = 0 /\ Len(h[i].fields) \in Nat
  BY <1>1, Declared
<1>3. Extents(h, Types(h), i)[0] = NoExtent
  BY TypesAre, ExtentsAre
<1>4. FieldsStand(h, done, i, frame.fields)
  BY <1>2 DEF FieldsStand
<1> QED BY <1>1, <1>2, <1>3, <1>4 DEF FrameRight, NoExtent, frame

\* What a call has laid out so far, if there is any, is no empty space.
LEMMA FrameOffset ==
    ASSUME NEW h, Parsed(h), NEW done, NEW frame, frame.entry \in Structs(h),
           FrameRight(h, done, frame),
           Len(frame.fields) = Len(h[frame.entry].fields), ~frame.laid
    PROVE  /\ frame.offset >= 1
           /\ frame.offset
                = Extents(h, Types(h), frame.entry)[Len(h[frame.entry].fields)].end
           /\ Whole(h, Types(h), frame.entry)
                = [size |-> FirstMultiple(frame.offset, frame.alignment),
                   alignment |-> frame.alignment]
<1> DEFINE i == frame.entry
           n == Len(h[i].fields)
           f == h[i].fields[n]
           type == DeclaredType(h, Types(h), f)
           e == Extents(h, Types(h), i)
           first == FirstMultiple(e[n - 1].end, type.alignment)
<1>1. h[i] \in StructDeclaration /\ h[i].fields # <<>>
  BY Declared DEF FrameRight
<1>2. n \in Nat \ {0} /\ n \in Fields(h, i) /\ n \in 1..Len(frame.fields)
  BY <1>1 DEF StructDeclaration, Fields
<1>3. /\ f \in FieldDeclaration /\ type \in TypeType
      /\ e[n - 1] \in ExtentType /\ e[n] \in ExtentType
      /\ e[n].end = first + type.size * DeclaredCount(f)
  BY <1>2, ExtentOf
<1>4. first \in Nat
  BY <1>3, FirstMultipleFrom DEF ExtentType, TypeType
<1>5. type.size >= 1
  BY <1>2 DEF FrameRight, FieldsStand, Stands
<1>6. DeclaredCount(f) \in Nat \ {0}
  BY <1>3, CountIs, ArenaAssumption DEF ArenaAssumption
<1>7. e[n].end >= 1
  <2> HIDE DEF type, first, e, f
  <2>1. PICK s \in Nat \ {0} : s = type.size
    BY <1>3, <1>5 DEF TypeType
  <2>2. s * DeclaredCount(f) \in Nat \ {0}
    BY <1>6
  <2> QED BY <1>3, <1>4, <2>1, <2>2
<1>8. frame.offset = e[n].end /\ frame.alignment = e[n].alignment
  BY DEF FrameRight
<1> HIDE DEF e
<1>9. Whole(h, Types(h), i) = [size |-> FirstMultiple(e[n].end, e[n].alignment),
                               alignment |-> e[n].alignment]
  BY DEF Whole, e
<1> QED BY <1>7, <1>8, <1>9 DEF e

-----------------------------------------------------------------------------
(* The invariant is kept                                                   *)

\* The header stays, and so do the types that depend on it.
LEMMA SameTypes ==
    ASSUME header' = header
    PROVE  /\ FieldType' = FieldType /\ DescriptorType' = DescriptorType
           /\ FrameType' = FrameType
BY DEF FieldType, DescriptorType, FrameType

\* The innermost call.
LEMMA FrameTypeIs ==
    ASSUME BuildTypeOK, stack # <<>>
    PROVE  /\ Len(stack) \in Nat \ {0} /\ Top = stack[Len(stack)]
           /\ Top \in FrameType
           /\ Top.entry \in Structs(header) /\ Top.fields \in Seq(FieldType)
           /\ Top.offset \in 0..SizeMax /\ Top.alignment \in PowersOfTwo
           /\ Top.laid \in BOOLEAN
<1>1. stack \in Seq(FrameType) /\ Len(stack) \in Nat \ {0}
  BY DEF BuildTypeOK
<1>2. Top = stack[Len(stack)] /\ Top \in FrameType
  BY <1>1 DEF Top
<1> QED BY <1>1, <1>2 DEF FrameType

\* A call that fails, for want of memory or because of its header.
LEMMA Refused ==
    ASSUME BuildInv, NEW code \in Results \ {"none", "OK"}, End(code),
           starved => starved', starved' \/ ~WellFormed(header)
    PROVE  BuildInv'
<1>1. /\ result' = code /\ header' = header /\ state' = state /\ table' = table
      /\ stack' = stack /\ requests' = requests /\ root' = root /\ null' = null
  BY DEF End
<1>2. BuildTypeOK'
  BY <1>1, SameTypes DEF BuildInv, BuildTypeOK, Structs
<1>3. Done' = Done
  BY <1>1 DEF Done
<1>4. DoneRight'
  BY <1>1, <1>3 DEF DoneRight, BuildInv
<1>5. VerdictRight'
  BY <1>1 DEF VerdictRight, BuildInv
<1> QED BY <1>1, <1>2, <1>4, <1>5 DEF BuildInv

\* build_one starts, called by the loop or for a field of the call before it.
LEMMA BuildOneKeeps ==
    ASSUME BuildInv, Running, header # <<>>,
           NEW i \in Structs(header), state[i] = "PENDING",
           build_one(i), UNCHANGED starved,
           stack # <<>> => i \in Nests(header, Top.entry),
           root' \in 0..(Len(header) + 1),
           \A j \in 1..(root' - 1) : j = i \/ state[j] # "PENDING"
    PROVE  BuildInv'
<1>1. Parsed(header) /\ BuildTypeOK /\ RunRight /\ DoneRight /\ VerdictRight
  BY HeaderParsed DEF BuildInv, Running
<1>2. /\ state \in [Structs(header) -> States] /\ stack \in Seq(FrameType)
      /\ requests = <<>> /\ result = "none"
  BY <1>1 DEF BuildTypeOK, Running
<1>3. /\ header' = header /\ table' = table /\ null' = null
      /\ state' = [state EXCEPT ![i] = "ACTIVE"]
  BY DEF build_one, Started
<1>4. Done' = Done /\ Active' = Active \cup {i} /\ i \notin Active
  BY <1>2, <1>3 DEF Done, Active
<1>5. DoneRight'
  BY <1>1, <1>3, <1>4 DEF DoneRight
<1>6. state' \in [Structs(header) -> States]
  BY <1>2, <1>3 DEF States
<1>7. CASE header[i].fields = <<>>
  <2>1. /\ result' = "CORRUPT_DESCRIPTOR" /\ stack' = stack /\ requests' = requests
    BY <1>7 DEF build_one
  <2>2. BuildTypeOK'
    BY <1>1, <1>3, <1>6, <2>1, SameTypes DEF BuildTypeOK, Structs, Results
  <2>3. ~WellFormed(header)
    BY <1>7 DEF WellFormed
  <2>4. VerdictRight'
    BY <1>1, <1>3, <2>1, <2>3 DEF VerdictRight
  <2> QED BY <1>5, <2>1, <2>2, <2>4 DEF BuildInv
<1>8. CASE header[i].fields # <<>>
  <2> DEFINE frame == [entry |-> i, fields |-> <<>>, offset |-> 0,
                       alignment |-> 1, laid |-> FALSE]
             n == Len(stack)
  <2>1. /\ stack' = Append(stack, frame) /\ result' = "none"
        /\ requests' = <<Request(Len(header[i].fields) * SizeOf.field, PointerAlign)>>
    BY <1>2, <1>8 DEF build_one
  <2>2. Request(Len(header[i].fields) * SizeOf.field, PointerAlign) \in RequestType
    <3>1. header[i] \in StructDeclaration /\ ArrayFits(Len(header[i].fields), SizeOf.field)
      BY <1>1, Declared DEF Parsed
    <3>2. Len(header[i].fields) \in Nat \ {0}
      BY <1>8, <3>1 DEF StructDeclaration
    <3>3. SizeOf.field \in Nat \ {0}
      BY BuildAssumption DEF BuildAssumption
    <3> QED BY <3>1, <3>2, <3>3, RequestIs
  <2>3. frame \in FrameType
    <3>1. 1 \in PowersOfTwo /\ 0 \in 0..SizeMax
      BY BuildAssumption, ArenaAssumption DEF BuildAssumption, ArenaAssumption
    <3> QED BY <3>1 DEF FrameType
  <2>4. FrameRight(header, Done, frame)
    BY <1>1, <1>8, FrameBegins
  <2>5. frame.entry = i
    OBVIOUS
  <2> HIDE DEF frame
  <2>6. /\ stack' \in Seq(FrameType) /\ Len(stack') = n + 1 /\ n \in Nat
        /\ stack'[n + 1] = frame /\ \A p \in 1..n : stack'[p] = stack[p]
    BY <1>2, <2>1, <2>3
  <2>7. BuildTypeOK'
    <3>1. requests' \in Seq(RequestType)
      BY <2>1, <2>2
    <3>2. root' \in 0..(Len(header') + 1) /\ state' \in [Structs(header') -> States]
      BY <1>3, <1>6
    <3> QED BY <1>1, <1>3, <2>1, <2>6, <3>1, <3>2, SameTypes
            DEF BuildTypeOK, Structs, Results
  <2>8. \A p \in 1..n : stack[p].entry # i
    BY <1>1, <1>4 DEF RunRight
  <2> DEFINE m == n + 1
  <2>9. ASSUME NEW p \in 1..m, NEW q \in 1..m, stack'[p].entry = stack'[q].entry
        PROVE  p = q
    <3>1. CASE p \in 1..n /\ q \in 1..n
      BY <1>1, <2>6, <2>9, <3>1 DEF RunRight
    <3>2. CASE p = m /\ q \in 1..n
      BY <2>5, <2>6, <2>8, <2>9, <3>2
    <3>3. CASE p \in 1..n /\ q = m
      BY <2>5, <2>6, <2>8, <2>9, <3>3
    <3>4. p \in 1..n \/ p = m
      BY <2>6
    <3>5. q \in 1..n \/ q = m
      BY <2>6
    <3> QED BY <3>1, <3>2, <3>3, <3>4, <3>5
  <2>10. Active' = {stack'[p].entry : p \in 1..m}
    <3>1. Active = {stack[p].entry : p \in 1..n}
      BY <1>1 DEF RunRight
    <3>2. 1..m = (1..n) \cup {m}
      BY <2>6
    <3> QED BY <1>4, <2>5, <2>6, <3>1, <3>2
  <2>11. ASSUME NEW p \in 1..(m - 1)
         PROVE  stack'[p + 1].entry \in Nests(header, stack'[p].entry)
    <3>1. CASE p = n
      <4>1. stack # <<>> /\ Top = stack[n] /\ stack'[p] = stack[n]
        BY <1>2, <2>6, <3>1 DEF Top
      <4> QED BY <2>5, <2>6, <3>1, <4>1
    <3>2. CASE p # n
      <4>1. p \in 1..(n - 1) /\ p \in 1..n /\ p + 1 \in 1..n
        BY <2>6, <3>2
      <4> QED BY <1>1, <2>6, <4>1 DEF RunRight
    <3> QED BY <3>1, <3>2
  <2>12. ASSUME NEW p \in 1..m
         PROVE  FrameRight(header, Done, stack'[p])
    <3>1. CASE p = m
      BY <2>4, <2>6, <3>1
    <3>2. CASE p # m
      <4>1. p \in 1..n
        BY <2>6, <3>2
      <4> QED BY <1>1, <2>6, <4>1 DEF RunRight
    <3> QED BY <3>1, <3>2
  <2>13. \A j \in 1..(root' - 1) : state'[j] # "PENDING"
    <3> TAKE j \in 1..(root' - 1)
    <3>1. j \in Structs(header)
      <4>1. Len(header) \in Nat
        BY <1>1, Declared
      <4>2. PICK r \in 0..(Len(header) + 1) : r = root'
        OBVIOUS
      <4>3. j \in 1..(r - 1)
        BY <4>2
      <4>4. j \in 1..Len(header)
        BY <4>1, <4>3
      <4> QED BY <4>4 DEF Structs
    <3> QED BY <1>2, <1>3, <3>1
  <2>14. RunRight'
    BY <1>3, <1>4, <2>6, <2>9, <2>10, <2>11, <2>12, <2>13 DEF RunRight
  <2>15. VerdictRight'
    BY <1>1, <1>3, <2>1 DEF VerdictRight
  <2> QED BY <1>5, <2>7, <2>14, <2>15 DEF BuildInv
<1> QED BY <1>7, <1>8

\* The invariant holds before the call.
LEMMA InitKeeps ==
    ASSUME Init
    PROVE  BuildInv
<1>1. /\ header \in Headers /\ stack = <<>> /\ requests = <<>> /\ root = 0
      /\ null = FALSE /\ result = "none"
      /\ state = [i \in Structs(header) |-> "PENDING"]
      /\ table = [i \in Structs(header) |-> NoDescriptor]
  BY DEF Init, Structs
<1>2. Parsed(header) /\ Len(header) \in Nat
  BY <1>1, BuildAssumption, Declared DEF BuildAssumption
<1>3. NoDescriptor \in DescriptorType
  <2>1. SizeMax \in Nat
    BY ArenaAssumption DEF ArenaAssumption
  <2> QED BY <2>1 DEF NoDescriptor, DescriptorType
<1>4. BuildTypeOK
  <2>1. state \in [Structs(header) -> States] /\ table \in [Structs(header) -> DescriptorType]
    BY <1>1, <1>3 DEF States
  <2>2. stack \in Seq(FrameType) /\ requests \in Seq(RequestType)
    BY <1>1
  <2>3. root \in 0..(Len(header) + 1)
    BY <1>1, <1>2
  <2>4. null \in BOOLEAN /\ result \in Results
    BY <1>1 DEF Results
  <2> QED BY <1>1, <2>1, <2>2, <2>3, <2>4 DEF BuildTypeOK
<1>5. Done = {} /\ Active = {}
  BY <1>1 DEF Done, Active
<1>6. Len(stack) = 0
  BY <1>1
<1>7. DoneRight /\ RunRight /\ VerdictRight
  BY <1>1, <1>5, <1>6 DEF DoneRight, RunRight, VerdictRight
<1> QED BY <1>4, <1>7 DEF BuildInv

\* Nothing changes of what the invariant is about, other than the requests,
\* the loop and what the first requests have come to.
LEMMA GoesOn ==
    ASSUME BuildInv, result = "none",
           UNCHANGED <<header, state, table, stack, result>>,
           requests' \in Seq(RequestType), null' \in BOOLEAN,
           null' => starved',
           root' \in 0..(Len(header) + 1),
           \A j \in 1..(root' - 1) : state[j] # "PENDING",
           root' > 0 => header # <<>>
    PROVE  BuildInv'
<1>1. Done' = Done /\ Active' = Active
  BY DEF Done, Active
<1>2. BuildTypeOK'
  BY SameTypes DEF BuildInv, BuildTypeOK, Structs
<1>3. DoneRight'
  BY <1>1 DEF DoneRight, BuildInv
<1>4. RunRight'
  BY <1>1 DEF RunRight, BuildInv
<1>5. VerdictRight'
  BY DEF VerdictRight
<1> QED BY <1>2, <1>3, <1>4, <1>5 DEF BuildInv

\* A header without structures is refused, any other gets its arrays.
LEMMA BeginKeeps ==
    ASSUME BuildInv, Begin
    PROVE  BuildInv'
<1>1. Parsed(header) /\ BuildTypeOK /\ Len(header) \in Nat /\ result = "none"
  BY HeaderParsed, Declared DEF BuildInv, Begin, Running
<1>2. UNCHANGED <<chunks, blocks, starved, header, state, table, stack, null>>
      /\ root = 0 /\ root' = 1
  BY DEF Begin, arenaVars
<1>3. CASE header = <<>>
  <2>1. result' = "NOT_FOUND" /\ requests' = requests
    BY <1>3 DEF Begin
  <2>2. ~WellFormed(header)
    BY <1>3 DEF WellFormed
  <2>3. BuildTypeOK'
    BY <1>1, <1>2, <2>1, SameTypes DEF BuildTypeOK, Structs, Results
  <2>4. Done' = Done
    BY <1>2 DEF Done
  <2>5. DoneRight'
    BY <1>2, <2>4 DEF DoneRight, BuildInv
  <2>6. VerdictRight'
    BY <1>2, <2>1, <2>2 DEF VerdictRight, BuildInv
  <2> QED BY <2>1, <2>3, <2>5, <2>6 DEF BuildInv
<1>4. CASE header # <<>>
  <2>1. result' = result
    BY <1>4 DEF Begin
  <2>2. Len(header) \in Nat \ {0}
    BY <1>1, <1>4 DEF Parsed
  <2> DEFINE sizes == <<SizeOf.entry, SizeOf.descriptor, SizeOf.pointer>>
             Ask(i) == Request(Len(header) * sizes[i], PointerAlign)
  <2>3. ASSUME NEW i \in 1..3 PROVE Ask(i) \in RequestType
    <3>1. sizes[i] \in {SizeOf.entry, SizeOf.descriptor, SizeOf.pointer}
      OBVIOUS
    <3> HIDE DEF sizes
    <3>2. sizes[i] \in Nat \ {0} /\ ArrayFits(Len(header), sizes[i])
      BY <1>1, <3>1, BuildAssumption DEF BuildAssumption, Parsed
    <3> QED BY <2>2, <3>2, RequestIs
  <2>4. requests' = [i \in 1..3 |-> Ask(i)]
    BY <1>4 DEF Begin
  <2>5. requests' \in Seq(RequestType)
    <3> HIDE DEF Ask
    <3> QED BY <2>3, <2>4
  <2>6. /\ null' \in BOOLEAN /\ (null' => starved')
        /\ root' \in 0..(Len(header) + 1) /\ ~(1 <= root' - 1)
    BY <1>1, <1>2, <2>2 DEF BuildTypeOK, BuildInv, VerdictRight
  <2> QED BY <1>1, <1>2, <1>4, <2>1, <2>5, <2>6, GoesOn
<1> QED BY <1>3, <1>4

\* Memory is given, or its want ends the call.
LEMMA AllocateKeepsBuild ==
    ASSUME BuildInv, Allocate
    PROVE  BuildInv'
<1> DEFINE r == Head(requests)
<1>1. /\ BuildTypeOK /\ result = "none" /\ requests # <<>> /\ RunRight
      /\ VerdictRight /\ Parsed(header)
  BY HeaderParsed DEF BuildInv, Allocate
<1>2. r \in RequestType /\ Tail(requests) \in Seq(RequestType)
  BY <1>1 DEF BuildTypeOK
<1>3. r.size \in 1..SizeMax /\ r.size <= SizeMax - r.alignment
  BY <1>2 DEF RequestType
<1>4. /\ root \in 0..(Len(header) + 1) /\ null \in BOOLEAN
      /\ \A j \in 1..(root - 1) : state[j] # "PENDING"
      /\ root > 0 => header # <<>>
  BY <1>1 DEF BuildTypeOK, RunRight
<1>5. CASE allocate(r.size, r.alignment) /\ requests' = Tail(requests)
           /\ UNCHANGED <<header, state, table, stack, root, null, result>>
  <2>1. starved' = starved
    BY <1>5 DEF allocate, HandOut
  <2>2. null' => starved'
    BY <1>1, <1>5, <2>1 DEF VerdictRight
  <2> QED BY <1>1, <1>2, <1>4, <1>5, <2>2, GoesOn
<1>6. CASE /\ allocate_fails(r.size, r.alignment)
           /\ IF stack = <<>>
                THEN /\ requests' = Tail(requests)
                     /\ null' = TRUE
                     /\ UNCHANGED <<header, state, table, stack, root, result>>
                ELSE End("OUT_OF_MEMORY")
  <2>1. starved' = TRUE
    BY <1>3, <1>6, ArenaAssumption DEF allocate_fails, ArenaAssumption
  <2>2. CASE stack = <<>>
    BY <1>1, <1>2, <1>4, <1>6, <2>1, <2>2, GoesOn
  <2>3. CASE stack # <<>>
    BY <1>6, <2>1, <2>3, Refused DEF Results
  <2> QED BY <2>2, <2>3
<1> QED BY <1>1, <1>5, <1>6 DEF Allocate

\* The loop leaves no structure out.
LEMMA NextRootKeeps ==
    ASSUME BuildInv, NextRoot
    PROVE  BuildInv'
<1>1. /\ BuildTypeOK /\ result = "none" /\ requests = <<>> /\ stack = <<>>
      /\ RunRight /\ VerdictRight /\ Parsed(header) /\ DoneRight
      /\ starved' = starved /\ Running
  BY HeaderParsed DEF BuildInv, NextRoot, Running, arenaVars
<1>2. /\ root \in 1..(Len(header) + 1) /\ Len(header) \in Nat /\ header # <<>>
      /\ state \in [Structs(header) -> States] /\ null \in BOOLEAN
      /\ \A j \in 1..(root - 1) : state[j] # "PENDING"
  BY <1>1, Declared DEF BuildTypeOK, NextRoot, RunRight
<1>3. Active = {}
  BY <1>1 DEF RunRight
<1>4. CASE null
  <2>1. starved' /\ End("OUT_OF_MEMORY")
    BY <1>1, <1>4 DEF VerdictRight, NextRoot
  <2> QED BY <1>1, <2>1, Refused DEF Results
<1>5. CASE ~null /\ root > Len(header)
  <2>1. End("OK")
    BY <1>5 DEF NextRoot
  <2>2. /\ result' = "OK"
        /\ UNCHANGED <<header, state, table, stack, requests, root, null>>
    BY <2>1 DEF End
  <2>3. BuildTypeOK'
    BY <1>1, <2>2, SameTypes DEF BuildTypeOK, Structs, Results
  <2>4. Done = Structs(header)
    <3>1. ASSUME NEW i \in Structs(header) PROVE state[i] = "DONE"
      <4>1. i \in 1..(root - 1)
        BY <1>2, <1>5 DEF Structs
      <4>2. state[i] \in States /\ state[i] # "PENDING" /\ state[i] # "ACTIVE"
        BY <1>2, <1>3, <4>1 DEF Active
      <4> QED BY <4>2 DEF States
    <3> QED BY <3>1 DEF Done
  <2>5. Done' = Done
    BY <2>2 DEF Done
  <2>6. DoneRight' /\ VerdictRight'
    <3>1. DoneRight'
      BY <1>1, <2>2, <2>5 DEF DoneRight
    <3>2. VerdictRight'
      BY <1>1, <1>2, <2>2, <2>4, <2>5 DEF VerdictRight, Structs
    <3> QED BY <3>1, <3>2
  <2> QED BY <2>2, <2>3, <2>6 DEF BuildInv
<1>6. CASE ~null /\ root <= Len(header)
  <2>1. /\ root \in Structs(header) /\ root' = root + 1
        /\ root' \in 0..(Len(header) + 1) /\ root' > 0
    BY <1>2, <1>6 DEF NextRoot, NextIndex, Structs
  <2>2. \A j \in 1..(root' - 1) : j = root \/ state[j] # "PENDING"
    <3> TAKE j \in 1..(root' - 1)
    <3>1. j \in 1..root
      BY <1>2, <2>1
    <3>2. j = root \/ j \in 1..(root - 1)
      BY <1>2, <3>1
    <3> QED BY <1>2, <3>2
  <2>3. CASE state[root] = "DONE"
    <3>1. UNCHANGED <<header, state, table, stack, requests, null, result>>
      BY <1>2, <1>6, <2>3 DEF NextRoot
    <3>2. requests' \in Seq(RequestType) /\ null' \in BOOLEAN /\ (null' => starved')
      BY <1>1, <1>2, <3>1 DEF VerdictRight, BuildTypeOK
    <3>3. \A j \in 1..(root' - 1) : state[j] # "PENDING"
      BY <2>2, <2>3
    <3> QED BY <1>1, <1>2, <2>1, <3>1, <3>2, <3>3, GoesOn
  <2>4. CASE state[root] # "DONE"
    <3>1. build_one(root)
      BY <1>2, <1>6, <2>4 DEF NextRoot
    <3>2. state[root] = "PENDING"
      BY <1>2, <1>3, <2>1, <2>4 DEF Active, States
    <3> QED BY <1>1, <1>2, <2>1, <2>2, <3>1, <3>2, BuildOneKeeps
  <2> QED BY <2>3, <2>4
<1> QED BY <1>2, <1>4, <1>5, <1>6

\* The innermost call goes on.
LEMMA TopGoesOn ==
    ASSUME BuildInv, result = "none", stack # <<>>,
           NEW frame \in FrameType, frame.entry = Top.entry,
           FrameRight(header, Done, frame), ChangeTop(frame),
           requests' \in Seq(RequestType),
           UNCHANGED <<header, state, table, root, null, result, starved>>
    PROVE  BuildInv'
<1> DEFINE n == Len(stack)
<1>1. BuildTypeOK /\ RunRight /\ DoneRight /\ VerdictRight
  BY DEF BuildInv
<1>2. /\ n \in Nat \ {0} /\ Top = stack[n] /\ stack \in Seq(FrameType)
  BY <1>1, FrameTypeIs DEF BuildTypeOK
<1>3. /\ stack' \in Seq(FrameType) /\ Len(stack') = n /\ stack'[n] = frame
      /\ \A p \in 1..n : p # n => stack'[p] = stack[p]
  BY <1>2 DEF ChangeTop
<1>4. \A p \in 1..n : stack'[p].entry = stack[p].entry
  BY <1>2, <1>3
<1>5. Done' = Done /\ Active' = Active
  BY DEF Done, Active
<1>6. BuildTypeOK'
  BY <1>1, <1>3, SameTypes DEF BuildTypeOK, Structs
<1>7. \A p \in 1..n : FrameRight(header, Done, stack'[p])
  <2> TAKE p \in 1..n
  <2> QED BY <1>1, <1>3 DEF RunRight
<1>8. RunRight'
  <2>1. \A p, q \in 1..n : stack'[p].entry = stack'[q].entry => p = q
    BY <1>1, <1>4 DEF RunRight
  <2>2. Active' = {stack'[p].entry : p \in 1..n}
    BY <1>1, <1>4, <1>5 DEF RunRight
  <2>3. \A p \in 1..(n - 1) : stack'[p + 1].entry \in Nests(header, stack'[p].entry)
    <3> TAKE p \in 1..(n - 1)
    <3>1. p \in 1..n /\ p + 1 \in 1..n
      BY <1>2
    <3> QED BY <1>1, <1>4, <3>1 DEF RunRight
  <2> QED BY <1>1, <1>3, <1>5, <1>7, <2>1, <2>2, <2>3 DEF RunRight
<1>9. DoneRight' /\ VerdictRight'
  BY <1>1, <1>5 DEF DoneRight, VerdictRight
<1> QED BY <1>6, <1>8, <1>9 DEF BuildInv

\* A field is refused for a reason.
LEMMA RefuseFieldKeeps ==
    ASSUME BuildInv, RefuseField
    PROVE  BuildInv'
<1>1. BuildTypeOK /\ RunRight /\ InField /\ FieldError(Field) # "OK"
  BY DEF BuildInv, RefuseField, InField, Running
<1>2. /\ FieldError(Field) \in Results \ {"none", "OK"} /\ ~WellFormed(header)
  BY <1>1, ErrorIsReal DEF Results
<1>3. starved' = starved /\ End(FieldError(Field))
  BY DEF RefuseField, arenaVars
<1> QED BY <1>2, <1>3, Refused

\* The field that build_field is called for.
LEMMA FieldIs ==
    ASSUME BuildInv, InField
    PROVE  /\ BuildTypeOK /\ RunRight /\ DoneRight /\ Parsed(header)
           /\ result = "none" /\ stack # <<>> /\ header # <<>>
           /\ Len(stack) \in Nat \ {0}
           /\ Top = stack[Len(stack)] /\ Top \in FrameType
           /\ Top.entry \in Structs(header)
           /\ Len(Top.fields) + 1 \in Fields(header, Top.entry)
           /\ Field = header[Top.entry].fields[Len(Top.fields) + 1]
           /\ FrameRight(header, Done, Top)
<1>1. /\ BuildTypeOK /\ RunRight /\ DoneRight /\ result = "none" /\ stack # <<>>
      /\ Parsed(header)
  BY HeaderParsed DEF BuildInv, InField, Running
<1>2. /\ Len(stack) \in Nat \ {0}
      /\ Top = stack[Len(stack)] /\ Top \in FrameType
      /\ Top.entry \in Structs(header) /\ Top.fields \in Seq(FieldType)
  BY <1>1, FrameTypeIs
<1>3. Len(Top.fields) \in Nat /\ Len(header[Top.entry].fields) \in Nat
  BY <1>1, <1>2, Declared
<1>4. /\ Len(Top.fields) + 1 \in Fields(header, Top.entry)
      /\ Field = header[Top.entry].fields[Len(Top.fields) + 1]
  BY <1>3 DEF InField, Field, Source, Fields
<1>5. FrameRight(header, Done, Top)
  BY <1>1, <1>2 DEF RunRight
<1>6. header # <<>>
  BY <1>2 DEF Structs
<1> QED BY <1>1, <1>2, <1>4, <1>5, <1>6

\* A field builds the structure that it nests, first.
LEMMA DescendKeeps ==
    ASSUME BuildInv, Descend
    PROVE  BuildInv'
<1> DEFINE j == find_entry(header, Field.type_name)
<1>1. /\ InField /\ FieldError(Field) = "OK" /\ Field.is_struct_type
      /\ state[j] # "DONE" /\ build_one(j) /\ starved' = starved /\ root' = root
      /\ Running
  BY DEF Descend, InField, arenaVars
<1>2. /\ BuildTypeOK /\ RunRight /\ Parsed(header)
      /\ header # <<>> /\ Top.entry \in Structs(header)
      /\ Len(Top.fields) + 1 \in Fields(header, Top.entry)
      /\ Field = header[Top.entry].fields[Len(Top.fields) + 1]
  BY <1>1, FieldIs
<1>3. ~Unknown(header, Field) /\ state[j] # "ACTIVE"
  BY <1>1 DEF FieldError, Circular
<1>4. j \in Nests(header, Top.entry) /\ j \in Structs(header)
  BY <1>1, <1>2, <1>3, NestsStructs
<1>5. state[j] = "PENDING"
  BY <1>1, <1>2, <1>3, <1>4 DEF BuildTypeOK, States
<1>6. /\ root' \in 0..(Len(header) + 1)
      /\ \A i \in 1..(root' - 1) : i = j \/ state[i] # "PENDING"
  BY <1>1, <1>2 DEF BuildTypeOK, RunRight
<1> QED BY <1>1, <1>2, <1>4, <1>5, <1>6, BuildOneKeeps

\* A field is placed where the reference layout has it.
LEMMA PlaceFieldKeeps ==
    ASSUME BuildInv, PlaceField
    PROVE  BuildInv'
<1> DEFINE i == Top.entry
           k == Len(Top.fields) + 1
           e == Extents(header, Types(header), i)
           type == DeclaredType(header, Types(header), Field)
           n == DeclaredCount(Field)
           first == FirstMultiple(Top.offset, type.alignment)
           code == Layout!AddResult(type.size, n, type.alignment)
           place == Layout!Place(type.size, n, type.alignment)
           field == Described(Field, place.offset)
           frame == [Top EXCEPT
                        !.fields = Append(@, field),
                        !.offset = Layout!Wrap(place.offset + place.size),
                        !.alignment = IF type.alignment > @ THEN type.alignment
                                      ELSE @]
           alignment == IF type.alignment > Top.alignment THEN type.alignment
                        ELSE Top.alignment
<1>1. /\ InField /\ FieldError(Field) = "OK"
      /\ Field.is_struct_type => state[find_entry(header, Field.type_name)] = "DONE"
      /\ starved' = starved
  BY DEF PlaceField, arenaVars
<1>2. /\ BuildTypeOK /\ RunRight /\ DoneRight /\ Parsed(header)
      /\ result = "none" /\ stack # <<>>
      /\ Top \in FrameType /\ i \in Structs(header)
      /\ k \in Fields(header, i) /\ Field = header[i].fields[k]
      /\ FrameRight(header, Done, Top)
  BY <1>1, FieldIs
<1>3. /\ ElementType(Field).size = type.size
      /\ ElementType(Field).alignment = type.alignment
      /\ type.size \in 1..SizeMax /\ type.alignment \in PowersOfTwo
      /\ Field.is_struct_type => find_entry(header, Field.type_name) \in Done
  BY <1>1, <1>2, FieldAccepted
<1>4. /\ Field \in FieldDeclaration /\ type \in TypeType
      /\ e[k - 1] \in ExtentType /\ e[k] \in ExtentType
      /\ k \in 0..Len(header[i].fields)
      /\ e[k].end = FirstMultiple(e[k - 1].end, type.alignment) + type.size * n
      /\ e[k].alignment = IF type.alignment > e[k - 1].alignment
                          THEN type.alignment ELSE e[k - 1].alignment
  BY <1>2, ExtentOf
<1>5. n \in 1..SizeMax
  BY <1>4, CountIs
<1>6. /\ Top.fields \in Seq(FieldType) /\ Len(Top.fields) \in Nat
      /\ Top.offset \in 0..SizeMax /\ Top.alignment \in PowersOfTwo
      /\ k - 1 = Len(Top.fields)
  BY <1>2 DEF FrameType
<1>7. ~Top.laid
  <2>1. Len(Top.fields) # Len(header[i].fields)
    BY <1>1 DEF InField, Source
  <2> QED BY <1>2, <2>1 DEF FrameRight
<1>8. Top.offset = e[k - 1].end /\ Top.alignment = e[k - 1].alignment
  BY <1>2, <1>6, <1>7 DEF FrameRight
<1>9. first + type.size * n = e[k].end /\ e[k].alignment = alignment
  BY <1>4, <1>8
<1>10. /\ code \in {"OK", "OUT_OF_RANGE"}
       /\ code = "OK" =>
             /\ place.offset = first
             /\ Layout!Wrap(place.offset + place.size) = e[k].end
             /\ e[k].end <= SizeMax
       /\ code = "OUT_OF_RANGE" => e[k].end > SizeMax
  <2> HIDE DEF e, type, n
  <2> QED BY <1>3, <1>5, <1>6, <1>9, AddsField DEF first
<1>11. IF code # "OK" THEN End(code)
       ELSE /\ ChangeTop(frame)
            /\ requests' = TextsOf(Field)
            /\ UNCHANGED <<header, state, table, root, null, result>>
  BY <1>3 DEF PlaceField
<1>12. CASE code # "OK"
  <2>1. code = "OUT_OF_RANGE" /\ End(code)
    BY <1>10, <1>11, <1>12
  <2>2. ~WellFormed(header)
    <3>1. SUFFICES ASSUME WellFormed(header) PROVE FALSE
      OBVIOUS
    <3>2. e[k].end <= SizeMax
      BY <1>2, <1>4, <3>1, WellFormedExtents
    <3>3. e[k].end \in Nat /\ SizeMax \in Nat
      BY <1>4, ArenaAssumption DEF ExtentType, ArenaAssumption
    <3> HIDE DEF e
    <3> QED BY <1>10, <2>1, <3>2, <3>3
  <2> HIDE DEF code
  <2>3. code \in Results \ {"none", "OK"}
    BY <2>1 DEF Results
  <2> QED BY <1>1, <2>1, <2>2, <2>3, Refused
<1>13. CASE code = "OK"
  <2>1. /\ place.offset = first /\ e[k].end <= SizeMax
        /\ Layout!Wrap(place.offset + place.size) = e[k].end
    BY <1>10, <1>13
  <2>2. field = Described(Field, FirstMultiple(e[k - 1].end, type.alignment))
    BY <1>8, <2>1
  <2>3. Stands(header, i, k, field) /\ field \in FieldType
    <3> HIDE DEF e, field
    <3> QED BY <1>1, <1>2, <2>1, <2>2, DescribedStands DEF e
  <2>4. e[k].end \in 0..SizeMax /\ e[k].alignment \in PowersOfTwo
    <3>1. e[k].end \in Nat /\ SizeMax \in Nat /\ e[k].alignment \in PowersOfTwo
      BY <1>4, ArenaAssumption DEF ExtentType, ArenaAssumption
    <3> HIDE DEF e
    <3> QED BY <2>1, <3>1
  <2>5. frame = [Top EXCEPT !.fields = Append(Top.fields, field), !.offset = e[k].end,
                            !.alignment = alignment]
    BY <2>1
  <2> HIDE DEF e, field, frame, alignment
  <2>6. /\ frame.entry = i /\ frame.fields = Append(Top.fields, field)
        /\ frame.offset = e[k].end /\ frame.alignment = e[k].alignment
        /\ ~frame.laid /\ frame \in FrameType
    <3>1. Append(Top.fields, field) \in Seq(FieldType)
      BY <1>6, <2>3
    <3>2. e[k].alignment = alignment
      BY <1>9 DEF e, alignment
    <3> HIDE DEF k, i
    <3>3. alignment \in PowersOfTwo /\ e[k].end \in 0..SizeMax
      BY <2>4, <3>2
    <3> DEFINE fields == Append(Top.fields, field)
               end == e[k].end
               next == [Top EXCEPT !.fields = fields, !.offset = end,
                                   !.alignment = alignment]
    <3>4. Top \in FrameType /\ fields \in Seq(FieldType) /\ end \in 0..SizeMax
      BY <1>2, <3>1, <3>3
    <3>5. frame = next
      BY <2>5
    <3> HIDE DEF fields, end
    <3>6. /\ next \in FrameType
          /\ next.entry = Top.entry /\ next.fields = fields
          /\ next.offset = end /\ next.alignment = alignment
          /\ next.laid = Top.laid
      BY ONLY <3>3, <3>4 DEF FrameType
    <3> HIDE DEF next
    <3> QED BY <1>7, <3>2, <3>5, <3>6 DEF i, fields, end
  <2>7. FrameRight(header, Done, frame)
    BY <1>2, <1>3, <1>6, <2>3, <2>6, FrameGrows DEF e
  <2>8. TextsOf(Field) \in Seq(RequestType)
    <3>1. /\ Field.name \in Texts /\ Field.brief \in Texts \cup {NoText}
          /\ Field.attributes \in Seq(Attribute)
      BY <1>4 DEF FieldDeclaration
    <3>2. AttributesRight(Field.attributes)
      BY <1>2 DEF Parsed
    <3> QED BY <3>1, <3>2, TextsAre
  <2>9. /\ ChangeTop(frame) /\ requests' \in Seq(RequestType)
        /\ UNCHANGED <<header, state, table, root, null, result, starved>>
    BY <1>1, <1>11, <1>13, <2>8
  <2> QED BY <1>2, <2>6, <2>7, <2>9, TopGoesOn
<1> QED BY <1>12, <1>13

\* The call that has built its fields.
LEMMA CallIs ==
    ASSUME BuildInv, AllFields
    PROVE  /\ BuildTypeOK /\ RunRight /\ DoneRight /\ VerdictRight /\ Parsed(header)
           /\ result = "none" /\ stack # <<>> /\ requests = <<>>
           /\ Len(stack) \in Nat \ {0}
           /\ Top = stack[Len(stack)] /\ Top \in FrameType
           /\ Top.entry \in Structs(header) /\ Source = header[Top.entry]
           /\ Source \in StructDeclaration
           /\ Len(Top.fields) = Len(header[Top.entry].fields)
           /\ FrameRight(header, Done, Top)
<1>1. /\ BuildTypeOK /\ RunRight /\ DoneRight /\ VerdictRight
      /\ result = "none" /\ stack # <<>> /\ requests = <<>> /\ Parsed(header)
  BY HeaderParsed DEF BuildInv, AllFields, Running
<1>2. /\ Len(stack) \in Nat \ {0}
      /\ Top = stack[Len(stack)] /\ Top \in FrameType
      /\ Top.entry \in Structs(header)
  BY <1>1, FrameTypeIs
<1>3. /\ Source = header[Top.entry] /\ Source \in StructDeclaration
      /\ Len(Top.fields) = Len(header[Top.entry].fields)
  BY <1>1, <1>2, Declared DEF AllFields, Source
<1>4. FrameRight(header, Done, Top)
  BY <1>1, <1>2 DEF RunRight
<1> QED BY <1>1, <1>2, <1>3, <1>4

\* A structure ends where the reference layout has its end.
LEMMA EndLayoutKeeps ==
    ASSUME BuildInv, EndLayout
    PROVE  BuildInv'
<1> DEFINE i == Top.entry
           n == Len(header[i].fields)
           size == FirstMultiple(Top.offset, Top.alignment)
           frame == [Top EXCEPT !.laid = TRUE, !.offset = size]
<1>1. /\ AllFields /\ ~Top.laid /\ starved' = starved
  BY DEF EndLayout, arenaVars
<1>2. /\ BuildTypeOK /\ Parsed(header) /\ result = "none" /\ stack # <<>>
      /\ Top \in FrameType /\ i \in Structs(header) /\ Source = header[i]
      /\ Source \in StructDeclaration
      /\ Len(Top.fields) = n /\ FrameRight(header, Done, Top)
  BY <1>1, CallIs
<1>3. Top.offset \in 0..SizeMax /\ Top.alignment \in PowersOfTwo
  BY <1>2 DEF FrameType
<1>4. /\ Top.offset >= 1
      /\ Whole(header, Types(header), i) = [size |-> size, alignment |-> Top.alignment]
  BY <1>1, <1>2, FrameOffset
<1>5. Top.offset \in 1..SizeMax
  BY <1>3, <1>4
<1>6. /\ Layout!EndResult \in {"OK", "OUT_OF_RANGE"}
      /\ Layout!EndResult = "OK" => Layout!EndSize = size /\ size \in 1..SizeMax
      /\ Layout!EndResult = "OUT_OF_RANGE" => size > SizeMax
  BY <1>3, <1>5, EndsLayout
<1>7. CASE Layout!EndResult # "OK"
  <2>1. Layout!EndResult = "OUT_OF_RANGE" /\ End(Layout!EndResult)
    BY <1>6, <1>7 DEF EndLayout
  <2>2. ~WellFormed(header)
    <3> SUFFICES ASSUME WellFormed(header) PROVE FALSE
      OBVIOUS
    <3>1. size <= SizeMax
      BY <1>2, <1>4, WellFormedFits
    <3>2. size \in Nat /\ SizeMax \in Nat
      BY <1>3, FirstMultipleFrom, ArenaAssumption DEF ArenaAssumption
    <3> HIDE DEF size
    <3> QED BY <1>6, <2>1, <3>1, <3>2
  <2>3. Layout!EndResult \in Results \ {"none", "OK"}
    BY <2>1 DEF Results
  <2> QED BY <1>1, <2>1, <2>2, <2>3, Refused
<1>8. CASE Layout!EndResult = "OK"
  <2>1. LaidSize = size /\ size \in 1..SizeMax
    BY <1>6, <1>8 DEF LaidSize
  <2>2. /\ ChangeTop(frame) /\ requests' = TextsOf(Source)
        /\ UNCHANGED <<header, state, table, root, null, result, starved>>
    BY <1>1, <1>8, <2>1 DEF EndLayout
  <2>3. TextsOf(Source) \in Seq(RequestType)
    <3>1. /\ Source.name \in Texts /\ Source.brief \in Texts \cup {NoText}
          /\ Source.attributes \in Seq(Attribute)
      BY <1>2 DEF StructDeclaration
    <3>2. AttributesRight(Source.attributes)
      BY <1>2 DEF Parsed
    <3> QED BY <3>1, <3>2, TextsAre
  <2>4. /\ frame \in FrameType /\ frame.entry = i /\ frame.fields = Top.fields
        /\ frame.alignment = Top.alignment /\ frame.offset = size /\ frame.laid
    <3>1. size \in 0..SizeMax
      BY <2>1
    <3> HIDE DEF size
    <3> QED BY ONLY <1>2, <3>1 DEF FrameType
  <2> HIDE DEF frame
  <2>5. FrameRight(header, Done, frame)
    <3>1. Whole(header, Types(header), i).size = size /\ size >= 1
      BY <1>4, <2>1
    <3> HIDE DEF size
    <3> QED BY <1>2, <2>4, <3>1 DEF FrameRight
  <2> QED BY <1>2, <2>2, <2>3, <2>4, <2>5, TopGoesOn
<1> QED BY <1>7, <1>8

\* What a structure nests is done, when all of its fields are laid out.
LEMMA NestedAreDone ==
    ASSUME NEW h, NEW done, NEW i, NEW fields, Len(fields) = Len(h[i].fields),
           FieldsStand(h, done, i, fields)
    PROVE  /\ Nests(h, i) \subseteq done
           /\ \A k \in Fields(h, i) : FieldRight(h, h[i].fields[k])
BY DEF FieldsStand, Stands, Nests, Fields

\* The structures that are done do not nest themselves, nor one that is not.
LEMMA DoneAcyclic ==
    ASSUME DoneRight
    PROVE  Acyclic(header, Done)
BY DEF DoneRight, BuiltRight, Acyclic, Closed, Done

\* The descriptor is as it has to be, and the others stay so.
LEMMA FinishStructKeeps ==
    ASSUME BuildInv, FinishStruct
    PROVE  BuildInv'
<1> DEFINE i == Top.entry
           n == Len(stack)
           d == [name |-> Source.name, size |-> Top.offset, fields |-> Top.fields,
                 attributes |-> Source.attributes, alignment |-> Top.alignment]
           done == Done \cup {i}
<1>1. /\ AllFields /\ Top.laid /\ starved' = starved
      /\ table' = [table EXCEPT ![i] = d]
      /\ state' = [state EXCEPT ![i] = "DONE"]
      /\ stack' = SubSeq(stack, 1, n - 1)
      /\ UNCHANGED <<header, requests, root, null, result>>
  BY DEF FinishStruct, arenaVars
<1>2. /\ BuildTypeOK /\ RunRight /\ DoneRight /\ VerdictRight /\ Parsed(header)
      /\ result = "none" /\ stack # <<>> /\ n \in Nat \ {0}
      /\ Top = stack[n] /\ Top \in FrameType
      /\ i \in Structs(header) /\ Source = header[i] /\ Source \in StructDeclaration
      /\ Len(Top.fields) = Len(header[i].fields)
      /\ FrameRight(header, Done, Top)
  BY <1>1, CallIs
<1>3. /\ Top.fields \in Seq(FieldType) /\ Top.offset \in 0..SizeMax
      /\ Top.alignment \in PowersOfTwo
  BY <1>2 DEF FrameType
<1>4. /\ state \in [Structs(header) -> States]
      /\ table \in [Structs(header) -> DescriptorType]
      /\ stack \in Seq(FrameType)
  BY <1>2 DEF BuildTypeOK
<1>5. i \in Active /\ i \notin Done
  <2>1. i \in Active
    BY <1>2 DEF RunRight
  <2> QED BY <2>1 DEF Active, Done
<1>6. Done' = done /\ Active' = Active \ {i}
  BY <1>1, <1>2, <1>4 DEF Done, Active
<1>7. /\ d.name = header[i].name /\ d.size = Top.offset /\ d.fields = Top.fields
      /\ d.attributes = header[i].attributes /\ d.alignment = Top.alignment
      /\ d \in DescriptorType
  BY <1>2, <1>3 DEF DescriptorType, StructDeclaration
<1> HIDE DEF d
<1>8. Nests(header, i) \subseteq Done
  BY <1>2, NestedAreDone DEF FrameRight
<1>9. Acyclic(header, done)
  <2>1. Acyclic(header, Done)
    BY <1>2, DoneAcyclic
  <2>2. Within(header, i) \subseteq Done
    BY <1>2, <1>8, <2>1, WithinIs DEF Acyclic
  <2> QED BY <1>2, <1>5, <1>8, <2>1, <2>2 DEF Acyclic, Closed
<1>10. Types(header)[i] = Whole(header, Types(header), i)
  BY <1>2, <1>9, TypesAre DEF Acyclic
<1>11. BuiltRight(header, done, i, d)
  <2>1. /\ header[i].fields # <<>> /\ FieldsStand(header, Done, i, Top.fields)
        /\ Top.offset = Whole(header, Types(header), i).size /\ Top.offset >= 1
        /\ Top.alignment
             = Extents(header, Types(header), i)[Len(header[i].fields)].alignment
    BY <1>1, <1>2 DEF FrameRight
  <2>2. Whole(header, Types(header), i).alignment = Top.alignment
    BY <2>1 DEF Whole
  <2>3. d.size \in 1..SizeMax
    BY <1>3, <1>7, <2>1
  <2>4. FieldsStand(header, done, i, d.fields)
    BY <1>7, <2>1, FieldsKeepStanding
  <2> QED BY <1>2, <1>7, <1>8, <1>9, <1>10, <2>1, <2>2, <2>3, <2>4
          DEF BuiltRight, Acyclic
<1>12. DoneRight'
  <2>1. ASSUME NEW j \in done PROVE BuiltRight(header, done, j, table'[j])
    <3>1. CASE j = i
      BY <1>1, <1>2, <1>4, <1>11, <3>1
    <3>2. CASE j # i
      <4>1. j \in Done /\ table'[j] = table[j]
        BY <1>1, <1>4, <3>2 DEF Done
      <4> QED BY <1>2, <4>1, DescriptorKeepsRight DEF DoneRight
    <3> QED BY <3>1, <3>2
  <2> QED BY <1>1, <1>6, <2>1 DEF DoneRight
<1> DEFINE m == n - 1
<1>13. /\ stack' \in Seq(FrameType) /\ Len(stack') = m /\ m \in Nat
       /\ \A p \in 1..m : stack'[p] = stack[p]
  <2>1. m \in Nat /\ m - 1 + 1 = m /\ (1 <= m \/ m = 0)
        /\ \A p \in 1..m : 1 + p - 1 = p /\ stack[p] \in FrameType
    <3>1. m \in Nat /\ m - 1 + 1 = m /\ (1 <= m \/ m = 0) /\ n = m + 1
      <4>1. n \in Nat \ {0}
        BY <1>2
      <4> HIDE DEF n
      <4> QED BY ONLY <4>1
    <3>2. \A p \in 1..m : 1 + p - 1 = p /\ p \in 1..n
      BY <3>1
    <3>3. \A p \in 1..n : stack[p] \in FrameType
      BY <1>4
    <3> QED BY <3>1, <3>2, <3>3
  <2> HIDE DEF m
  <2>2. /\ SubSeq(stack, 1, m) \in Seq(FrameType)
        /\ Len(SubSeq(stack, 1, m)) = IF 1 <= m THEN m - 1 + 1 ELSE 0
        /\ \A p \in 1..(m - 1 + 1) : SubSeq(stack, 1, m)[p] = stack[1 + p - 1]
    BY <2>1, SubSeqProperties
  <2>3. Len(SubSeq(stack, 1, m)) = m
    BY <2>1, <2>2
  <2>4. \A p \in 1..m : SubSeq(stack, 1, m)[p] = stack[p]
    BY <2>1, <2>2
  <2>5. stack' = SubSeq(stack, 1, m)
    BY <1>1 DEF m
  <2> QED BY <2>1, <2>2, <2>3, <2>4, <2>5
<1>14. BuildTypeOK'
  <2>1. /\ state' \in [Structs(header) -> States]
        /\ table' \in [Structs(header) -> DescriptorType]
    BY <1>1, <1>4, <1>7 DEF States
  <2> QED BY <1>1, <1>2, <1>13, <2>1, SameTypes DEF BuildTypeOK, Structs
<1>15. RunRight'
  <2>1. \A p, q \in 1..m : stack'[p].entry = stack'[q].entry => p = q
    BY <1>2, <1>13 DEF RunRight
  <2>2. Active' = {stack'[p].entry : p \in 1..m}
    <3>1. Active = {stack[p].entry : p \in 1..n}
      BY <1>2 DEF RunRight
    <3>2. 1..n = (1..m) \cup {n} /\ n \notin 1..m
      BY <1>2
    <3>3. \A p \in 1..m : stack[p].entry # i
      BY <1>2, <3>2 DEF RunRight
    <3>4. Active' = {stack[p].entry : p \in 1..m}
      <4>1. Active = {stack[p].entry : p \in 1..m} \cup {i}
        <5>1. stack[n].entry = i
          BY <1>2
        <5> HIDE DEF m, n, i
        <5> QED BY <3>1, <3>2, <5>1
      <4> HIDE DEF m, n, i
      <4> QED BY <1>6, <3>3, <4>1
    <3> HIDE DEF m, n, i
    <3> QED BY <1>13, <3>4
  <2>3. \A p \in 1..(m - 1) : stack'[p + 1].entry \in Nests(header, stack'[p].entry)
    <3> TAKE p \in 1..(m - 1)
    <3>1. p \in 1..m /\ p + 1 \in 1..m /\ p \in 1..(n - 1)
      BY <1>2
    <3> QED BY <1>2, <1>13, <3>1 DEF RunRight
  <2>4. \A p \in 1..m : FrameRight(header, done, stack'[p])
    <3> TAKE p \in 1..m
    <3>1. p \in 1..n
      BY <1>2
    <3>2. FrameRight(header, Done, stack[p])
      BY <1>2, <3>1 DEF RunRight
    <3>3. FrameRight(header, done, stack[p])
      BY <3>2, FrameKeepsRight
    <3> QED BY <1>13, <3>3
  <2>5. \A j \in 1..(root' - 1) : state'[j] # "PENDING"
    <3> TAKE j \in 1..(root' - 1)
    <3>1. state[j] # "PENDING"
      BY <1>1, <1>2 DEF RunRight
    <3>2. state'[j] = state[j] \/ state'[j] = "DONE"
      <4>1. Len(header) \in Nat
        BY <1>2, Declared
      <4>2. PICK r \in 0..(Len(header) + 1) : r = root'
        BY <1>1, <1>2 DEF BuildTypeOK
      <4>3. j \in 1..(r - 1)
        BY <4>2
      <4>4. j \in Structs(header)
        BY <4>1, <4>3 DEF Structs
      <4> QED BY <1>1, <1>4, <4>4
    <3> QED BY <3>1, <3>2
  <2>6. root' > 0 => header # <<>>
    BY <1>1, <1>2 DEF RunRight
  <2> HIDE DEF done, m
  <2> QED BY <1>1, <1>6, <1>13, <2>1, <2>2, <2>3, <2>4, <2>5, <2>6 DEF RunRight
<1>16. VerdictRight'
  BY <1>1, <1>2 DEF VerdictRight
<1> QED BY <1>12, <1>14, <1>15, <1>16 DEF BuildInv

\* Giving the memory back changes nothing of the result.
LEMMA DiscardKeeps ==
    ASSUME BuildInv, Discard
    PROVE  BuildInv'
<1>1. /\ UNCHANGED <<header, state, table, stack, requests, root, null, result>>
      /\ starved' = starved
  BY DEF Discard, arena_destroy, buildVars
<1>2. Done' = Done /\ Active' = Active
  BY <1>1 DEF Done, Active
<1>3. BuildTypeOK'
  BY <1>1, SameTypes DEF BuildInv, BuildTypeOK, Structs
<1>4. DoneRight' /\ VerdictRight'
  BY <1>1, <1>2 DEF BuildInv, DoneRight, VerdictRight, Structs
<1>5. result' # "none"
  BY <1>1 DEF Discard
<1> QED BY <1>3, <1>4, <1>5 DEF BuildInv

\* Every step keeps the invariant.
LEMMA NextKeeps ==
    ASSUME BuildInv, [Next]_vars
    PROVE  BuildInv'
<1>1. CASE Begin
  BY <1>1, BeginKeeps
<1>2. CASE Allocate
  BY <1>2, AllocateKeepsBuild
<1>3. CASE NextRoot
  BY <1>3, NextRootKeeps
<1>4. CASE RefuseField
  BY <1>4, RefuseFieldKeeps
<1>5. CASE Descend
  BY <1>5, DescendKeeps
<1>6. CASE PlaceField
  BY <1>6, PlaceFieldKeeps
<1>7. CASE EndLayout
  BY <1>7, EndLayoutKeeps
<1>8. CASE FinishStruct
  BY <1>8, FinishStructKeeps
<1>9. CASE Discard
  BY <1>9, DiscardKeeps
<1>10. CASE UNCHANGED vars
  <2>1. /\ UNCHANGED <<header, state, table, stack, requests, root, null, result>>
        /\ starved' = starved
    BY <1>10 DEF vars, arenaVars, buildVars
  <2>2. Done' = Done /\ Active' = Active
    BY <2>1 DEF Done, Active
  <2>3. BuildTypeOK'
    BY <2>1, SameTypes DEF BuildInv, BuildTypeOK, Structs
  <2>4. DoneRight' /\ VerdictRight'
    BY <2>1, <2>2 DEF BuildInv, DoneRight, VerdictRight, Structs
  <2>5. RunRight => RunRight'
    BY <2>1, <2>2 DEF RunRight
  <2> QED BY <2>1, <2>3, <2>4, <2>5 DEF BuildInv
<1> QED BY <1>1, <1>2, <1>3, <1>4, <1>5, <1>6, <1>7, <1>8, <1>9, <1>10 DEF Next

\* What is built is right at every step of the call: BuildInv is invariant.
THEOREM BuildInvHolds == Spec => []BuildInv
<1>1. Init => BuildInv
  BY InitKeeps
<1>2. BuildInv /\ [Next]_vars => BuildInv'
  BY NextKeeps
<1> QED BY <1>1, <1>2, PTL DEF Spec

-----------------------------------------------------------------------------
(* The arena beneath                                                       *)

\* Building asks the arena for nothing but what the arena provides.
THEOREM BuildUsesArena == Spec => ArenaSpec
<1>1. Init => ArenaInit
  BY DEF Init
<1>2. BuildInv /\ [Next]_vars => [ArenaNext]_arenaVars
  <2> SUFFICES ASSUME BuildInv, [Next]_vars PROVE [ArenaNext]_arenaVars
    OBVIOUS
  <2>1. CASE Allocate
    <3> DEFINE r == Head(requests)
    <3>1. requests \in Seq(RequestType) /\ requests # <<>>
      BY <2>1 DEF BuildInv, BuildTypeOK, Allocate
    <3>2. r \in RequestType
      BY <3>1
    <3>3. r.size \in 0..SizeMax /\ r.alignment \in Alignments
      BY <3>2 DEF RequestType
    <3>4. allocate(r.size, r.alignment) \/ allocate_fails(r.size, r.alignment)
      BY <2>1 DEF Allocate
    <3> QED BY <3>3, <3>4 DEF ArenaNext
  <2>2. CASE Discard
    BY <2>2 DEF Discard, ArenaNext
  <2>3. CASE UNCHANGED arenaVars
    BY <2>3
  <2> QED BY <2>1, <2>2, <2>3 DEF Next, vars, Begin, NextRoot, RefuseField, Descend,
          PlaceField, EndLayout, FinishStruct
<1> QED BY <1>1, <1>2, BuildInvHolds, PTL DEF Spec, ArenaSpec

\* The values of all variables are of their types.
THEOREM TypeCorrect == Spec => []TypeOK
<1>1. BuildInv /\ ArenaInv => TypeOK
  BY DEF BuildInv, ArenaInv, TypeOK
<1>2. Spec => []ArenaInv
  BY ArenaInitInv, ArenaNextInv, BuildUsesArena, PTL DEF ArenaSpec
<1> QED BY <1>1, <1>2, BuildInvHolds, PTL

\* The memory of a catalogue that is being built is handed out where it is
\* free and aligned.
THEOREM BuiltInPlace == Spec => [](BlocksInPlace /\ BlocksDisjoint)
BY BlocksInPlaceHolds, BlocksDisjointHolds, BuildUsesArena, PTL

-----------------------------------------------------------------------------
(* What the result of the call means                                       *)

\* When the call has succeeded, every structure is built as it has to be.
LEMMA AllBuilt ==
    ASSUME BuildInv, result = "OK", NEW i \in Structs(header)
    PROVE  /\ BuiltRight(header, Structs(header), i, table[i])
           /\ FieldsStand(header, Structs(header), i, table[i].fields)
           /\ Len(table[i].fields) = Len(header[i].fields)
<1>1. Done = Structs(header) /\ DoneRight
  BY DEF BuildInv, VerdictRight
<1>2. BuiltRight(header, Structs(header), i, table[i])
  BY <1>1 DEF DoneRight
<1> QED BY <1>2 DEF BuiltRight

\* The number of bytes of a field that stands for one of the header.
LEMMA StandsSize ==
    ASSUME NEW h, Parsed(h), NEW i \in Structs(h), NEW k \in Fields(h, i),
           NEW field, Stands(h, i, k, field)
    PROVE  LET f == h[i].fields[k]
               type == DeclaredType(h, Types(h), f)
               e == Extents(h, Types(h), i)
           IN  /\ field.kind \in Kinds
               /\ field.kind = "CHAR_ARRAY" <=> is_char_array(f)
               /\ field.kind = "STRUCT" <=> f.is_struct_type
               /\ ~f.is_struct_type =>
                     LayoutTypeRight(f.type_name, LayoutTypes[f.type_name])
               /\ FieldSize(field) = type.size * DeclaredCount(f)
               /\ field.offset \in Nat
               /\ field.offset + FieldSize(field) = e[k].end
<1> DEFINE f == h[i].fields[k]
           type == DeclaredType(h, Types(h), f)
           e == Extents(h, Types(h), i)
           n == DeclaredCount(f)
<1>1. ~Unknown(h, f)
  BY DEF Stands, FieldRight
<1>2. ASSUME ~f.is_struct_type
      PROVE  LayoutTypeRight(f.type_name, LayoutTypes[f.type_name])
  BY <1>1, <1>2, BuildAssumption DEF Unknown, BuildAssumption
<1>3. field.kind = IF is_char_array(f) THEN "CHAR_ARRAY"
                   ELSE IF f.is_struct_type THEN "STRUCT"
                   ELSE LayoutTypes[f.type_name].kind
  BY DEF Stands
<1>4. ~f.is_struct_type =>
         LayoutTypes[f.type_name].kind \in Integral \cup {"FLOAT", "DOUBLE"}
  BY <1>2 DEF LayoutTypeRight
<1>5. /\ field.kind \in Kinds
      /\ field.kind = "CHAR_ARRAY" <=> is_char_array(f)
      /\ field.kind = "STRUCT" <=> f.is_struct_type
  BY <1>3, <1>4 DEF Kinds, Integral, is_char_array
<1>6. /\ f \in FieldDeclaration /\ type \in TypeType /\ e[k - 1] \in ExtentType
      /\ e[k].end = FirstMultiple(e[k - 1].end, type.alignment) + type.size * n
  BY ExtentOf
<1>7. type.size \in Nat /\ n \in Nat
  BY <1>6, CountIs, ArenaAssumption DEF TypeType, ArenaAssumption
<1>8. /\ field.element_size = type.size
      /\ field.element_count = IF is_char_array(f) THEN 1 ELSE n
      /\ field.char_buffer_size = IF is_char_array(f) THEN type.size * n ELSE 0
      /\ field.offset = FirstMultiple(e[k - 1].end, type.alignment)
  BY DEF Stands
<1>9. field.offset \in Nat
  BY <1>6, <1>8, FirstMultipleFrom DEF ExtentType, TypeType
<1> HIDE DEF type, n, e
<1>10. FieldSize(field) = type.size * n
  <2>1. n * type.size = type.size * n
    BY <1>7
  <2> QED BY <1>5, <1>8, <2>1 DEF FieldSize
<1> QED BY <1>2, <1>5, <1>6, <1>8, <1>9, <1>10 DEF type, n, e

\* A header is accepted exactly if it deserves it, memory permitting.
THEOREM AcceptsExactlyHolds == Spec => []AcceptsExactly
<1>1. BuildInv => AcceptsExactly
  <2> SUFFICES ASSUME BuildInv, Ended, ~starved
               PROVE  result = "OK" <=> WellFormed(header)
    BY DEF AcceptsExactly
  <2>1. ASSUME result # "OK" PROVE ~WellFormed(header)
    BY <2>1 DEF BuildInv, VerdictRight, Ended
  <2>2. ASSUME result = "OK" PROVE WellFormed(header)
    <3>1. header # <<>>
      BY <2>2 DEF BuildInv, VerdictRight
    <3>2. ASSUME NEW i \in Structs(header)
          PROVE  /\ header[i].fields # <<>> /\ i \notin Within(header, i)
                 /\ \A k \in Fields(header, i) : FieldRight(header, header[i].fields[k])
                 /\ Types(header)[i].size <= SizeMax
      <4>1. /\ BuiltRight(header, Structs(header), i, table[i])
            /\ FieldsStand(header, Structs(header), i, table[i].fields)
            /\ Len(table[i].fields) = Len(header[i].fields)
        BY <2>2, AllBuilt
      <4>2. \A k \in Fields(header, i) : FieldRight(header, header[i].fields[k])
        BY <4>1, NestedAreDone
      <4> QED BY <4>1, <4>2 DEF BuiltRight
    <3> QED BY <3>1, <3>2 DEF WellFormed
  <2> QED BY <2>1, <2>2
<1> QED BY <1>1, BuildInvHolds, PTL

\* What is accepted lies where the ABI puts it.
THEOREM LaidOutAsDeclaredHolds == Spec => []LaidOutAsDeclared
<1>1. BuildInv => LaidOutAsDeclared
  <2> SUFFICES ASSUME BuildInv, result = "OK", NEW i \in Structs(header)
               PROVE  /\ table[i].size = Types(header)[i].size
                      /\ table[i].alignment = Types(header)[i].alignment
                      /\ Len(table[i].fields) = Len(header[i].fields)
                      /\ \A k \in Fields(header, i) :
                            table[i].fields[k].offset + FieldSize(table[i].fields[k])
                                = Extents(header, Types(header), i)[k].end
    BY DEF LaidOutAsDeclared
  <2>1. /\ BuiltRight(header, Structs(header), i, table[i])
        /\ FieldsStand(header, Structs(header), i, table[i].fields)
        /\ Len(table[i].fields) = Len(header[i].fields)
    BY AllBuilt
  <2>2. Parsed(header)
    BY HeaderParsed DEF BuildInv
  <2>3. ASSUME NEW k \in Fields(header, i)
        PROVE  table[i].fields[k].offset + FieldSize(table[i].fields[k])
                  = Extents(header, Types(header), i)[k].end
    <3>1. Stands(header, i, k, table[i].fields[k])
      BY <2>1 DEF FieldsStand, Fields
    <3> QED BY <2>2, <3>1, StandsSize
  <2> QED BY <2>1, <2>3 DEF BuiltRight
<1> QED BY <1>1, BuildInvHolds, PTL

-----------------------------------------------------------------------------
(* Validation of what is built                                             *)

\* Attributes that build_field takes are right for the field it builds.
LEMMA AttributesStay ==
    ASSUME NEW h, Parsed(h), NEW i \in Structs(h), NEW k \in Fields(h, i),
           NEW field, Stands(h, i, k, field), ~OneByte(h[i].fields[k])
    PROVE  MetaAttributesValid(field.attributes, is_byte_array(field))
<1> DEFINE f == h[i].fields[k]
<1>1. /\ field.attributes = f.attributes
      /\ MetaAttributesValid(f.attributes, field_is_byte_array(f))
      /\ ~Unknown(h, f)
  BY DEF Stands, FieldRight
<1>2. CASE /\ ~HasAttribute(f.attributes, "meta.kind")
           /\ ~HasAttribute(f.attributes, "meta.format")
  BY <1>1, <1>2 DEF MetaAttributesValid
<1>3. CASE \/ HasAttribute(f.attributes, "meta.kind")
           \/ HasAttribute(f.attributes, "meta.format")
  <2>1. field_is_byte_array(f)
    BY <1>1, <1>3 DEF MetaAttributesValid
  <2>2. f.array_count > 0 /\ f.array_count # 1 /\ f.type_name \in ByteTypes \cup {Char}
    BY <1>3, <2>1 DEF OneByte, field_is_byte_array
  <2>3. ~f.is_struct_type
    BY <2>2 DEF Parsed
  <2>4. LayoutTypeRight(f.type_name, LayoutTypes[f.type_name])
    BY <1>1, <2>3, BuildAssumption DEF Unknown, BuildAssumption
  <2>5. /\ LayoutTypes[f.type_name].kind \in Integral
        /\ LayoutTypes[f.type_name].size = 1
    BY <2>2, <2>4 DEF LayoutTypeRight
  <2>6. ~is_char_array(f)
    BY <2>1 DEF is_char_array
  <2>7. DeclaredType(h, Types(h), f).size = 1
    BY <1>1, <2>3, <2>5 DEF DeclaredType
  <2>8. /\ field.kind \in Integral /\ field.element_size = 1
        /\ field.element_count = DeclaredCount(f)
    BY <2>3, <2>5, <2>6, <2>7 DEF Stands
  <2>9. f \in FieldDeclaration
    BY Declared
  <2>10. DeclaredCount(f) > 1
    <3>1. f.array_count \in Nat
      BY <2>9, ArenaAssumption DEF FieldDeclaration, ArenaAssumption
    <3> HIDE DEF f
    <3> QED BY <2>2, <3>1 DEF DeclaredCount
  <2>11. is_byte_array(field)
    BY <2>8, <2>10 DEF is_byte_array
  <2> QED BY <1>1, <2>1, <2>11
<1> QED BY <1>2, <1>3

\* A field that stands for one of the header passes the validation.
LEMMA FieldPasses ==
    ASSUME NEW h, Parsed(h), NEW i \in Structs(h), NEW k \in Fields(h, i),
           NEW tab, NEW d, NEW field, Stands(h, i, k, field),
           ~OneByte(h[i].fields[k]),
           d.size \in Nat, Extents(h, Types(h), i)[k].end <= d.size,
           \A j \in Structs(h) : tab[j].size = Types(h)[j].size
    PROVE  FieldValid(tab, d, field)
<1> DEFINE f == h[i].fields[k]
           type == DeclaredType(h, Types(h), f)
           n == DeclaredCount(f)
           j == find_entry(h, f.type_name)
<1>1. /\ f \in FieldDeclaration /\ type \in TypeType
      /\ Extents(h, Types(h), i)[k] \in ExtentType
      /\ n \in 1..SizeMax /\ SizeMax \in Nat
  BY ExtentOf, CountIs, ArenaAssumption DEF ArenaAssumption
<1>2. /\ ~Unknown(h, f) /\ type.size >= 1
      /\ Extents(h, Types(h), i)[k].end <= SizeMax
      /\ field.name = f.name /\ field.attributes = f.attributes
      /\ field.element_size = type.size
      /\ field.nested = IF f.is_struct_type THEN j ELSE NoNested
      /\ field.kind = IF is_char_array(f) THEN "CHAR_ARRAY"
                      ELSE IF f.is_struct_type THEN "STRUCT"
                      ELSE LayoutTypes[f.type_name].kind
      /\ field.element_count = IF is_char_array(f) THEN 1 ELSE n
      /\ field.char_buffer_size = IF is_char_array(f) THEN type.size * n ELSE 0
  BY DEF Stands, FieldRight
<1>3. /\ field.kind \in Kinds
      /\ field.kind = "CHAR_ARRAY" <=> is_char_array(f)
      /\ field.kind = "STRUCT" <=> f.is_struct_type
      /\ ~f.is_struct_type => LayoutTypeRight(f.type_name, LayoutTypes[f.type_name])
      /\ FieldSize(field) = type.size * n
      /\ field.offset \in Nat
      /\ field.offset + FieldSize(field) = Extents(h, Types(h), i)[k].end
  BY StandsSize
<1>4. type.size \in Nat \ {0}
  BY <1>1, <1>2 DEF TypeType
<1>5. type.size * n \in Nat \ {0} /\ type.size * n <= SizeMax
  <2> HIDE DEF type, n
  <2>1. PICK s \in Nat \ {0} : s = type.size
    BY <1>4
  <2>2. s * n \in Nat \ {0}
    BY <1>1
  <2>3. Extents(h, Types(h), i)[k].end \in Nat
    BY <1>1 DEF ExtentType
  <2> QED BY <1>1, <1>2, <1>3, <2>1, <2>2, <2>3
<1>6. field.name \notin {NoText, EmptyText}
  BY <1>1, <1>2, BuildAssumption DEF FieldDeclaration, BuildAssumption
<1>7. field.element_size # 0 /\ field.element_count # 0
  BY <1>1, <1>2, <1>4
<1>8. field.kind \in Integral => is_supported_size(field.element_size)
  <2> SUFFICES ASSUME field.kind \in Integral
               PROVE  is_supported_size(field.element_size)
    OBVIOUS
  <2>1. field.kind # "STRUCT" /\ field.kind # "CHAR_ARRAY"
    BY DEF Integral
  <2>2. ~f.is_struct_type /\ field.kind = LayoutTypes[f.type_name].kind
    BY <1>2, <1>3, <2>1
  <2>3. is_supported_size(LayoutTypes[f.type_name].size)
    BY <1>3, <2>2 DEF LayoutTypeRight
  <2>4. type.size = LayoutTypes[f.type_name].size
    BY <1>2, <2>2 DEF DeclaredType
  <2> QED BY <1>2, <2>3, <2>4
<1>9. ShapeValid(field)
  <2>1. CASE is_char_array(f)
    <3>1. /\ field.kind = "CHAR_ARRAY" /\ field.char_buffer_size = type.size * n
          /\ field.element_count = 1 /\ ~f.is_struct_type
      BY <1>2, <1>3, <2>1 DEF is_char_array
    <3>2. field.char_buffer_size # 0 /\ field.nested = NoNested
      BY <1>2, <1>5, <3>1
    <3> QED BY <3>1, <3>2 DEF ShapeValid
  <2>2. CASE ~is_char_array(f)
    <3>1. /\ field.kind # "CHAR_ARRAY" /\ field.char_buffer_size = 0
          /\ field.element_count = n
      BY <1>2, <1>3, <2>2
    <3>2. n <= SizeMax \div type.size
      <4> HIDE DEF type, n
      <4>1. PICK s \in Nat \ {0} : s = type.size
        BY <1>4
      <4>2. PICK c \in Nat : c = n
        BY <1>1
      <4>3. s * c <= SizeMax
        BY <1>5, <4>1, <4>2
      <4>4. c <= SizeMax \div s
        BY ONLY <1>1, <4>3, s \in Nat \ {0}, c \in Nat, SMTT(30)
      <4> QED BY <4>1, <4>2, <4>4
    <3> QED BY <1>2, <3>1, <3>2 DEF ShapeValid
  <2> QED BY <2>1, <2>2
<1>10. field.offset <= d.size /\ FieldSize(field) <= d.size - field.offset
  <2> HIDE DEF type, n
  <2>1. PICK s \in Nat : s = FieldSize(field)
    BY <1>3, <1>5
  <2>2. PICK o \in Nat : o = field.offset
    BY <1>3
  <2>3. PICK m \in Nat : m = d.size
    OBVIOUS
  <2>4. o + s <= m
    BY <1>3, <2>1, <2>2, <2>3
  <2>5. o <= m /\ s <= m - o
    BY <2>4
  <2> QED BY <2>1, <2>2, <2>3, <2>5
<1>11. IF field.kind = "STRUCT"
         THEN /\ field.nested # NoNested
              /\ field.element_size = tab[field.nested].size
         ELSE field.nested = NoNested
  <2>1. CASE f.is_struct_type
    <3>1. j \in Structs(h)
      BY <1>2, <2>1, NestsStructs DEF Nests
    <3>2. type = Types(h)[j]
      BY <1>2, <2>1 DEF DeclaredType
    <3>3. j # NoNested
      BY <3>1 DEF Structs, NoNested
    <3> QED BY <1>2, <1>3, <2>1, <3>1, <3>2, <3>3
  <2>2. CASE ~f.is_struct_type
    BY <1>2, <1>3, <2>2
  <2> QED BY <2>1, <2>2
<1>12. AttributesValid(field.attributes)
  BY <1>2 DEF Parsed, AttributesRight
<1>13. MetaAttributesValid(field.attributes, is_byte_array(field))
  BY AttributesStay
<1> QED BY <1>3, <1>6, <1>7, <1>8, <1>9, <1>10, <1>11, <1>12, <1>13 DEF FieldValid

\* A descriptor of a call that has succeeded passes the validation.
LEMMA DescriptorPasses ==
    ASSUME BuildInv, result = "OK", NoOneByte(header), NEW i \in Structs(header)
    PROVE  DescriptorValid(table, table[i])
<1> DEFINE d == table[i]
           n == Len(header[i].fields)
           e == Extents(header, Types(header), i)
<1>1. Parsed(header) /\ BuildTypeOK
  BY HeaderParsed DEF BuildInv
<1>2. \A j \in Structs(header) : BuiltRight(header, Structs(header), j, table[j])
  BY AllBuilt
<1>3. /\ d.name = header[i].name /\ d.attributes = header[i].attributes
      /\ d.size = Types(header)[i].size /\ d.size \in 1..SizeMax
      /\ Len(d.fields) = n /\ FieldsStand(header, Structs(header), i, d.fields)
  BY <1>2 DEF BuiltRight
<1>4. SizeMax \in Nat /\ d.size \in Nat
  BY <1>3, ArenaAssumption DEF ArenaAssumption
<1>5. d.name \notin {NoText, EmptyText} /\ AttributesValid(d.attributes)
  <2>1. header[i] \in StructDeclaration
    BY <1>1, Declared
  <2>2. header[i].name \in Texts \ {EmptyText}
    BY <2>1 DEF StructDeclaration
  <2> QED BY <1>1, <1>3, <2>2, BuildAssumption DEF Parsed, AttributesRight, BuildAssumption
<1>6. \A j \in Structs(header) : table[j].size = Types(header)[j].size
  BY <1>2 DEF BuiltRight
<1>7. e[n].end <= d.size
  <2>1. Acyclic(header, Structs(header))
    <3>1. \A j \in Structs(header) : Nests(header, j) \subseteq Structs(header)
      BY <1>1, NestsStructs
    <3> QED BY <1>2, <3>1 DEF Acyclic, Closed, BuiltRight
  <2>2. Types(header)[i] = Whole(header, Types(header), i)
    BY <1>1, <2>1, TypesAre
  <2>3. e[n].end <= Whole(header, Types(header), i).size
    BY <1>1, TypesAre, WholeIs
  <2> QED BY <1>3, <2>2, <2>3
<1>8. ASSUME NEW k \in 1..Len(d.fields) PROVE FieldValid(table, d, d.fields[k])
  <2>1. k \in Fields(header, i) /\ k \in 0..n /\ n \in k..n /\ n \in Nat
    BY <1>1, <1>3, Declared DEF Fields
  <2>2. Stands(header, i, k, d.fields[k])
    BY <1>3 DEF FieldsStand
  <2>3. e[k].end <= e[n].end /\ e[k] \in ExtentType /\ e[n] \in ExtentType
    <3>1. e[k].end <= e[n].end
      BY <1>1, <2>1, TypesAre, ExtentsGrow
    <3>2. e \in [0..n -> ExtentType] /\ n \in 0..n
      BY <1>1, <2>1, TypesAre, ExtentsAre
    <3> HIDE DEF e, n
    <3> QED BY <2>1, <3>1, <3>2
  <2>4. e[k].end <= d.size
    <3>1. e[k].end \in Nat /\ e[n].end \in Nat
      BY <2>3 DEF ExtentType
    <3> HIDE DEF e, n, d
    <3> QED BY <1>4, <1>7, <2>3, <3>1
  <2>5. ~OneByte(header[i].fields[k])
    BY <2>1 DEF NoOneByte
  <2> HIDE DEF d
  <2> QED BY <1>1, <1>4, <1>6, <2>1, <2>2, <2>4, <2>5, FieldPasses DEF e
<1> QED BY <1>3, <1>5, <1>8 DEF DescriptorValid

\* The descriptors nest what the structures of the header nest.
LEMMA NestedAsDeclared ==
    ASSUME BuildInv, result = "OK", NEW set \in SUBSET Structs(header)
    PROVE  NestedIn(table, set) = UNION {Nests(header, i) : i \in set}
<1>1. Parsed(header)
  BY HeaderParsed DEF BuildInv
<1>2. ASSUME NEW i \in set, NEW k \in Fields(header, i)
      PROVE  LET f == header[i].fields[k]
             IN  /\ table[i].fields[k].nested
                       = IF f.is_struct_type THEN find_entry(header, f.type_name)
                         ELSE NoNested
                 /\ ~Unknown(header, f)
                 /\ f.is_struct_type =>
                       find_entry(header, f.type_name) \in Nests(header, i)
  <2>1. /\ FieldsStand(header, Structs(header), i, table[i].fields)
        /\ Len(table[i].fields) = Len(header[i].fields)
    BY AllBuilt
  <2>2. Stands(header, i, k, table[i].fields[k])
    BY <2>1 DEF FieldsStand, Fields
  <2> QED BY <1>1, <2>2, NestsStructs DEF Stands, FieldRight
<1>3. \A i \in set : 1..Len(table[i].fields) = Fields(header, i)
  BY AllBuilt DEF Fields
<1>4. \A i \in set : Nests(header, i) \subseteq Structs(header)
  BY <1>1, NestsStructs
<1>5. \A j \in Structs(header) : j # NoNested
  BY DEF Structs, NoNested
<1>6. ASSUME NEW i \in set PROVE Nested(table[i]) = Nests(header, i)
  <2>1. Nested(table[i])
          = {table[i].fields[k].nested : k \in Fields(header, i)} \ {NoNested}
    BY <1>3, Zenon DEF Nested
  <2>2. ASSUME NEW j \in Nested(table[i]) PROVE j \in Nests(header, i)
    <3>1. PICK k \in Fields(header, i) : j = table[i].fields[k].nested
      BY <2>1
    <3> QED BY <1>2, <2>1, <3>1
  <2>3. ASSUME NEW j \in Nests(header, i) PROVE j \in Nested(table[i])
    <3>1. PICK k \in Fields(header, i) :
              /\ header[i].fields[k].is_struct_type
              /\ j = find_entry(header, header[i].fields[k].type_name)
      BY DEF Nests
    <3>2. j = table[i].fields[k].nested /\ j # NoNested
      BY <1>2, <1>4, <1>5, <3>1
    <3> QED BY <2>1, <3>2
  <2> QED BY <2>2, <2>3
<1> QED BY <1>6, Zenon DEF NestedIn

\* Those that a walk comes to are those within.
LEMMA ReachedAreWithin ==
    ASSUME BuildInv, result = "OK", NEW i \in Structs(header)
    PROVE  /\ Reached(table, {i}) \subseteq Structs(header)
           /\ Reached(table, NestedIn(table, {i})) = Within(header, i)
<1>1. DOMAIN table = Structs(header)
  BY DEF BuildInv, BuildTypeOK
<1>2. \A set \in SUBSET Structs(header) :
         NestedIn(table, set) \subseteq set <=> Closed(header, set)
  <2> TAKE set \in SUBSET Structs(header)
  <2>1. NestedIn(table, set) = UNION {Nests(header, j) : j \in set}
    BY NestedAsDeclared
  <2> QED BY <2>1 DEF Closed
<1>3. NestedIn(table, {i}) = Nests(header, i)
  <2>1. NestedIn(table, {i}) = UNION {Nests(header, j) : j \in {i}}
    BY NestedAsDeclared
  <2> QED BY <2>1
<1> QED BY <1>1, <1>2, <1>3 DEF Reached, Within

\* What is built passes the validation that every use begins with.
THEOREM BuiltValidHolds == Spec => []BuiltValid
<1>1. BuildInv => BuiltValid
  <2> SUFFICES ASSUME BuildInv, result = "OK", NoOneByte(header),
                      NEW i \in Structs(header)
               PROVE  validate(table, i) = "OK"
    BY DEF BuiltValid
  <2>1. ASSUME NEW j \in Reached(table, {i})
        PROVE  /\ DescriptorValid(table, table[j])
               /\ j \notin Reached(table, NestedIn(table, {j}))
    <3>1. j \in Structs(header)
      BY ReachedAreWithin
    <3>2. j \notin Within(header, j)
      BY <3>1, AllBuilt DEF BuiltRight
    <3> QED BY <3>1, <3>2, DescriptorPasses, ReachedAreWithin
  <2> QED BY <2>1 DEF validate
<1> QED BY <1>1, BuildInvHolds, PTL
=============================================================================
