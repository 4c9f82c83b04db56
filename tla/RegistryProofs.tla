--------------------------- MODULE RegistryProofs ----------------------------
(***************************************************************************)
(* Theorems about Registry, for every number of threads, catalogues,       *)
(* addresses and descriptors, and wherever allocations fail.  The first    *)
(* three hold whether or not threads take turns to create catalogues; what *)
(* a catalogue finds, and that nothing is left, needs that they do.        *)
(***************************************************************************)
EXTENDS Registry, TLAPS

-----------------------------------------------------------------------------
(* Sequences and the set of their elements                                 *)

LEMMA NoElements == Elements(<<>>) = {}
BY DEF Elements

LEMMA OneElement ==
    ASSUME NEW x
    PROVE  /\ Elements(<<x>>) = {x}
           /\ <<x>> # <<>>
BY DEF Elements

LEMMA ElementsType ==
    ASSUME NEW S, NEW s \in Seq(S)
    PROVE  Elements(s) \subseteq S
BY DEF Elements

LEMMA TypeFromElements ==
    ASSUME NEW S, NEW R, NEW s \in Seq(S), Elements(s) \subseteq R
    PROVE  s \in Seq(R)
<1>1. /\ Len(s) \in Nat
      /\ s \in [1..Len(s) -> S]
  OBVIOUS
<1>2. \A i \in 1..Len(s) : s[i] \in R
  BY DEF Elements
<1> QED BY <1>1, <1>2

LEMMA HeadAndTail ==
    ASSUME NEW S, NEW s \in Seq(S), s # <<>>
    PROVE  /\ Head(s) \in S
           /\ Tail(s) \in Seq(S)
           /\ Elements(s) = {Head(s)} \cup Elements(Tail(s))
<1>1. /\ Len(s) \in Nat \ {0} /\ Head(s) = s[1] /\ Head(s) \in S
      /\ Tail(s) \in Seq(S) /\ Len(Tail(s)) = Len(s) - 1
      /\ \A i \in 1..(Len(s) - 1) : Tail(s)[i] = s[i + 1]
  OBVIOUS
<1>2. ASSUME NEW i \in 1..Len(s)
      PROVE  s[i] = Head(s) \/ \E j \in 1..Len(Tail(s)) : Tail(s)[j] = s[i]
  <2>1. CASE i = 1
    BY <1>1, <2>1
  <2>2. CASE i # 1
    <3>1. i - 1 \in 1..(Len(s) - 1) /\ s[(i - 1) + 1] = s[i]
      BY <1>1, <2>2
    <3> QED BY <1>1, <3>1
  <2> QED BY <2>1, <2>2
<1>3. ASSUME NEW j \in 1..Len(Tail(s))
      PROVE  j + 1 \in 1..Len(s) /\ Tail(s)[j] = s[j + 1]
  BY <1>1
<1> QED BY <1>1, <1>2, <1>3 DEF Elements

LEMMA Concatenated ==
    ASSUME NEW S, NEW s \in Seq(S), NEW u \in Seq(S)
    PROVE  /\ s \o u \in Seq(S)
           /\ Elements(s \o u) = Elements(s) \cup Elements(u)
<1>1. /\ s \o u \in Seq(S) /\ Len(s) \in Nat /\ Len(u) \in Nat
      /\ Len(s \o u) = Len(s) + Len(u)
      /\ \A i \in 1..(Len(s) + Len(u)) :
            (s \o u)[i] = IF i <= Len(s) THEN s[i] ELSE u[i - Len(s)]
  OBVIOUS
<1>2. ASSUME NEW i \in 1..Len(s \o u)
      PROVE  (s \o u)[i] \in Elements(s) \cup Elements(u)
  <2>1. i <= Len(s) => i \in 1..Len(s)
    BY <1>1
  <2>2. i > Len(s) => i - Len(s) \in 1..Len(u)
    BY <1>1
  <2> QED BY <1>1, <2>1, <2>2 DEF Elements
<1>3. ASSUME NEW i \in 1..Len(s)
      PROVE  s[i] \in Elements(s \o u)
  BY <1>1 DEF Elements
<1>4. ASSUME NEW i \in 1..Len(u)
      PROVE  u[i] \in Elements(s \o u)
  <2>1. /\ Len(s) + i \in 1..Len(s \o u)
        /\ ~(Len(s) + i <= Len(s)) /\ (Len(s) + i) - Len(s) = i
    BY <1>1
  <2>2. (s \o u)[Len(s) + i] = u[i]
    BY <1>1, <2>1
  <2> QED BY <2>1, <2>2 DEF Elements
<1> QED BY <1>1, <1>2, <1>3, <1>4 DEF Elements

-----------------------------------------------------------------------------
(* The inductive invariant                                                 *)

Owned(c) == Elements(catalogs[c].descriptors)

ArenaCatalogs == {c \in DOMAIN catalogs : catalogs[c].arena}

\* What a call still has to visit, nested descriptors aside.
Pending(o) == Elements(o.roots) \cup Elements(o.work)

Busy(t) == op[t].kind # "none"

\* Static descriptors are there for ever, and a nested descriptor is static or
\* of the same catalogue.
MemoryInv ==
    /\ Static \subseteq DOMAIN memory
    /\ \A a \in DOMAIN memory : \A x \in Elements(memory[a].nested) :
          x \in Static \/ \E c \in ArenaCatalogs : a \in Owned(c) /\ x \in Owned(c)

\* A catalogue lives in memory of its own, or in static memory.
CatalogInv ==
    /\ \A c \in DOMAIN catalogs :
          IF catalogs[c].arena THEN Owned(c) \subseteq DOMAIN memory \ Static
                               ELSE Owned(c) \subseteq Static
    /\ \A c, e \in ArenaCatalogs : c # e => Owned(c) \cap Owned(e) = {}

\* Users register what catalogues do not own.
RegisteredInv ==
    /\ registered \subseteq DOMAIN memory
    /\ \A c \in ArenaCatalogs : Owned(c) \cap registered = {}

\* What the call of a thread may visit, and what it must.
CallInv(t) ==
    LET o == op[t]
    IN  /\ o.kind = "none" => o = NoCall
        /\ o.then = "publish" => /\ o.kind = "register"
                                 /\ o.catalog \in DOMAIN catalogs
                                 /\ Pending(o) \subseteq Static \cup Owned(o.catalog)
        /\ o.then = "release" => /\ o.kind = "unregister"
                                 /\ o.catalog \in DOMAIN catalogs
                                 /\ catalogs[o.catalog].arena =>
                                       DOMAIN registry \cap Owned(o.catalog)
                                           \subseteq Pending(o)
        /\ o.then = "return" /\ o.kind = "register" =>
              Pending(o) \subseteq Static \cup registered
        /\ o.kind = "register" /\ o.work # <<>> => exists
        /\ o.making => o.kind = "register" /\ o.work = <<>> /\ o.roots # <<>>

\* Only calls that create catalogues, different ones, overlap.
TurnsInv ==
    \A t, u \in Threads : t # u /\ Busy(t) /\ Busy(u) =>
        /\ op[t].then # "return"
        /\ catalogs[op[t].catalog].arena
        /\ op[t].catalog # op[u].catalog

\* Whose records there are.
RecordInv ==
    /\ DOMAIN registry \subseteq DOMAIN memory
    /\ \A a \in DOMAIN registry :
          \/ a \in Static \cup registered
          \/ \E c \in ArenaCatalogs : a \in Owned(c)
          \/ \E t \in Threads : op[t].kind = "unregister" /\ a \in Pending(op[t])

\* What is in them.
ContentInv ==
    \A a \in DOMAIN registry :
        /\ registry[a].check \in {memory[a].verdict, "OUT_OF_MEMORY"}
        /\ ~starved => registry[a].check = memory[a].verdict
        /\ registry[a].field_names \in {NoTable, build_field_names(memory[a])}

IInv == /\ TypeOK /\ MemoryInv /\ CatalogInv /\ RegisteredInv
        /\ \A t \in Threads : CallInv(t)
        /\ TurnsInv /\ RecordInv /\ ContentInv

-----------------------------------------------------------------------------
(* Initially                                                               *)

\* What is static, or nested in a static descriptor, has an address.
LEMMA Widened ==
    ASSUME NEW d \in DescriptorOf(Static)
    PROVE  d \in DescriptorOf(Addresses) /\ Elements(d.nested) \subseteq Static
<1>1. /\ d.nested \in Seq(Static) /\ Elements(d.nested) \subseteq Static
      /\ Static \subseteq Addresses
  BY ElementsType DEF DescriptorOf, Addresses
<1>2. d.nested \in Seq(Addresses)
  BY <1>1, TypeFromElements
<1> QED BY <1>1, <1>2 DEF DescriptorOf

LEMMA NoCallType == /\ NoCall \in Calls
                    /\ NoCall.kind = "none" /\ NoCall.then = "return"
                    /\ NoCall.work = <<>> /\ NoCall.making = FALSE
                    /\ Pending(NoCall) = {}
BY NoElements DEF NoCall, Call, Calls, Pending

LEMMA InitInv == Init => IInv
<1> SUFFICES ASSUME Init PROVE IInv
  OBVIOUS
<1>1. /\ memory = StaticContent /\ DOMAIN memory = Static
      /\ \A a \in Static : StaticContent[a] \in DescriptorOf(Static)
  BY RegistryAssumption DEF Init, RegistryAssumption
<1>2. /\ DOMAIN registry = {} /\ DOMAIN catalogs = {} /\ registered = {}
      /\ exists = FALSE /\ starved = FALSE
  BY DEF Init
<1>3. op \in [Threads -> Calls] /\ \A t \in Threads : op[t] = NoCall
  BY NoCallType DEF Init
<1>4. TypeOK
  BY <1>1, <1>2, <1>3, Widened DEF TypeOK, Addresses
<1>5. MemoryInv
  BY <1>1, Widened DEF MemoryInv
<1>6. CatalogInv /\ RegisteredInv
  BY <1>2 DEF CatalogInv, RegisteredInv, ArenaCatalogs
<1>7. TurnsInv /\ \A t \in Threads : CallInv(t)
  BY <1>3, NoCallType DEF TurnsInv, CallInv, Busy
<1>8. RecordInv /\ ContentInv
  BY <1>2 DEF RecordInv, ContentInv
<1> QED BY <1>4, <1>5, <1>6, <1>7, <1>8 DEF IInv

-----------------------------------------------------------------------------
(* Walks                                                                   *)

\* Where a call that registers may go.
Scope(t) ==
    Static \cup IF op[t].then = "publish" THEN Owned(op[t].catalog)
                                         ELSE registered

\* A step of a walk that stays in its scope, if it registers, and removes the
\* record of each descriptor that it is done with, if it unregisters.
LEMMA WalkKeeps ==
    ASSUME IInv, NEW t \in Threads, Busy(t),
           UNCHANGED <<memory, catalogs, registered>>,
           NEW o \in Calls, op' = [op EXCEPT ![t] = o],
           o.kind = op[t].kind, o.then = op[t].then,
           o.catalog = op[t].catalog,
           o.making => o.kind = "register" /\ o.work = <<>> /\ o.roots # <<>>,
           exists' \in BOOLEAN, exists => exists', starved' \in BOOLEAN,
           o.kind = "register" =>
              /\ Pending(o) \subseteq Scope(t)
              /\ o.work # <<>> => exists'
              /\ DOMAIN registry' \subseteq DOMAIN registry \cup Scope(t),
           o.kind = "unregister" =>
              /\ DOMAIN registry' \subseteq DOMAIN registry
              /\ DOMAIN registry' \cap Pending(op[t]) \subseteq Pending(o),
           ~exists' => DOMAIN registry' = {},
           \A a \in DOMAIN registry' : registry'[a].check \in Verdicts,
           ContentInv'
    PROVE  IInv'
<1>1. /\ op \in [Threads -> Calls]
      /\ op' \in [Threads -> Calls] /\ op'[t] = o
      /\ \A u \in Threads : u # t => op'[u] = op[u]
      /\ o.kind \in {"register", "unregister"}
      /\ o.then \in {"return", "publish", "release"}
  BY DEF IInv, TypeOK, Calls, Busy
<1>2. /\ memory' = memory /\ catalogs' = catalogs /\ registered' = registered
      /\ \A c : Owned(c)' = Owned(c)
      /\ ArenaCatalogs' = ArenaCatalogs
  BY DEF Owned, ArenaCatalogs
<1>3. /\ TypeOK /\ MemoryInv /\ CatalogInv /\ RegisteredInv /\ TurnsInv
      /\ RecordInv /\ \A u \in Threads : CallInv(u)
  BY DEF IInv
<1>4. o.kind = "register" =>
         \A a \in Scope(t) : /\ a \in DOMAIN memory
                              /\ \/ a \in Static \cup registered
                                 \/ \E c \in ArenaCatalogs : a \in Owned(c)
  <2>1. CASE o.then = "publish"
    <3>1. o.catalog \in DOMAIN catalogs
      BY <2>1, <1>3 DEF CallInv
    <3> QED BY <2>1, <3>1, <1>3
            DEF CatalogInv, ArenaCatalogs, MemoryInv, Scope
  <2>2. CASE o.then # "publish"
    BY <2>2, <1>3 DEF Scope, MemoryInv, RegisteredInv
  <2> QED BY <2>1, <2>2
<1>5. DOMAIN registry' \subseteq DOMAIN memory
  BY <1>1, <1>3, <1>4 DEF RecordInv
<1>6. TypeOK'
  BY <1>1, <1>2, <1>3, <1>5 DEF TypeOK
<1>7. (MemoryInv /\ CatalogInv /\ RegisteredInv)'
  BY <1>2, <1>3 DEF MemoryInv, CatalogInv, RegisteredInv
<1>8. ASSUME NEW u \in Threads PROVE CallInv(u)'
  <2>1. CASE u = t
    <3>1. CallInv(t)
      BY <1>3
    <3>2. o.kind # "none" /\ op'[u] = o
      BY <2>1, <1>1
    <3>3. o.then = "publish" => Pending(o) \subseteq Static \cup Owned(o.catalog)
      BY <3>1 DEF Scope, CallInv
    <3>4. o.then = "return" /\ o.kind = "register" =>
             Pending(o) \subseteq Static \cup registered
      BY DEF Scope
    <3>5. o.then = "release" /\ catalogs[o.catalog].arena =>
             DOMAIN registry' \cap Owned(o.catalog) \subseteq Pending(o)
      BY <3>1 DEF CallInv
    <3> QED BY <3>1, <3>2, <3>3, <3>4, <3>5, <1>2 DEF CallInv, Pending
  <2>2. CASE u # t
    <3>1. CallInv(u) /\ op'[u] = op[u]
      BY <2>2, <1>1, <1>3
    <3>2. ASSUME op[u].then = "release", catalogs[op[u].catalog].arena
          PROVE  DOMAIN registry' \cap Owned(op[u].catalog) \subseteq Pending(op[u])
      <4>1. /\ op[u].catalog \in ArenaCatalogs /\ Busy(u)
            /\ DOMAIN registry \cap Owned(op[u].catalog) \subseteq Pending(op[u])
        BY <3>1, <3>2 DEF CallInv, ArenaCatalogs, Busy
      <4>2. CASE o.kind = "unregister"
        BY <4>1, <4>2
      <4>3. CASE o.kind = "register"
        <5>1. /\ op[t].then # "return" /\ catalogs[op[t].catalog].arena
              /\ op[t].catalog # op[u].catalog
          BY <2>2, <4>1, <1>3 DEF TurnsInv
        <5>2. /\ op[t].then = "publish" /\ op[t].catalog \in ArenaCatalogs
          BY <4>3, <5>1, <1>1, <1>3 DEF CallInv, ArenaCatalogs
        <5>3. Scope(t) \cap Owned(op[u].catalog) = {}
          BY <4>1, <5>1, <5>2, <1>3 DEF CatalogInv, Scope, ArenaCatalogs
        <5> QED BY <4>1, <4>3, <5>3
      <4> QED BY <4>2, <4>3, <1>1
    <3> QED BY <3>1, <3>2, <1>2 DEF CallInv, Pending
  <2> QED BY <2>1, <2>2
<1>9. TurnsInv'
  BY <1>1, <1>2, <1>3 DEF TurnsInv, Busy
<1>10. RecordInv'
  <2> SUFFICES ASSUME NEW a \in DOMAIN registry',
                      a \notin Static \cup registered,
                      \A c \in ArenaCatalogs : a \notin Owned(c)
               PROVE  \E u \in Threads : /\ op'[u].kind = "unregister"
                                         /\ a \in Pending(op'[u])
    BY <1>2, <1>5 DEF RecordInv, Pending
  <2>1. a \in DOMAIN registry
    BY <1>1, <1>4
  <2>2. PICK u \in Threads : op[u].kind = "unregister" /\ a \in Pending(op[u])
    BY <2>1, <1>3 DEF RecordInv
  <2> QED BY <2>2, <1>1
<1> QED BY <1>6, <1>7, <1>8, <1>9, <1>10 DEF IInv

\* The call of a thread and its next visit.
LEMMA CallType ==
    ASSUME IInv, NEW t \in Threads
    PROVE  /\ op[t] \in Calls
           /\ op[t].roots \in Seq(Addresses) /\ op[t].work \in Seq(Addresses)
           /\ op[t].kind = "register" => Pending(op[t]) \subseteq Scope(t)
<1>1. op[t] \in Calls /\ CallInv(t)
  BY DEF IInv, TypeOK
<1>2. op[t].kind = "register" => op[t].then \in {"return", "publish"}
  BY <1>1 DEF Calls, CallInv
<1> QED BY <1>1, <1>2 DEF Calls, CallInv, Scope

\* Whoever registers registers what exists, and nested descriptors stay in the
\* scope of the call.
LEMMA ScopeClosed ==
    ASSUME IInv, NEW t \in Threads, op[t].kind = "register", NEW a \in Scope(t)
    PROVE  /\ a \in DOMAIN memory
           /\ memory[a].nested \in Seq(Addresses)
           /\ Elements(memory[a].nested) \subseteq Scope(t)
<1>1. /\ TypeOK /\ MemoryInv /\ CatalogInv /\ RegisteredInv /\ CallInv(t)
  BY DEF IInv
<1>2. op[t].then = "publish" => op[t].catalog \in DOMAIN catalogs
  BY <1>1 DEF CallInv
<1>3. a \in DOMAIN memory
  BY <1>1, <1>2 DEF Scope, MemoryInv, CatalogInv, RegisteredInv
<1>4. memory[a].nested \in Seq(Addresses)
  BY <1>1, <1>3 DEF TypeOK, DescriptorOf
<1>5. ASSUME NEW x \in Elements(memory[a].nested), x \notin Static
      PROVE  x \in Scope(t)
  <2>1. PICK c \in ArenaCatalogs : a \in Owned(c) /\ x \in Owned(c)
    BY <1>1, <1>3, <1>5 DEF MemoryInv
  <2>2. a \notin Static /\ a \notin registered
    BY <1>1, <2>1 DEF CatalogInv, RegisteredInv, ArenaCatalogs
  <2>3. /\ op[t].then = "publish" /\ a \in Owned(op[t].catalog)
        /\ op[t].catalog \in ArenaCatalogs
    BY <1>1, <1>2, <2>2 DEF Scope, CatalogInv, ArenaCatalogs
  <2>4. op[t].catalog = c
    BY <1>1, <2>1, <2>3 DEF CatalogInv
  <2> QED BY <2>1, <2>3, <2>4 DEF Scope
<1> QED BY <1>3, <1>4, <1>5 DEF Scope

\* A call that ends its walk.
LEMMA StoppedType ==
    ASSUME NEW o \in Calls
    PROVE  /\ [o EXCEPT !.work = <<>>] \in Calls
           /\ [o EXCEPT !.work = <<>>].work = <<>>
           /\ [o EXCEPT !.work = <<>>].kind = o.kind
           /\ [o EXCEPT !.work = <<>>].then = o.then
           /\ [o EXCEPT !.work = <<>>].catalog = o.catalog
           /\ [o EXCEPT !.work = <<>>].making = o.making
           /\ [o EXCEPT !.work = <<>>].roots = o.roots
           /\ Pending([o EXCEPT !.work = <<>>]) \subseteq Pending(o)
<1> DEFINE p == [o EXCEPT !.work = <<>>]
<1>1. <<>> \in Seq(Addresses)
  OBVIOUS
<1>2. p \in Calls
  BY <1>1 DEF Calls
<1>3. /\ p.work = <<>> /\ p.roots = o.roots /\ p.kind = o.kind
      /\ p.then = o.then /\ p.catalog = o.catalog /\ p.making = o.making
  BY DEF Calls
<1> HIDE DEF p
<1>4. Pending(p) \subseteq Pending(o)
  BY <1>3, NoElements DEF Pending
<1> QED BY <1>2, <1>3, <1>4 DEF p

LEMMA StartRootType ==
    ASSUME NEW o \in Calls, o.roots # <<>>, o.work = <<>>
    PROVE  /\ StartRoot(o) \in Calls
           /\ StartRoot(o).kind = o.kind /\ StartRoot(o).then = o.then
           /\ StartRoot(o).catalog = o.catalog
           /\ StartRoot(o).making = FALSE
           /\ Pending(StartRoot(o)) = Pending(o)
           /\ Elements(StartRoot(o).roots) \subseteq Elements(o.roots)
           /\ Elements(StartRoot(o).work) \subseteq Elements(o.roots)
<1>1. /\ Head(o.roots) \in Addresses /\ Tail(o.roots) \in Seq(Addresses)
      /\ Elements(o.roots) = {Head(o.roots)} \cup Elements(Tail(o.roots))
  BY HeadAndTail DEF Calls
<1>2. /\ StartRoot(o).work = <<Head(o.roots)>>
      /\ StartRoot(o).roots = Tail(o.roots)
      /\ StartRoot(o).kind = o.kind /\ StartRoot(o).then = o.then
      /\ StartRoot(o).catalog = o.catalog /\ StartRoot(o).making = FALSE
  BY DEF StartRoot, Calls
<1>3. StartRoot(o) \in Calls
  <2>1. <<Head(o.roots)>> \in Seq(Addresses)
    BY <1>1
  <2> HIDE DEF Addresses
  <2> QED BY <1>1, <2>1 DEF StartRoot, Calls
<1>4. Pending(StartRoot(o)) = Pending(o)
  BY <1>1, <1>2, NoElements, OneElement DEF Pending
<1>5. /\ Elements(StartRoot(o).roots) \subseteq Elements(o.roots)
      /\ Elements(StartRoot(o).work) \subseteq Elements(o.roots)
  BY <1>1, <1>2, OneElement
<1> QED BY <1>2, <1>3, <1>4, <1>5

LEMMA EnsureRegistryKeeps ==
    ASSUME IInv, NEW t \in Threads, EnsureRegistry(t) PROVE IInv'
<1> DEFINE o == IF HasRegistry THEN StartRoot(op[t])
                               ELSE [op[t] EXCEPT !.making = TRUE]
<1>1. /\ op[t] \in Calls /\ Pending(op[t]) \subseteq Scope(t)
      /\ op[t].kind = "register" /\ op[t].work = <<>> /\ op[t].roots # <<>>
      /\ Busy(t)
  BY CallType DEF EnsureRegistry, Busy
<1>2. /\ o \in Calls /\ o.kind = op[t].kind /\ o.then = op[t].then
      /\ o.catalog = op[t].catalog /\ Pending(o) = Pending(op[t])
      /\ o.work # <<>> => exists
      /\ o.making => o.work = <<>> /\ o.roots # <<>>
  <2>1. CASE HasRegistry
    BY <1>1, <2>1, StartRootType DEF HasRegistry
  <2>2. CASE ~HasRegistry
    BY <1>1, <2>2 DEF Calls, Pending
  <2> QED BY <2>1, <2>2
<1>3. /\ op' = [op EXCEPT ![t] = o]
      /\ UNCHANGED <<memory, exists, registry, catalogs, registered, starved>>
  BY DEF EnsureRegistry
<1> HIDE DEF o
<1>4. ContentInv'
  BY <1>3 DEF IInv, ContentInv
<1>5. TypeOK
  BY DEF IInv
<1> QED BY <1>1, <1>2, <1>3, <1>4, <1>5, WalkKeeps DEF TypeOK

LEMMA CreateRegistryKeeps ==
    ASSUME IInv, NEW t \in Threads, CreateRegistry(t) PROVE IInv'
<1>1. /\ op[t] \in Calls /\ CallInv(t) /\ TypeOK
      /\ op[t].kind = "register" => Pending(op[t]) \subseteq Scope(t)
  BY CallType DEF IInv
<1>2. /\ op[t].kind = "register" /\ op[t].work = <<>> /\ op[t].roots # <<>>
      /\ Busy(t)
  BY <1>1 DEF CallInv, CreateRegistry, Busy
<1> DEFINE s == StartRoot(op[t])
           o == [s EXCEPT !.work = <<>>]
<1>3. /\ s \in Calls /\ s.kind = op[t].kind /\ s.then = op[t].then
      /\ s.catalog = op[t].catalog /\ Pending(s) = Pending(op[t])
      /\ s.making = FALSE
  BY <1>1, <1>2, StartRootType
<1> HIDE DEF s
<1>4. /\ o \in Calls /\ o.kind = op[t].kind /\ o.then = op[t].then
      /\ o.catalog = op[t].catalog /\ Pending(o) \subseteq Pending(op[t])
      /\ o.making = FALSE /\ o.work = <<>>
  BY <1>3, StoppedType
<1> HIDE DEF o
<1>5. UNCHANGED <<memory, catalogs, registered>>
  BY DEF CreateRegistry
<1>6. CASE /\ exists' = TRUE /\ registry' = <<>> /\ starved' = starved
           /\ op' = [op EXCEPT ![t] = s]
  <2>1. DOMAIN registry' = {}
    BY <1>6
  <2>2. ContentInv'
    BY <2>1 DEF ContentInv
  <2> QED BY <1>1, <1>2, <1>3, <1>5, <1>6, <2>1, <2>2, WalkKeeps DEF TypeOK
<1>7. CASE /\ starved' = TRUE /\ op' = [op EXCEPT ![t] = o]
           /\ UNCHANGED <<exists, registry>>
  <2>1. ContentInv'
    BY <1>5, <1>7 DEF IInv, ContentInv
  <2> QED BY <1>1, <1>2, <1>4, <1>5, <1>7, <2>1, WalkKeeps DEF TypeOK
<1> QED BY <1>6, <1>7 DEF CreateRegistry, s, o

LEMMA VisitedType ==
    ASSUME NEW o \in Calls, o.work # <<>>, NEW nested \in Seq(Addresses)
    PROVE  /\ Visited(o, nested) \in Calls
           /\ Visited(o, nested).kind = o.kind
           /\ Visited(o, nested).then = o.then
           /\ Visited(o, nested).catalog = o.catalog
           /\ Visited(o, nested).making = o.making
           /\ Head(o.work) \in Pending(o)
           /\ Pending(o) \subseteq Pending(Visited(o, nested)) \cup {Head(o.work)}
           /\ Pending(Visited(o, nested)) \subseteq Pending(o) \cup Elements(nested)
           /\ Elements(nested) \subseteq Pending(Visited(o, nested))
           /\ Visited(o, nested).roots = o.roots
           /\ Head(o.work) \in Elements(o.work)
           /\ Elements(Visited(o, nested).work)
                 \subseteq Elements(o.work) \cup Elements(nested)
<1> DEFINE tail == Tail(o.work)
           rest == nested \o tail
<1>1. /\ tail \in Seq(Addresses)
      /\ Elements(o.work) = {Head(o.work)} \cup Elements(tail)
  BY HeadAndTail DEF Calls
<1> HIDE DEF tail
<1>2. /\ rest \in Seq(Addresses)
      /\ Elements(rest) = Elements(nested) \cup Elements(tail)
  BY <1>1, Concatenated
<1>3. Visited(o, nested) = [o EXCEPT !.work = rest]
  BY DEF Visited, tail
<1> HIDE DEF rest
<1>4. /\ Visited(o, nested) \in Calls
      /\ Visited(o, nested).kind = o.kind /\ Visited(o, nested).then = o.then
      /\ Visited(o, nested).catalog = o.catalog
      /\ Visited(o, nested).making = o.making
      /\ Visited(o, nested).roots = o.roots /\ Visited(o, nested).work = rest
  BY <1>2, <1>3 DEF Calls
<1> QED BY <1>1, <1>2, <1>4 DEF Pending

LEMMA RegisterAgainKeeps ==
    ASSUME IInv, NEW t \in Threads, RegisterAgain(t) PROVE IInv'
<1> DEFINE o == Visited(op[t], <<>>)
<1>1. /\ op[t] \in Calls /\ CallInv(t) /\ TypeOK
      /\ op[t].kind = "register" /\ op[t].work # <<>> /\ Busy(t)
      /\ Pending(op[t]) \subseteq Scope(t)
  BY CallType DEF IInv, RegisterAgain, Busy
<1>2. /\ o \in Calls /\ o.kind = op[t].kind /\ o.then = op[t].then
      /\ o.catalog = op[t].catalog /\ o.making = op[t].making
      /\ Pending(o) \subseteq Pending(op[t])
  <2>1. <<>> \in Seq(Addresses)
    OBVIOUS
  <2> QED BY <1>1, <2>1, VisitedType, NoElements
<1>3. /\ op' = [op EXCEPT ![t] = o]
      /\ UNCHANGED <<memory, exists, registry, catalogs, registered, starved>>
  BY DEF RegisterAgain
<1> HIDE DEF o
<1>4. ~op[t].making /\ exists
  BY <1>1 DEF CallInv, Calls
<1>5. ContentInv'
  BY <1>3 DEF IInv, ContentInv
<1> QED BY <1>1, <1>2, <1>3, <1>4, <1>5, WalkKeeps DEF TypeOK

\* What a new record says of its descriptor.
LEMMA NewRecordSays ==
    ASSUME NEW d \in DescriptorOf(Addresses), NEW starving \in BOOLEAN,
           NEW r \in NewRecords(d, starving)
    PROVE  /\ r.check \in {d.verdict, "OUT_OF_MEMORY"} /\ r.check \in Verdicts
           /\ ~starving => r.check = d.verdict
           /\ r.field_names \in {NoTable, build_field_names(d)}
<1>1. d.verdict \in {"OK", "CORRUPT_DESCRIPTOR"}
  BY DEF DescriptorOf
<1> QED BY <1>1 DEF NewRecords, Record, Verdicts

LEMMA RegisterNewKeeps ==
    ASSUME IInv, NEW t \in Threads, RegisterNew(t) PROVE IInv'
<1> DEFINE a == Head(op[t].work)
           d == memory[a]
<1>1. /\ op[t] \in Calls /\ CallInv(t) /\ TypeOK /\ ContentInv
      /\ op[t].kind = "register" /\ op[t].work # <<>> /\ Busy(t)
      /\ Pending(op[t]) \subseteq Scope(t)
      /\ UNCHANGED <<memory, exists, catalogs, registered>>
      /\ a \notin DOMAIN registry
  BY CallType DEF IInv, RegisterNew, Busy
<1>2. ~op[t].making /\ exists
  BY <1>1 DEF CallInv, Calls
<1>3. a \in Scope(t)
  <2>1. <<>> \in Seq(Addresses)
    OBVIOUS
  <2> QED BY <1>1, <2>1, VisitedType
<1>4. /\ a \in DOMAIN memory /\ d.nested \in Seq(Addresses)
      /\ Elements(d.nested) \subseteq Scope(t)
      /\ d \in DescriptorOf(Addresses)
  BY <1>1, <1>3, ScopeClosed DEF TypeOK
<1> HIDE DEF a
<1>5. ASSUME NEW starving \in {FALSE, MayStarve},
             NEW r \in NewRecords(d, starving),
             registry' = With(a, r),
             op' = [op EXCEPT ![t] =
                       Visited(op[t], IF r.check = "OK" THEN d.nested ELSE <<>>)],
             starved' = (starved \/ starving)
      PROVE  IInv'
  <2> DEFINE nested == IF r.check = "OK" THEN d.nested ELSE <<>>
             o == Visited(op[t], nested)
  <2>1. nested \in Seq(Addresses) /\ Elements(nested) \subseteq Scope(t)
    BY <1>4, NoElements
  <2>2. op' = [op EXCEPT ![t] = o]
    BY <1>5
  <2> HIDE DEF nested
  <2>3. /\ o \in Calls /\ o.kind = op[t].kind /\ o.then = op[t].then
        /\ o.catalog = op[t].catalog /\ o.making = op[t].making
        /\ Pending(o) \subseteq Scope(t)
    BY <1>1, <2>1, VisitedType
  <2> HIDE DEF o
  <2>4. /\ DOMAIN registry' = DOMAIN registry \cup {a} /\ registry'[a] = r
        /\ \A x \in DOMAIN registry : registry'[x] = registry[x]
    BY <1>1, <1>5 DEF With
  <2>5. starving \in BOOLEAN
    BY RegistryAssumption DEF RegistryAssumption
  <2>6. /\ r.check \in {d.verdict, "OUT_OF_MEMORY"} /\ r.check \in Verdicts
        /\ ~starving => r.check = d.verdict
        /\ r.field_names \in {NoTable, build_field_names(d)}
    BY <1>4, <2>5, NewRecordSays
  <2>7. ContentInv'
    BY <1>1, <1>5, <2>4, <2>6 DEF ContentInv
  <2>8. \A x \in DOMAIN registry' : registry'[x].check \in Verdicts
    BY <1>1, <2>4, <2>6 DEF TypeOK
  <2>9. starved' \in BOOLEAN
    BY <1>1, <1>5, <2>5 DEF TypeOK
  <2> QED BY <1>1, <1>2, <1>3, <2>2, <2>3, <2>4, <2>7, <2>8, <2>9, WalkKeeps
<1>6. CASE /\ starved' = TRUE /\ registry' = registry
           /\ op' = [op EXCEPT ![t].work = <<>>]
  <2> DEFINE o == [op[t] EXCEPT !.work = <<>>]
  <2>1. /\ o \in Calls /\ o.kind = op[t].kind /\ o.then = op[t].then
        /\ o.catalog = op[t].catalog /\ o.making = op[t].making
        /\ Pending(o) \subseteq Scope(t)
    BY <1>1, StoppedType
  <2>2. op' = [op EXCEPT ![t] = o]
    BY <1>6
  <2> HIDE DEF o
  <2>3. ContentInv'
    BY <1>1, <1>6 DEF ContentInv
  <2> QED BY <1>1, <1>2, <1>6, <2>1, <2>2, <2>3, WalkKeeps DEF TypeOK
<1> QED BY <1>5, <1>6 DEF RegisterNew, a

LEMMA UnregisterRootKeeps ==
    ASSUME IInv, NEW t \in Threads, UnregisterRoot(t) PROVE IInv'
<1> DEFINE o == StartRoot(op[t])
<1>1. /\ op[t] \in Calls /\ TypeOK /\ ContentInv
      /\ op[t].kind = "unregister" /\ op[t].work = <<>> /\ op[t].roots # <<>>
      /\ Busy(t)
  BY CallType DEF IInv, UnregisterRoot, Busy
<1>2. /\ o \in Calls /\ o.kind = op[t].kind /\ o.then = op[t].then
      /\ o.catalog = op[t].catalog /\ Pending(o) = Pending(op[t])
      /\ o.making = FALSE
  BY <1>1, StartRootType
<1>3. /\ op' = [op EXCEPT ![t] = o]
      /\ UNCHANGED <<memory, exists, registry, catalogs, registered, starved>>
  BY DEF UnregisterRoot
<1> HIDE DEF o
<1>4. ContentInv'
  BY <1>1, <1>3 DEF ContentInv
<1> QED BY <1>1, <1>2, <1>3, <1>4, WalkKeeps DEF TypeOK

LEMMA UnregisterKeeps ==
    ASSUME IInv, NEW t \in Threads, Unregister(t) PROVE IInv'
<1> DEFINE a == Head(op[t].work)
           nested == IF a \in DOMAIN registry THEN Followed(a) ELSE <<>>
           o == Visited(op[t], nested)
<1>1. /\ op[t] \in Calls /\ CallInv(t) /\ TypeOK /\ ContentInv /\ RecordInv
      /\ op[t].kind = "unregister" /\ op[t].work # <<>> /\ Busy(t)
      /\ UNCHANGED <<memory, exists, catalogs, registered, starved>>
  BY CallType DEF IInv, Unregister, Busy
<1>2. ~op[t].making
  BY <1>1 DEF CallInv, Calls
<1>3. nested \in Seq(Addresses)
  <2>1. a \in DOMAIN registry => memory[a].nested \in Seq(Addresses)
    BY <1>1 DEF RecordInv, TypeOK, DescriptorOf
  <2> QED BY <2>1 DEF Followed
<1>4. op' = [op EXCEPT ![t] = o]
  BY DEF Unregister
<1>5. /\ DOMAIN registry' = DOMAIN registry \ {a}
      /\ \A x \in DOMAIN registry' : registry'[x] = registry[x]
  BY DEF Unregister, Without
<1> HIDE DEF nested
<1>6. /\ o \in Calls /\ o.kind = op[t].kind /\ o.then = op[t].then
      /\ o.catalog = op[t].catalog /\ o.making = op[t].making
      /\ Pending(op[t]) \subseteq Pending(o) \cup {a}
  BY <1>1, <1>3, VisitedType
<1> HIDE DEF o, a
<1>7. ContentInv'
  BY <1>1, <1>5 DEF ContentInv
<1>8. \A x \in DOMAIN registry' : registry'[x].check \in Verdicts
  BY <1>1, <1>5 DEF TypeOK
<1> QED BY <1>1, <1>2, <1>4, <1>5, <1>6, <1>7, <1>8, WalkKeeps DEF TypeOK

-----------------------------------------------------------------------------
(* The ends of calls                                                       *)

\* The call of a thread that has nothing left to visit ends; what it changes
\* of its catalogue is not what the invariant is about.
LEMMA EndKeeps ==
    ASSUME IInv, NEW t \in Threads, NEW then, Finished(t, then),
           UNCHANGED <<memory, exists, registry, registered, starved>>,
           DOMAIN catalogs' = DOMAIN catalogs,
           \A c \in DOMAIN catalogs :
              /\ catalogs'[c] \in [descriptors : Seq(Addresses), arena : BOOLEAN,
                                   open : BOOLEAN]
              /\ catalogs'[c].descriptors = catalogs[c].descriptors
              /\ catalogs'[c].arena = catalogs[c].arena
    PROVE  IInv'
<1>1. /\ TypeOK /\ MemoryInv /\ CatalogInv /\ RegisteredInv /\ TurnsInv
      /\ RecordInv /\ ContentInv /\ \A u \in Threads : CallInv(u)
  BY DEF IInv
<1>2. /\ op' \in [Threads -> Calls] /\ op'[t] = NoCall
      /\ \A u \in Threads : u # t => op'[u] = op[u]
      /\ Pending(op[t]) = {}
  BY <1>1, NoCallType, NoElements DEF Finished, TypeOK, Pending
<1>3. /\ \A c \in DOMAIN catalogs : Owned(c)' = Owned(c)
      /\ ArenaCatalogs' = ArenaCatalogs
  BY DEF Owned, ArenaCatalogs
<1>4. TypeOK'
  BY <1>1, <1>2 DEF TypeOK
<1>5. (MemoryInv /\ CatalogInv /\ RegisteredInv)'
  BY <1>1, <1>3 DEF MemoryInv, CatalogInv, RegisteredInv, ArenaCatalogs
<1>6. ASSUME NEW u \in Threads PROVE CallInv(u)'
  <2>1. CASE u = t
    BY <2>1, <1>2, NoCallType DEF CallInv
  <2>2. CASE u # t
    BY <2>2, <1>1, <1>2, <1>3 DEF CallInv, Pending
  <2> QED BY <2>1, <2>2
<1>7. TurnsInv'
  <2> SUFFICES ASSUME NEW u \in Threads, NEW v \in Threads, u # v,
                      Busy(u)', Busy(v)'
               PROVE  /\ op'[u].then # "return"
                      /\ catalogs'[op'[u].catalog].arena
                      /\ op'[u].catalog # op'[v].catalog
    BY DEF TurnsInv
  <2>1. u # t /\ v # t
    BY <1>2, NoCallType DEF Busy
  <2>2. op'[u] = op[u] /\ op'[v] = op[v] /\ Busy(u) /\ Busy(v)
    BY <2>1, <1>2 DEF Busy
  <2>3. op[u].then # "return" /\ op[u].then \in {"return", "publish", "release"}
    BY <2>2, <1>1 DEF TurnsInv, TypeOK, Calls
  <2>4. op[u].catalog \in DOMAIN catalogs
    BY <2>3, <1>1 DEF CallInv
  <2> QED BY <2>2, <2>4, <1>1 DEF TurnsInv
<1>8. RecordInv'
  <2> SUFFICES ASSUME NEW a \in DOMAIN registry,
                      a \notin Static \cup registered,
                      \A c \in ArenaCatalogs : a \notin Owned(c)
               PROVE  \E u \in Threads : /\ op'[u].kind = "unregister"
                                         /\ a \in Pending(op'[u])
    BY <1>1, <1>3 DEF RecordInv, Pending, ArenaCatalogs
  <2>1. PICK u \in Threads : op[u].kind = "unregister" /\ a \in Pending(op[u])
    BY <1>1 DEF RecordInv
  <2> QED BY <2>1, <1>2
<1>9. ContentInv'
  BY <1>1 DEF ContentInv
<1> QED BY <1>4, <1>5, <1>6, <1>7, <1>8, <1>9 DEF IInv

LEMMA ReturnKeeps ==
    ASSUME IInv, NEW t \in Threads, Return(t) PROVE IInv'
<1>1. TypeOK
  BY DEF IInv
<1> QED BY <1>1, EndKeeps DEF Return, TypeOK

LEMMA PublishKeeps ==
    ASSUME IInv, NEW t \in Threads, Publish(t) PROVE IInv'
<1>1. TypeOK
  BY DEF IInv
<1>2. /\ DOMAIN catalogs' = DOMAIN catalogs
      /\ \A c \in DOMAIN catalogs :
            /\ catalogs'[c] \in [descriptors : Seq(Addresses), arena : BOOLEAN,
                                 open : BOOLEAN]
            /\ catalogs'[c].descriptors = catalogs[c].descriptors
            /\ catalogs'[c].arena = catalogs[c].arena
  BY <1>1 DEF Publish, TypeOK
<1> QED BY <1>2, EndKeeps DEF Publish

\* The arena that is freed holds nothing that is registered, and nothing that
\* another call will visit.
LEMMA ReleaseKeeps ==
    ASSUME IInv, NEW t \in Threads, Release(t) PROVE IInv'
<1> DEFINE c == op[t].catalog
           freed == IF catalogs[c].arena THEN Owned(c) ELSE {}
<1>1. /\ TypeOK /\ MemoryInv /\ CatalogInv /\ RegisteredInv /\ TurnsInv
      /\ RecordInv /\ ContentInv /\ \A u \in Threads : CallInv(u)
  BY DEF IInv
<1>2. /\ op' \in [Threads -> Calls] /\ op'[t] = NoCall
      /\ \A u \in Threads : u # t => op'[u] = op[u]
      /\ Pending(op[t]) = {} /\ op[t].then = "release" /\ Busy(t)
      /\ UNCHANGED <<exists, registry, registered, starved>>
  BY <1>1, NoCallType, NoElements DEF Release, Finished, TypeOK, Pending, Busy
<1>3. /\ DOMAIN catalogs' = DOMAIN catalogs \ {c}
      /\ \A e \in DOMAIN catalogs' : catalogs'[e] = catalogs[e]
      /\ DOMAIN memory' = DOMAIN memory \ freed
      /\ \A a \in DOMAIN memory' : memory'[a] = memory[a]
  BY DEF Release, Owned
<1>4. c \in DOMAIN catalogs /\ DOMAIN registry \cap freed = {}
  BY <1>1, <1>2 DEF CallInv
<1>5. /\ \A e \in DOMAIN catalogs' : Owned(e)' = Owned(e)
      /\ ArenaCatalogs' = ArenaCatalogs \ {c}
      /\ \A e \in ArenaCatalogs' : freed \cap Owned(e) = {}
      /\ freed \cap Static = {} /\ freed \cap registered = {}
  BY <1>1, <1>3, <1>4 DEF Owned, ArenaCatalogs, CatalogInv, RegisteredInv
<1> HIDE DEF c, freed
<1>6. TypeOK'
  BY <1>1, <1>2, <1>3, <1>5 DEF TypeOK
<1>7. MemoryInv'
  <2> SUFFICES ASSUME NEW a \in DOMAIN memory',
                      NEW x \in Elements(memory[a].nested), x \notin Static
               PROVE  \E e \in ArenaCatalogs' : a \in Owned(e) /\ x \in Owned(e)
    BY <1>1, <1>3, <1>5 DEF MemoryInv, ArenaCatalogs
  <2>1. PICK e \in ArenaCatalogs : a \in Owned(e) /\ x \in Owned(e)
    BY <1>1, <1>3 DEF MemoryInv
  <2>2. e # c
    BY <2>1, <1>3 DEF freed, ArenaCatalogs
  <2> QED BY <2>1, <2>2, <1>5
<1>8. (CatalogInv /\ RegisteredInv)'
  <2>1. CatalogInv'
    BY <1>1, <1>3, <1>5 DEF CatalogInv, ArenaCatalogs
  <2>2. RegisteredInv'
    BY <1>1, <1>2, <1>3, <1>5 DEF RegisteredInv, ArenaCatalogs
  <2> QED BY <2>1, <2>2
<1>9. ASSUME NEW u \in Threads, u # t, op[u].then # "return"
      PROVE  op[u].catalog \in DOMAIN catalogs'
  <2>1. op[u].then \in {"publish", "release"} /\ op[u].catalog \in DOMAIN catalogs
    BY <1>1, <1>9 DEF CallInv, TypeOK, Calls
  <2>2. Busy(u)
    BY <2>1, <1>1 DEF CallInv, Busy
  <2> QED BY <2>1, <2>2, <1>1, <1>2, <1>3, <1>9 DEF TurnsInv, c
<1>10. ASSUME NEW u \in Threads PROVE CallInv(u)'
  <2>1. CASE u = t
    BY <2>1, <1>2, NoCallType DEF CallInv
  <2>2. CASE u # t
    BY <2>2, <1>1, <1>2, <1>3, <1>5, <1>9 DEF CallInv, Pending
  <2> QED BY <2>1, <2>2
<1>11. TurnsInv'
  <2> SUFFICES ASSUME NEW u \in Threads, NEW v \in Threads, u # v,
                      Busy(u)', Busy(v)'
               PROVE  /\ op'[u].then # "return"
                      /\ catalogs'[op'[u].catalog].arena
                      /\ op'[u].catalog # op'[v].catalog
    BY DEF TurnsInv
  <2>1. u # t /\ v # t
    BY <1>2, NoCallType DEF Busy
  <2>2. op'[u] = op[u] /\ op'[v] = op[v] /\ Busy(u) /\ Busy(v)
    BY <2>1, <1>2 DEF Busy
  <2> QED BY <2>1, <2>2, <1>1, <1>3, <1>9 DEF TurnsInv
<1>12. RecordInv'
  <2>1. DOMAIN registry' \subseteq DOMAIN memory'
    BY <1>1, <1>2, <1>3, <1>4 DEF RecordInv
  <2> SUFFICES ASSUME NEW a \in DOMAIN registry,
                      a \notin Static \cup registered,
                      \A e \in ArenaCatalogs' : a \notin Owned(e)
               PROVE  \E u \in Threads : /\ op'[u].kind = "unregister"
                                         /\ a \in Pending(op'[u])
    BY <2>1, <1>2, <1>3, <1>5 DEF RecordInv, Pending, ArenaCatalogs
  <2>2. \A e \in ArenaCatalogs : a \notin Owned(e)
    BY <1>4, <1>5 DEF freed, ArenaCatalogs
  <2>3. PICK u \in Threads : op[u].kind = "unregister" /\ a \in Pending(op[u])
    BY <2>2, <1>1 DEF RecordInv
  <2> QED BY <2>3, <1>2
<1>13. ContentInv'
  BY <1>1, <1>2, <1>3, <1>12 DEF ContentInv, RecordInv
<1> QED BY <1>6, <1>7, <1>8, <1>10, <1>11, <1>12, <1>13 DEF IInv

-----------------------------------------------------------------------------
(* Users                                                                   *)

\* When no call is in progress, every record is that of somebody.
LEMMA AllIdle ==
    ASSUME IInv, NEW t \in Threads, MayCall(t)
    PROVE  /\ \A u \in Threads : op[u] = NoCall /\ ~Busy(u)
           /\ \A a \in DOMAIN registry :
                 \/ a \in Static \cup registered
                 \/ \E c \in ArenaCatalogs : a \in Owned(c)
BY NoCallType DEF MayCall, Idle, Busy, IInv, RecordInv

\* A call that begins when there is no other.
LEMMA BeginKeeps ==
    ASSUME IInv, NEW t \in Threads, MayCall(t),
           NEW o \in Calls, op' = [op EXCEPT ![t] = o],
           UNCHANGED <<exists, registry, starved>>,
           \A a \in DOMAIN registry : a \in DOMAIN memory' /\ memory'[a] = memory[a],
           TypeOK', MemoryInv', CatalogInv', RegisteredInv', CallInv(t)',
           \A a \in DOMAIN registry :
              \/ a \in Static \cup registered'
              \/ \E c \in ArenaCatalogs' : a \in Owned(c)'
              \/ o.kind = "unregister" /\ a \in Pending(o)
    PROVE  IInv'
<1>1. /\ \A u \in Threads : op[u] = NoCall
      /\ op'[t] = o /\ \A u \in Threads : u # t => op'[u] = NoCall
  BY AllIdle DEF IInv, TypeOK
<1>2. ASSUME NEW u \in Threads PROVE CallInv(u)'
  <2>1. CASE u = t
    BY <2>1
  <2>2. CASE u # t
    BY <2>2, <1>1, NoCallType DEF CallInv
  <2> QED BY <2>1, <2>2
<1>3. TurnsInv'
  BY <1>1, NoCallType DEF TurnsInv, Busy
<1>4. RecordInv'
  BY <1>1 DEF RecordInv, Pending
<1>5. ContentInv'
  BY DEF ContentInv, IInv
<1> QED BY <1>2, <1>3, <1>4, <1>5 DEF IInv

LEMMA OneRoot ==
    ASSUME NEW a \in Addresses
    PROVE  <<a>> \in Seq(Addresses) /\ Elements(<<a>>) = {a}
<1>1. <<a>> \in Seq(Addresses)
  OBVIOUS
<1>2. Elements(<<a>>) = {a}
  BY OneElement
<1> QED BY <1>1, <1>2

LEMMA IndexRegisterKeeps ==
    ASSUME IInv, NEW t \in Threads, NEW a, struct_meta_index_register(t, a)
    PROVE  IInv'
<1> DEFINE roots == <<a>>
           o == Call("register", roots, "return", NoHandle)
<1>1. /\ TypeOK /\ MemoryInv /\ CatalogInv /\ RegisteredInv
  BY DEF IInv
<1>2. /\ MayCall(t) /\ a \in DOMAIN memory \ InArena /\ a \in Addresses
      /\ op' = [op EXCEPT ![t] = o] /\ registered' = registered \cup {a}
      /\ UNCHANGED <<memory, exists, registry, catalogs, starved>>
  BY <1>1 DEF struct_meta_index_register, TypeOK
<1>3. /\ o \in Calls /\ o.kind = "register" /\ o.then = "return"
      /\ o.work = <<>> /\ o.making = FALSE /\ Pending(o) = {a}
  <2>1. roots \in Seq(Addresses) /\ Elements(roots) = {a}
    BY <1>2, OneRoot
  <2> HIDE DEF roots
  <2>2. <<>> \in Seq(Addresses)
    OBVIOUS
  <2>3. /\ o \in Calls /\ o.kind = "register" /\ o.then = "return"
        /\ o.work = <<>> /\ o.making = FALSE
    BY <2>1, <2>2 DEF Call, Calls
  <2>4. Pending(o) = Elements(roots)
    BY NoElements DEF Call, Pending
  <2> QED BY <2>1, <2>3, <2>4
<1> HIDE DEF o
<1>4. TypeOK'
  BY <1>1, <1>2, <1>3 DEF TypeOK
<1>5. /\ \A c : Owned(c)' = Owned(c)
      /\ ArenaCatalogs' = ArenaCatalogs
      /\ \A c \in ArenaCatalogs : a \notin Owned(c)
  BY <1>2 DEF Owned, ArenaCatalogs, InArena
<1>6. (MemoryInv /\ CatalogInv /\ RegisteredInv)'
  BY <1>1, <1>2, <1>5 DEF MemoryInv, CatalogInv, RegisteredInv
<1>7. CallInv(t)'
  BY <1>1, <1>2, <1>3 DEF CallInv, TypeOK, Pending
<1>8. \A x \in DOMAIN registry : x \in DOMAIN memory' /\ memory'[x] = memory[x]
  BY <1>2 DEF IInv, RecordInv
<1>9. \A x \in DOMAIN registry :
         \/ x \in Static \cup registered'
         \/ \E c \in ArenaCatalogs' : x \in Owned(c)'
  BY <1>2, <1>5, AllIdle
<1> QED BY <1>2, <1>3, <1>4, <1>6, <1>7, <1>8, <1>9, BeginKeeps

LEMMA IndexUnregisterKeeps ==
    ASSUME IInv, NEW t \in Threads, NEW a, struct_meta_index_unregister(t, a)
    PROVE  IInv'
<1> DEFINE roots == <<a>>
           o == Call("unregister", roots, "return", NoHandle)
<1>1. /\ TypeOK /\ MemoryInv /\ CatalogInv /\ RegisteredInv
  BY DEF IInv
<1>2. /\ MayCall(t) /\ a \in Addresses
      /\ op' = [op EXCEPT ![t] = o] /\ registered' = registered \ {a}
      /\ UNCHANGED <<memory, exists, registry, catalogs, starved>>
  BY <1>1 DEF struct_meta_index_unregister, TypeOK
<1>3. /\ o \in Calls /\ o.kind = "unregister" /\ o.then = "return"
      /\ o.work = <<>> /\ o.making = FALSE /\ Pending(o) = {a}
  <2>1. roots \in Seq(Addresses) /\ Elements(roots) = {a}
    BY <1>2, OneRoot
  <2> HIDE DEF roots
  <2>2. <<>> \in Seq(Addresses)
    OBVIOUS
  <2>3. /\ o \in Calls /\ o.kind = "unregister" /\ o.then = "return"
        /\ o.work = <<>> /\ o.making = FALSE
    BY <2>1, <2>2 DEF Call, Calls
  <2>4. Pending(o) = Elements(roots)
    BY NoElements DEF Call, Pending
  <2> QED BY <2>1, <2>3, <2>4
<1> HIDE DEF o
<1>4. TypeOK'
  BY <1>1, <1>2, <1>3 DEF TypeOK
<1>5. /\ \A c : Owned(c)' = Owned(c)
      /\ ArenaCatalogs' = ArenaCatalogs
  BY <1>2 DEF Owned, ArenaCatalogs
<1>6. (MemoryInv /\ CatalogInv /\ RegisteredInv)'
  BY <1>1, <1>2, <1>5 DEF MemoryInv, CatalogInv, RegisteredInv
<1>7. CallInv(t)'
  BY <1>1, <1>2, <1>3 DEF CallInv, TypeOK
<1>8. \A x \in DOMAIN registry : x \in DOMAIN memory' /\ memory'[x] = memory[x]
  BY <1>2 DEF IInv, RecordInv
<1>9. \A x \in DOMAIN registry :
         \/ x \in Static \cup registered'
         \/ \E c \in ArenaCatalogs' : x \in Owned(c)'
         \/ x \in Pending(o)
  <2> SUFFICES ASSUME NEW x \in DOMAIN registry, x # a
               PROVE  \/ x \in Static \cup registered'
                      \/ \E c \in ArenaCatalogs' : x \in Owned(c)'
    BY <1>3
  <2>1. \/ x \in Static \cup registered
        \/ \E c \in ArenaCatalogs : x \in Owned(c)
    BY <1>2, AllIdle
  <2> QED BY <2>1, <1>2, <1>5
<1> QED BY <1>2, <1>3, <1>4, <1>6, <1>7, <1>8, <1>9, BeginKeeps

\* A scope changes memory only.
LEMMA ScopeKeeps ==
    ASSUME IInv, NEW t \in Threads, MayCall(t),
           UNCHANGED <<exists, registry, catalogs, registered, op, starved>>,
           \A a \in DOMAIN registry : a \in DOMAIN memory' /\ memory'[a] = memory[a],
           TypeOK', MemoryInv', CatalogInv', RegisteredInv'
    PROVE  IInv'
<1>1. /\ op[t] = NoCall /\ op' = [op EXCEPT ![t] = NoCall]
  BY AllIdle DEF IInv, TypeOK
<1>2. CallInv(t)'
  BY <1>1, NoCallType DEF CallInv
<1>3. /\ \A c : Owned(c)' = Owned(c)
      /\ ArenaCatalogs' = ArenaCatalogs
  BY DEF Owned, ArenaCatalogs
<1> QED BY <1>1, <1>2, <1>3, NoCallType, AllIdle, BeginKeeps

LEMMA EnterScopeKeeps ==
    ASSUME IInv, NEW t \in Threads, NEW a, NEW d \in Locals, EnterScope(t, a, d)
    PROVE  IInv'
<1>1. /\ TypeOK /\ MemoryInv /\ CatalogInv /\ RegisteredInv
  BY DEF IInv
<1>2. /\ MayCall(t) /\ a \in Dynamic /\ a \notin DOMAIN memory
      /\ DOMAIN memory' = DOMAIN memory \cup {a} /\ memory'[a] = d
      /\ \A x \in DOMAIN memory : memory'[x] = memory[x]
      /\ UNCHANGED <<exists, registry, catalogs, registered, op, starved>>
  BY DEF EnterScope
<1>3. /\ d \in DescriptorOf(Addresses) /\ Elements(d.nested) \subseteq Static
  BY Widened, RegistryAssumption DEF RegistryAssumption
<1>4. /\ \A c : Owned(c)' = Owned(c)
      /\ ArenaCatalogs' = ArenaCatalogs
  BY <1>2 DEF Owned, ArenaCatalogs
<1>5. TypeOK'
  BY <1>1, <1>2, <1>3 DEF TypeOK, Addresses
<1>6. MemoryInv'
  BY <1>1, <1>2, <1>3, <1>4 DEF MemoryInv
<1>7. (CatalogInv /\ RegisteredInv)'
  BY <1>1, <1>2, <1>4 DEF CatalogInv, RegisteredInv
<1>8. \A x \in DOMAIN registry : x \in DOMAIN memory' /\ memory'[x] = memory[x]
  BY <1>2 DEF IInv, RecordInv
<1> QED BY <1>2, <1>5, <1>6, <1>7, <1>8, ScopeKeeps

\* An automatic variable that is registered no more has no record.
LEMMA LeaveScopeKeeps ==
    ASSUME IInv, NEW t \in Threads, NEW a, LeaveScope(t, a)
    PROVE  IInv'
<1>1. /\ TypeOK /\ MemoryInv /\ CatalogInv /\ RegisteredInv
  BY DEF IInv
<1>2. /\ MayCall(t) /\ a \in Dynamic /\ a \notin registered
      /\ DOMAIN memory' = DOMAIN memory \ {a}
      /\ \A x \in DOMAIN memory' : memory'[x] = memory[x]
      /\ UNCHANGED <<exists, registry, catalogs, registered, op, starved>>
  BY DEF LeaveScope
<1>3. /\ a \notin Static /\ \A c \in ArenaCatalogs : a \notin Owned(c)
  BY RegistryAssumption
     DEF RegistryAssumption, LeaveScope, InArena, ArenaCatalogs, Owned
<1>4. /\ \A c : Owned(c)' = Owned(c)
      /\ ArenaCatalogs' = ArenaCatalogs
  BY <1>2 DEF Owned, ArenaCatalogs
<1>5. TypeOK'
  BY <1>1, <1>2, <1>3 DEF TypeOK
<1>6. MemoryInv'
  BY <1>1, <1>2, <1>3, <1>4 DEF MemoryInv
<1>7. (CatalogInv /\ RegisteredInv)'
  BY <1>1, <1>2, <1>3, <1>4 DEF CatalogInv, RegisteredInv, ArenaCatalogs
<1>8. a \notin DOMAIN registry
  BY <1>2, <1>3, AllIdle
<1>9. \A x \in DOMAIN registry : x \in DOMAIN memory' /\ memory'[x] = memory[x]
  BY <1>2, <1>8 DEF IInv, RecordInv
<1> QED BY <1>2, <1>5, <1>6, <1>7, <1>9, ScopeKeeps

-----------------------------------------------------------------------------
(* Catalogues                                                              *)

LEMMA AttachStaticKeeps ==
    ASSUME IInv, NEW t \in Threads, NEW c \in Catalogs, AttachStatic(t, c)
    PROVE  IInv'
<1> DEFINE o == Call("register", StaticTable, "publish", c)
           new == NewCatalog(StaticTable, FALSE)
<1>1. /\ TypeOK /\ MemoryInv /\ CatalogInv /\ RegisteredInv
  BY DEF IInv
<1>2. /\ StaticTable \in Seq(Addresses) /\ Elements(StaticTable) \subseteq Static
  <2>1. StaticTable \in Seq(Static) /\ Static \subseteq Addresses
    BY RegistryAssumption DEF RegistryAssumption, Addresses
  <2>2. Elements(StaticTable) \subseteq Static
    BY <2>1, ElementsType
  <2> QED BY <2>1, <2>2, TypeFromElements
<1>3. /\ MayCall(t) /\ op' = [op EXCEPT ![t] = o] /\ c \notin DOMAIN catalogs
      /\ DOMAIN catalogs' = DOMAIN catalogs \cup {c} /\ catalogs'[c] = new
      /\ \A e \in DOMAIN catalogs : catalogs'[e] = catalogs[e]
      /\ UNCHANGED <<memory, exists, registry, registered, starved>>
  BY DEF AttachStatic
<1>4. /\ o \in Calls /\ o.kind = "register" /\ o.then = "publish"
      /\ o.catalog = c /\ o.work = <<>> /\ o.making = FALSE
      /\ Pending(o) = Elements(StaticTable)
  <2>1. <<>> \in Seq(Addresses)
    OBVIOUS
  <2>2. /\ o \in Calls /\ o.kind = "register" /\ o.then = "publish"
        /\ o.catalog = c /\ o.work = <<>> /\ o.making = FALSE
    BY <1>2, <2>1 DEF Call, Calls
  <2>3. Pending(o) = Elements(StaticTable)
    BY NoElements DEF Call, Pending
  <2> QED BY <2>2, <2>3
<1>5. /\ new \in [descriptors : Seq(Addresses), arena : BOOLEAN, open : BOOLEAN]
      /\ new.descriptors = StaticTable /\ new.arena = FALSE
  BY <1>2 DEF NewCatalog
<1> HIDE DEF o, new
<1>6. /\ \A e \in DOMAIN catalogs : Owned(e)' = Owned(e)
      /\ Owned(c)' = Elements(StaticTable)
      /\ ArenaCatalogs' = ArenaCatalogs
  BY <1>3, <1>5 DEF Owned, ArenaCatalogs
<1>7. TypeOK'
  BY <1>1, <1>3, <1>4, <1>5 DEF TypeOK
<1>8. MemoryInv' /\ CatalogInv' /\ RegisteredInv'
  BY <1>1, <1>2, <1>3, <1>5, <1>6
     DEF MemoryInv, CatalogInv, RegisteredInv, ArenaCatalogs
<1>9. CallInv(t)'
  BY <1>1, <1>2, <1>3, <1>4, <1>6 DEF CallInv, TypeOK, Pending
<1>10. \A x \in DOMAIN registry : x \in DOMAIN memory' /\ memory'[x] = memory[x]
  BY <1>3 DEF IInv, RecordInv
<1>11. \A x \in DOMAIN registry :
         \/ x \in Static \cup registered'
         \/ \E e \in ArenaCatalogs' : x \in Owned(e)'
  BY <1>3, <1>6, AllIdle DEF ArenaCatalogs
<1> QED BY <1>3, <1>4, <1>7, <1>8, <1>9, <1>10, <1>11, BeginKeeps

LEMMA DestroyKeeps ==
    ASSUME IInv, NEW t \in Threads, NEW c \in DOMAIN catalogs,
           struct_meta_catalog_destroy(t, c)
    PROVE  IInv'
<1> DEFINE roots == catalogs[c].descriptors
           o == Call("unregister", roots, "release", c)
<1>1. /\ TypeOK /\ MemoryInv /\ CatalogInv /\ RegisteredInv
  BY DEF IInv
<1>2. /\ MayCall(t) /\ op' = [op EXCEPT ![t] = o]
      /\ catalogs' = [catalogs EXCEPT ![c].open = FALSE]
      /\ UNCHANGED <<memory, exists, registry, registered, starved>>
      /\ roots \in Seq(Addresses) /\ c \in Catalogs
  BY <1>1 DEF struct_meta_catalog_destroy, Destroyed, TypeOK
<1>3. /\ DOMAIN catalogs' = DOMAIN catalogs
      /\ \A e \in DOMAIN catalogs :
            /\ catalogs'[e] \in [descriptors : Seq(Addresses), arena : BOOLEAN,
                                 open : BOOLEAN]
            /\ catalogs'[e].descriptors = catalogs[e].descriptors
            /\ catalogs'[e].arena = catalogs[e].arena
  BY <1>1, <1>2 DEF TypeOK
<1>4. roots = catalogs[c].descriptors
  OBVIOUS
<1> HIDE DEF roots
<1>5. /\ o \in Calls /\ o.kind = "unregister" /\ o.then = "release"
      /\ o.catalog = c /\ o.work = <<>> /\ o.making = FALSE
      /\ Pending(o) = Elements(roots)
  <2>1. <<>> \in Seq(Addresses)
    OBVIOUS
  <2>2. /\ o \in Calls /\ o.kind = "unregister" /\ o.then = "release"
        /\ o.catalog = c /\ o.work = <<>> /\ o.making = FALSE
    BY <1>2, <2>1 DEF Call, Calls
  <2>3. Pending(o) = Elements(roots)
    BY NoElements DEF Call, Pending
  <2> QED BY <2>2, <2>3
<1> HIDE DEF o
<1>6. /\ \A e \in DOMAIN catalogs : Owned(e)' = Owned(e)
      /\ Pending(o) = Owned(c)
      /\ ArenaCatalogs' = ArenaCatalogs
  BY <1>3, <1>4, <1>5 DEF Owned, ArenaCatalogs
<1>7. TypeOK'
  BY <1>1, <1>2, <1>3, <1>5 DEF TypeOK
<1>8. MemoryInv' /\ CatalogInv' /\ RegisteredInv'
  BY <1>1, <1>2, <1>3, <1>6 DEF MemoryInv, CatalogInv, RegisteredInv, ArenaCatalogs
<1>9. CallInv(t)'
  <2>1. op'[t] = o
    BY <1>1, <1>2 DEF TypeOK
  <2> QED BY <2>1, <1>2, <1>3, <1>5, <1>6 DEF CallInv, Pending
<1>10. \A x \in DOMAIN registry : x \in DOMAIN memory' /\ memory'[x] = memory[x]
  BY <1>2 DEF IInv, RecordInv
<1>11. \A x \in DOMAIN registry :
         \/ x \in Static \cup registered'
         \/ \E e \in ArenaCatalogs' : x \in Owned(e)'
  BY <1>2, <1>6, AllIdle DEF ArenaCatalogs
<1> QED BY <1>2, <1>5, <1>7, <1>8, <1>9, <1>10, <1>11, BeginKeeps

\* The descriptors of a header refer to one another where they are placed.
LEMMA PlacedType ==
    ASSUME NEW h \in Headers, NEW place \in [1..Len(h) -> Dynamic],
           NEW i \in 1..Len(h)
    PROVE  /\ Placed(h, place)[i] \in DescriptorOf(Addresses)
           /\ \A x \in Elements(Placed(h, place)[i].nested) :
                 \E j \in 1..Len(h) : x = place[j]
<1> DEFINE d == h[i]
           nested == [k \in 1..Len(d.nested) |-> place[d.nested[k]]]
<1>1. d \in DescriptorOf(1..Len(h))
  BY RegistryAssumption DEF RegistryAssumption
<1>2. /\ d.nested \in Seq(1..Len(h)) /\ Len(d.nested) \in Nat
      /\ \A k \in 1..Len(d.nested) : d.nested[k] \in 1..Len(h)
  BY <1>1 DEF DescriptorOf
<1>3. \A k \in 1..Len(d.nested) : nested[k] \in Dynamic
  BY <1>2
<1>4. nested \in [1..Len(d.nested) -> Addresses]
  BY <1>3 DEF Addresses
<1>5. nested \in Seq(Addresses) /\ Len(nested) = Len(d.nested)
  BY <1>2, <1>4
<1>6. Placed(h, place)[i] = [d EXCEPT !.nested = nested]
  BY DEF Placed
<1>7. \A x \in Elements(nested) : \E j \in 1..Len(h) : x = place[j]
  BY <1>2, <1>5 DEF Elements
<1> HIDE DEF nested, d
<1>8. /\ [d EXCEPT !.nested = nested] \in DescriptorOf(Addresses)
      /\ [d EXCEPT !.nested = nested].nested = nested
  BY <1>1, <1>5 DEF DescriptorOf
<1> QED BY <1>6, <1>7, <1>8

\* The only call that may begin while others are in progress: what they are to
\* visit is elsewhere.
LEMMA CreateFromHeaderKeeps ==
    ASSUME IInv, NEW t \in Threads, NEW c \in Catalogs, NEW h \in Headers,
           NEW place \in [1..Len(h) -> Dynamic],
           CreateFromHeader(t, c, h, place)
    PROVE  IInv'
<1> DEFINE roots == [i \in 1..Len(h) |-> place[i]]
           new == NewCatalog(roots, TRUE)
           o == op'[t]
<1>1. /\ TypeOK /\ MemoryInv /\ CatalogInv /\ RegisteredInv /\ TurnsInv
      /\ RecordInv /\ ContentInv /\ \A u \in Threads : CallInv(u)
  BY DEF IInv
<1>2. /\ roots \in Seq(Addresses) /\ Elements(roots) \subseteq Dynamic
      /\ \A a : a \in Elements(roots) <=> \E i \in 1..Len(h) : a = place[i]
  <2>1. Len(h) \in Nat
    BY RegistryAssumption DEF RegistryAssumption
  <2>2. \A i \in 1..Len(h) : place[i] \in Dynamic
    OBVIOUS
  <2>3. roots \in [1..Len(h) -> Addresses] /\ roots \in [1..Len(h) -> Dynamic]
    BY <2>2 DEF Addresses
  <2>4. roots \in Seq(Addresses) /\ Len(roots) = Len(h)
    BY <2>1, <2>3
  <2> QED BY <2>2, <2>3, <2>4 DEF Elements
<1>3. /\ c \notin DOMAIN catalogs
      /\ DOMAIN catalogs' = DOMAIN catalogs \cup {c} /\ catalogs'[c] = new
      /\ \A e \in DOMAIN catalogs : catalogs'[e] = catalogs[e]
      /\ UNCHANGED <<exists, registry, registered, starved>>
      /\ Elements(roots) \cap DOMAIN memory = {}
      /\ DOMAIN memory' = DOMAIN memory \cup Elements(roots)
      /\ \A a \in DOMAIN memory : memory'[a] = memory[a]
  BY DEF CreateFromHeader
<1>4. ASSUME NEW a \in Elements(roots)
      PROVE  /\ memory'[a] \in DescriptorOf(Addresses)
             /\ Elements(memory'[a].nested) \subseteq Elements(roots)
  <2> DEFINE i == CHOOSE j \in 1..Len(h) : place[j] = a
  <2>1. i \in 1..Len(h)
    BY <1>2, <1>4
  <2>2. memory'[a] = Placed(h, place)[i]
    BY <1>3, <1>4 DEF CreateFromHeader
  <2> HIDE DEF i, roots
  <2>3. /\ Placed(h, place)[i] \in DescriptorOf(Addresses)
        /\ \A x \in Elements(Placed(h, place)[i].nested) :
              \E j \in 1..Len(h) : x = place[j]
    BY <2>1, PlacedType
  <2> QED BY <2>2, <2>3, <1>2
<1>5. /\ new \in [descriptors : Seq(Addresses), arena : BOOLEAN, open : BOOLEAN]
      /\ new.descriptors = roots /\ new.arena = TRUE
  BY <1>2 DEF NewCatalog
<1>6. /\ o \in Calls /\ op' \in [Threads -> Calls]
      /\ \A u \in Threads : u # t => op'[u] = op[u]
      /\ \/ o.kind = "register" /\ o.then = "publish"
         \/ o.kind = "unregister" /\ o.then = "release"
      /\ o.catalog = c /\ o.work = <<>> /\ o.making = FALSE
      /\ Pending(o) = Elements(roots)
  <2> HIDE DEF roots
  <2>1. <<>> \in Seq(Addresses)
    OBVIOUS
  <2>2. ASSUME NEW call,
               \/ call = Call("register", roots, "publish", c)
               \/ call = Call("unregister", roots, "release", c)
        PROVE  /\ call \in Calls
               /\ \/ call.kind = "register" /\ call.then = "publish"
                  \/ call.kind = "unregister" /\ call.then = "release"
               /\ call.catalog = c /\ call.work = <<>> /\ call.making = FALSE
               /\ Pending(call) = Elements(roots)
    <3>1. call = Call("register", roots, "publish", c) =>
             /\ call \in Calls /\ call.kind = "register" /\ call.then = "publish"
             /\ call.catalog = c /\ call.work = <<>> /\ call.making = FALSE
      BY <1>2, <2>1 DEF Call, Calls
    <3>3. call = Call("unregister", roots, "release", c) =>
             /\ call \in Calls /\ call.kind = "unregister" /\ call.then = "release"
             /\ call.catalog = c /\ call.work = <<>> /\ call.making = FALSE
      BY <1>2, <2>1 DEF Call, Calls
    <3>2. call.roots = roots
      BY <2>2 DEF Call
    <3>4. Pending(call) = Elements(roots)
      BY <2>2, <3>2, NoElements DEF Pending, Call
    <3> QED BY <2>2, <3>1, <3>3, <3>4
  <2>3. PICK call : /\ op' = [op EXCEPT ![t] = call]
                    /\ \/ call = Call("register", roots, "publish", c)
                       \/ call = Call("unregister", roots, "release", c)
    BY DEF CreateFromHeader, roots
  <2>4. op'[t] = call
    BY <2>3, <1>1 DEF TypeOK
  <2>5. call \in Calls
    BY <2>2, <2>3
  <2>6. op' \in [Threads -> Calls] /\ \A u \in Threads : u # t => op'[u] = op[u]
    BY <2>3, <2>5, <1>1 DEF TypeOK
  <2> QED BY <2>2, <2>3, <2>4, <2>6
<1> HIDE DEF roots, new
<1>7. /\ \A e \in DOMAIN catalogs : Owned(e)' = Owned(e)
      /\ Owned(c)' = Elements(roots)
      /\ ArenaCatalogs' = ArenaCatalogs \cup {c}
      /\ ArenaCatalogs \subseteq DOMAIN catalogs
  BY <1>3, <1>5 DEF Owned, ArenaCatalogs
<1>8. /\ Elements(roots) \cap Static = {} /\ Elements(roots) \subseteq Addresses
      /\ \A e \in ArenaCatalogs : Owned(e) \cap Elements(roots) = {}
      /\ Elements(roots) \cap registered = {}
      /\ Elements(roots) \cap DOMAIN registry = {}
  BY <1>1, <1>2, <1>3, RegistryAssumption
     DEF RegistryAssumption, CatalogInv, RegisteredInv, RecordInv, ArenaCatalogs,
         Addresses
<1>9. TypeOK'
  BY <1>1, <1>3, <1>4, <1>5, <1>6, <1>8 DEF TypeOK
<1>10. MemoryInv'
  <2> SUFFICES ASSUME NEW a \in DOMAIN memory',
                      NEW x \in Elements(memory'[a].nested), x \notin Static
               PROVE  \E e \in ArenaCatalogs' : a \in Owned(e)' /\ x \in Owned(e)'
    BY <1>1, <1>3 DEF MemoryInv
  <2>1. CASE a \in Elements(roots)
    BY <2>1, <1>4, <1>7
  <2>2. CASE a \in DOMAIN memory
    <3>1. PICK e \in ArenaCatalogs : a \in Owned(e) /\ x \in Owned(e)
      BY <2>2, <1>1, <1>3 DEF MemoryInv
    <3> QED BY <3>1, <1>7
  <2> QED BY <2>1, <2>2, <1>3
<1>11. CatalogInv'
  <2>1. ASSUME NEW e \in DOMAIN catalogs'
        PROVE  IF catalogs'[e].arena
                 THEN Owned(e)' \subseteq DOMAIN memory' \ Static
                 ELSE Owned(e)' \subseteq Static
    BY <1>1, <1>3, <1>5, <1>7, <1>8 DEF CatalogInv
  <2>2. ASSUME NEW e \in ArenaCatalogs', NEW f \in ArenaCatalogs', e # f
        PROVE  Owned(e)' \cap Owned(f)' = {}
    BY <2>2, <1>1, <1>7, <1>8 DEF CatalogInv
  <2> QED BY <2>1, <2>2 DEF CatalogInv
<1>12. RegisteredInv'
  BY <1>1, <1>3, <1>7, <1>8 DEF RegisteredInv
<1>13. ASSUME NEW u \in Threads PROVE CallInv(u)'
  <2>1. CASE u = t
    BY <2>1, <1>3, <1>6, <1>7 DEF CallInv, Pending
  <2>2. CASE u # t
    BY <2>2, <1>1, <1>3, <1>6, <1>7 DEF CallInv, Pending
  <2> QED BY <2>1, <2>2
<1>14. ASSUME NEW u \in Threads, u # t, Busy(u)
       PROVE  /\ op[u].then = "publish" /\ op[u].catalog \in DOMAIN catalogs
              /\ catalogs[op[u].catalog].arena
  <2>1. op[u].then = "publish" /\ catalogs[op[u].catalog].arena
    BY <1>14, NoCallType DEF CreateFromHeader, MayCreate, Idle, Busy
  <2> QED BY <2>1, <1>1 DEF CallInv
<1>15. TurnsInv'
  <2> SUFFICES ASSUME NEW u \in Threads, NEW v \in Threads, u # v,
                      Busy(u)', Busy(v)'
               PROVE  /\ op'[u].then # "return"
                      /\ catalogs'[op'[u].catalog].arena
                      /\ op'[u].catalog # op'[v].catalog
    BY DEF TurnsInv
  <2>1. ASSUME NEW w \in {u, v}, w # t
        PROVE  /\ op'[w] = op[w] /\ op[w].then = "publish"
               /\ op[w].catalog \in DOMAIN catalogs
               /\ catalogs'[op[w].catalog].arena
               /\ Busy(w)
    BY <2>1, <1>3, <1>6, <1>14 DEF Busy
  <2>2. op'[t].then # "return" /\ catalogs'[op'[t].catalog].arena
    BY <1>3, <1>5, <1>6
  <2>3. CASE u = t
    BY <2>1, <2>2, <2>3, <1>3, <1>6
  <2>4. CASE v = t
    BY <2>1, <2>2, <2>4, <1>3, <1>6
  <2>5. CASE u # t /\ v # t
    BY <2>1, <2>5, <1>1 DEF TurnsInv
  <2> QED BY <2>3, <2>4, <2>5
<1>16. RecordInv'
  <2> SUFFICES ASSUME NEW a \in DOMAIN registry,
                      a \notin Static \cup registered,
                      \A e \in ArenaCatalogs : a \notin Owned(e)
               PROVE  \E u \in Threads : /\ op'[u].kind = "unregister"
                                         /\ a \in Pending(op'[u])
    BY <1>1, <1>3, <1>7 DEF RecordInv, Pending
  <2>1. PICK u \in Threads : op[u].kind = "unregister" /\ a \in Pending(op[u])
    BY <1>1 DEF RecordInv
  <2>2. u # t
    BY <2>1, NoCallType DEF CreateFromHeader, MayCreate, Idle
  <2> QED BY <2>1, <2>2, <1>6
<1>17. ContentInv'
  BY <1>1, <1>3 DEF ContentInv, RecordInv
<1> QED BY <1>9, <1>10, <1>11, <1>12, <1>13, <1>15, <1>16, <1>17 DEF IInv

-----------------------------------------------------------------------------
(* The theorems                                                            *)

LEMMA NextInv == IInv /\ [Next]_vars => IInv'
<1> SUFFICES ASSUME IInv, [Next]_vars PROVE IInv'
  OBVIOUS
<1>1. ASSUME NEW t \in Threads, UserCall(t) PROVE IInv'
  BY <1>1, IndexRegisterKeeps, IndexUnregisterKeeps, EnterScopeKeeps,
     LeaveScopeKeeps, AttachStaticKeeps, DestroyKeeps, CreateFromHeaderKeeps
     DEF UserCall
<1>2. ASSUME NEW t \in Threads, Step(t) PROVE IInv'
  BY <1>2, EnsureRegistryKeeps, CreateRegistryKeeps, RegisterAgainKeeps,
     RegisterNewKeeps, UnregisterRootKeeps, UnregisterKeeps, ReturnKeeps,
     PublishKeeps, ReleaseKeeps DEF Step
<1>3. CASE UNCHANGED vars
  <2>1. TypeOK'
    BY <1>3 DEF vars, IInv, TypeOK
  <2>2. MemoryInv' /\ CatalogInv' /\ RegisteredInv'
    BY <1>3 DEF vars, IInv, MemoryInv, CatalogInv, RegisteredInv, ArenaCatalogs,
                Owned
  <2>3. TurnsInv' /\ RecordInv' /\ ContentInv'
    BY <1>3 DEF vars, IInv, TurnsInv, RecordInv, ContentInv, ArenaCatalogs, Owned,
                Busy, Pending
  <2>4. \A t \in Threads : CallInv(t)'
    BY <1>3 DEF vars, IInv, CallInv, Owned, Pending
  <2> QED BY <2>1, <2>2, <2>3, <2>4 DEF IInv
<1> QED BY <1>1, <1>2, <1>3 DEF Next

\* The state of the registry, of its users and of its catalogues keeps its type.
THEOREM TypeCorrect == Spec => []TypeOK
<1>1. IInv => TypeOK
  BY DEF IInv
<1> QED BY <1>1, InitInv, NextInv, PTL DEF Spec

\* No record outlives its descriptor, whether or not creations overlap.
THEOREM RecordsOfLivingHolds == Spec => []RecordsOfLiving
<1>1. IInv => RecordsOfLiving
  BY DEF IInv, RecordInv, RecordsOfLiving
<1> QED BY <1>1, InitInv, NextInv, PTL DEF Spec

\* A table that has all names of a descriptor, once each, finds what the
\* linear search finds.
LEMMA TableIsSearch ==
    ASSUME NEW d \in DescriptorOf(Addresses), build_field_names(d) # NoTable, NEW n
    PROVE  /\ n \in DOMAIN build_field_names(d) \ LongNames <=> n \in Elements(d.names)
           /\ n \in Elements(d.names) =>
                 build_field_names(d)[n] = LinearSearch(d, n)
<1>1. /\ Elements(d.names) \cap LongNames = {}
      /\ \A i, j \in 1..Len(d.names) : d.names[i] = d.names[j] => i = j
      /\ build_field_names(d) = [m \in Elements(d.names) |->
                                   CHOOSE i \in 1..Len(d.names) : d.names[i] = m]
  BY DEF build_field_names
<1>2. Len(d.names) \in Nat
  BY DEF DescriptorOf
<1>3. ASSUME n \in Elements(d.names)
      PROVE  build_field_names(d)[n] = LinearSearch(d, n)
  <2>1. PICK i \in 1..Len(d.names) : d.names[i] = n
    BY <1>3 DEF Elements
  <2>2. build_field_names(d)[n] = i
    <3>1. build_field_names(d)[n] = CHOOSE j \in 1..Len(d.names) : d.names[j] = n
      BY <1>1, <1>3
    <3> QED BY <3>1, <2>1, <1>1
  <2>3. LinearSearch(d, n) = i
    <3>1. \A j \in 1..(i - 1) : j \in 1..Len(d.names) /\ d.names[j] # n
      BY <2>1, <1>1, <1>2
    <3> QED BY <3>1, <2>1, <1>1, <1>3 DEF LinearSearch
  <2> QED BY <2>2, <2>3
<1> QED BY <1>1, <1>3

\* Registration changes the speed of a search and nothing else.
THEOREM AnswersAsUnregisteredHolds == Spec => []AnswersAsUnregistered
<1>1. IInv => AnswersAsUnregistered
  <2> SUFFICES ASSUME IInv, NEW a \in DOMAIN memory
               PROVE  /\ validate(a) \in {memory[a].verdict, "OUT_OF_MEMORY"}
                      /\ ~starved => validate(a) = memory[a].verdict
                      /\ \A n \in Names :
                            find_field(a, n) = LinearSearch(memory[a], n)
    BY DEF AnswersAsUnregistered
  <2>1. ContentInv /\ memory[a] \in DescriptorOf(Addresses)
    BY DEF IInv, TypeOK
  <2>2. /\ validate(a) \in {memory[a].verdict, "OUT_OF_MEMORY"}
        /\ ~starved => validate(a) = memory[a].verdict
    BY <2>1 DEF ContentInv, validate
  <2>3. ASSUME NEW n \in Names
        PROVE  find_field(a, n) = LinearSearch(memory[a], n)
    <3>1. CASE a \in DOMAIN registry /\ registry[a].field_names # NoTable
      <4>1. /\ registry[a].field_names = build_field_names(memory[a])
            /\ build_field_names(memory[a]) # NoTable
        BY <2>1, <3>1 DEF ContentInv
      <4>2. CASE n \in Elements(memory[a].names)
        BY <2>1, <3>1, <4>1, <4>2, TableIsSearch DEF find_field
      <4>3. CASE n \notin Elements(memory[a].names)
        BY <2>1, <3>1, <4>1, <4>3, TableIsSearch DEF find_field, LinearSearch
      <4> QED BY <4>2, <4>3
    <3>2. CASE ~(a \in DOMAIN registry /\ registry[a].field_names # NoTable)
      BY <3>2 DEF find_field
    <3> QED BY <3>1, <3>2
  <2> QED BY <2>2, <2>3
<1> QED BY <1>1, InitInv, NextInv, PTL DEF Spec
-----------------------------------------------------------------------------
(* When threads take turns to create catalogues, too.  The operators below *)
(* say what holds when o is the only call in progress.                     *)

\* The catalogues that are not being given back.
Kept(o) == DOMAIN catalogs \ IF o.then = "release" THEN {o.catalog} ELSE {}

\* For whom there are records: users and catalogues ...
Roots(o) == registered \cup UNION {Owned(c) : c \in Kept(o)}

\* ... and, until an unregistration has come by, those for whom there were.
Anchors(o) == Roots(o) \cup IF o.kind = "unregister" THEN Pending(o) ELSE {}

\* The records from which a walk goes on to a.
Parents(a) == {p \in DOMAIN registry : /\ registry[p].check = "OK"
                                       /\ a \in Elements(memory[p].nested)}

\* Each descriptor that a catalogue lists has a name of its own.
NamesInv(o) ==
    /\ \A a \in Static : memory[a] = StaticContent[a]
    /\ \A c \in Kept(o) : \A i, j \in 1..Len(catalogs[c].descriptors) :
          memory[catalogs[c].descriptors[i]].name
             = memory[catalogs[c].descriptors[j]].name => i = j

\* A call creates the registry if there is none.  A registration follows nested
\* descriptors from the roots; an unregistration keeps away from what the other
\* catalogues own.
WalkInv(o) ==
    /\ o.making => ~exists
    /\ o.then \in {"publish", "release"} => ~catalogs[o.catalog].open
    /\ o.kind = "register" =>
          /\ Elements(o.roots) \subseteq Roots(o)
          /\ \A a \in Elements(o.work) : a \in Roots(o) \/ Parents(a) # {}
    /\ o.kind = "unregister" =>
          \A c \in Kept(o) : catalogs[c].arena => Pending(o) \cap Owned(c) = {}

\* What a catalogue owns has a record or is about to get one.
CompleteInv(o) ==
    ~starved => \A c \in Kept(o) : catalogs[c].arena => \A a \in Owned(c) :
        \/ a \in DOMAIN registry
        \/ o.then = "publish" /\ o.catalog = c /\ a \in Pending(o)

\* Every record can be reached from an anchor along the nested descriptors of
\* valid ones: a set of records without an anchor has a parent outside.
ReachedInv(o) ==
    \A S \in SUBSET DOMAIN registry : S # {} /\ S \cap Anchors(o) = {} =>
        \E a \in S : \E p \in Parents(a) : p \notin S

TurnInv(o) == NamesInv(o) /\ WalkInv(o) /\ CompleteInv(o) /\ ReachedInv(o)

\* At most one thread is busy.
SInv == \E t \in Threads : /\ \A u \in Threads : u # t => Idle(u)
                           /\ TurnInv(op[t])

LEMMA InitTurn == Init => SInv
<1> SUFFICES ASSUME Init PROVE SInv
  OBVIOUS
<1>1. PICK t : t \in Threads
  BY RegistryAssumption DEF RegistryAssumption
<1>2. /\ op[t] = NoCall /\ \A u \in Threads : Idle(u)
      /\ memory = StaticContent /\ DOMAIN registry = {}
      /\ DOMAIN catalogs = {} /\ NoCall.kind = "none" /\ NoCall.then = "return"
      /\ NoCall.making = FALSE
  BY <1>1, NoCallType DEF Init, Idle
<1>3. TurnInv(NoCall)
  BY <1>2 DEF TurnInv, NamesInv, WalkInv, CompleteInv, ReachedInv, Kept
<1> QED BY <1>1, <1>2, <1>3 DEF SInv

\* Whose turn it is.
LEMMA TurnOf ==
    ASSUME SInv, NEW t \in Threads, Busy(t) \/ MayCall(t)
    PROVE  TurnInv(op[t]) /\ \A u \in Threads : u # t => Idle(u)
<1>1. PICK v \in Threads : /\ \A u \in Threads : u # v => Idle(u)
                           /\ TurnInv(op[v])
  BY DEF SInv
<1>2. CASE v = t
  BY <1>1, <1>2
<1>3. CASE v # t
  <2>1. MayCall(t)
    BY <1>1, <1>3, NoCallType DEF Busy, Idle
  <2> QED BY <1>1, <2>1 DEF MayCall, Idle
<1> QED BY <1>2, <1>3

\* A step of the thread whose turn it is.
LEMMA NextTurn ==
    ASSUME IInv, SInv, NEW t \in Threads, Busy(t) \/ MayCall(t),
           NEW o \in Calls, op' = [op EXCEPT ![t] = o], TurnInv(o)'
    PROVE  SInv'
<1>1. /\ op'[t] = o /\ \A u \in Threads : u # t => op'[u] = op[u]
  BY DEF IInv, TypeOK
<1>2. \A u \in Threads : u # t => op'[u] = NoCall
  BY <1>1, TurnOf DEF Idle
<1> QED BY <1>1, <1>2 DEF SInv, Idle

\* A step of a walk that leaves the records as they are.
LEMMA StillTurn ==
    ASSUME IInv, NEW t \in Threads, TurnInv(op[t]), NEW o \in Calls,
           UNCHANGED <<memory, catalogs, registered>>,
           o.kind = op[t].kind, o.then = op[t].then, o.catalog = op[t].catalog,
           DOMAIN registry' = DOMAIN registry,
           \A a \in DOMAIN registry : registry'[a] = registry[a],
           ~starved' => ~starved,
           o.making => ~exists',
           o.kind = "register" =>
              /\ Elements(o.roots) \subseteq Elements(op[t].roots)
              /\ Elements(o.work) \subseteq Pending(op[t])
              /\ ~starved' => Pending(op[t]) \subseteq Pending(o) \cup DOMAIN registry,
           o.kind = "unregister" => Pending(o) = Pending(op[t])
    PROVE  TurnInv(o)'
<1>1. /\ \A c : Owned(c)' = Owned(c)
      /\ Kept(o)' = Kept(op[t]) /\ Roots(o)' = Roots(op[t])
      /\ Anchors(o)' = Anchors(op[t])
      /\ \A a : Parents(a)' = Parents(a)
      /\ Pending(o)' = Pending(o)
  BY DEF Owned, Kept, Roots, Anchors, Parents, Pending
<1>2. NamesInv(o)'
  BY <1>1 DEF TurnInv, NamesInv
<1>3. WalkInv(o)'
  <2>1. o.kind = "register" =>
           \A a \in Elements(o.work) : a \in Roots(op[t]) \/ Parents(a) # {}
    BY DEF TurnInv, WalkInv, Pending
  <2> QED BY <1>1, <2>1 DEF TurnInv, WalkInv
<1>4. CompleteInv(o)'
  <2>1. o.then = "publish" => o.kind = "register"
    BY DEF IInv, CallInv
  <2> QED BY <1>1, <2>1 DEF TurnInv, CompleteInv
<1>5. ReachedInv(o)'
  BY <1>1 DEF TurnInv, ReachedInv
<1> QED BY <1>2, <1>3, <1>4, <1>5 DEF TurnInv

\* The steps of walks that only read the registry, or find that there is none.
LEMMA EnsureRegistryTurn ==
    ASSUME IInv, SInv, NEW t \in Threads, EnsureRegistry(t) PROVE SInv'
<1> DEFINE o == IF HasRegistry THEN StartRoot(op[t])
                               ELSE [op[t] EXCEPT !.making = TRUE]
<1>1. /\ op[t] \in Calls /\ op[t].kind = "register" /\ op[t].work = <<>>
      /\ op[t].roots # <<>> /\ Busy(t)
  BY CallType DEF EnsureRegistry, Busy
<1>2. /\ o \in Calls /\ o.kind = op[t].kind /\ o.then = op[t].then
      /\ o.catalog = op[t].catalog /\ Pending(o) = Pending(op[t])
      /\ Elements(o.roots) \subseteq Elements(op[t].roots)
      /\ Elements(o.work) \subseteq Pending(op[t])
      /\ o.making => ~exists
  <2>1. CASE HasRegistry
    BY <1>1, <2>1, StartRootType DEF HasRegistry, Pending
  <2>2. CASE ~HasRegistry
    BY <1>1, <2>2, NoElements DEF Calls, Pending, HasRegistry
  <2> QED BY <2>1, <2>2
<1>3. /\ op' = [op EXCEPT ![t] = o]
      /\ UNCHANGED <<memory, exists, registry, catalogs, registered, starved>>
  BY DEF EnsureRegistry
<1>4. TurnInv(op[t])
  BY <1>1, TurnOf
<1> HIDE DEF o
<1>5. PICK p \in Calls : p = o
  BY <1>2
<1>6. TurnInv(p)'
  BY <1>1, <1>2, <1>3, <1>4, <1>5, StillTurn
<1> QED BY <1>1, <1>3, <1>5, <1>6, NextTurn

LEMMA CreateRegistryTurn ==
    ASSUME IInv, SInv, NEW t \in Threads, CreateRegistry(t) PROVE SInv'
<1> DEFINE s == StartRoot(op[t])
           o == [s EXCEPT !.work = <<>>]
<1>1. /\ op[t] \in Calls /\ op[t].kind = "register" /\ op[t].work = <<>>
      /\ op[t].roots # <<>> /\ Busy(t)
      /\ UNCHANGED <<memory, catalogs, registered>>
  BY CallType DEF CreateRegistry, Busy, IInv, CallInv
<1>2. TurnInv(op[t])
  BY <1>1, TurnOf
<1>3. ~exists /\ DOMAIN registry = {}
  BY <1>2 DEF CreateRegistry, TurnInv, WalkInv, IInv, TypeOK
<1>4. /\ s \in Calls /\ s.kind = op[t].kind /\ s.then = op[t].then
      /\ s.catalog = op[t].catalog /\ s.making = FALSE
      /\ Pending(s) = Pending(op[t])
      /\ Elements(s.roots) \subseteq Elements(op[t].roots)
      /\ Elements(s.work) \subseteq Pending(op[t])
  BY <1>1, StartRootType DEF Pending
<1> HIDE DEF s
<1>5. /\ o \in Calls /\ o.kind = s.kind /\ o.then = s.then /\ o.roots = s.roots
      /\ o.catalog = s.catalog /\ o.making = FALSE
      /\ o.work = <<>> /\ Elements(o.work) = {}
  BY <1>4, StoppedType, NoElements
<1> HIDE DEF o
<1>6. CASE /\ exists' = TRUE /\ registry' = <<>> /\ starved' = starved
           /\ op' = [op EXCEPT ![t] = s]
  <2>1. DOMAIN registry' = {}
    BY <1>6
  <2>2. PICK p \in Calls : p = s
    BY <1>4
  <2>3. TurnInv(p)'
    BY <1>1, <1>2, <1>3, <1>4, <1>6, <2>1, <2>2, StillTurn
  <2> QED BY <1>1, <1>6, <2>2, <2>3, NextTurn
<1>7. CASE /\ starved' = TRUE /\ op' = [op EXCEPT ![t] = o]
           /\ UNCHANGED <<exists, registry>>
  <2>1. PICK p \in Calls : p = o
    BY <1>5
  <2>2. TurnInv(p)'
    BY <1>1, <1>2, <1>3, <1>4, <1>5, <1>7, <2>1, StillTurn
  <2> QED BY <1>1, <1>7, <2>1, <2>2, NextTurn
<1> QED BY <1>6, <1>7 DEF CreateRegistry, s, o

LEMMA RegisterAgainTurn ==
    ASSUME IInv, SInv, NEW t \in Threads, RegisterAgain(t) PROVE SInv'
<1> DEFINE o == Visited(op[t], <<>>)
<1>1. /\ op[t] \in Calls /\ op[t].kind = "register" /\ op[t].work # <<>>
      /\ Busy(t) /\ Head(op[t].work) \in DOMAIN registry
      /\ op[t].making = FALSE
  BY CallType DEF RegisterAgain, Busy, IInv, CallInv, Calls
<1>2. /\ o \in Calls /\ o.kind = op[t].kind /\ o.then = op[t].then
      /\ o.catalog = op[t].catalog /\ o.making = FALSE
      /\ Pending(op[t]) \subseteq Pending(o) \cup {Head(op[t].work)}
      /\ o.roots = op[t].roots /\ Elements(o.work) \subseteq Elements(op[t].work)
  <2>1. <<>> \in Seq(Addresses)
    OBVIOUS
  <2> QED BY <1>1, <2>1, VisitedType, NoElements
<1>3. /\ op' = [op EXCEPT ![t] = o]
      /\ UNCHANGED <<memory, exists, registry, catalogs, registered, starved>>
  BY DEF RegisterAgain
<1>4. TurnInv(op[t])
  BY <1>1, TurnOf
<1> HIDE DEF o
<1>5. PICK p \in Calls : p = o
  BY <1>2
<1>6. TurnInv(p)'
  BY <1>1, <1>2, <1>3, <1>4, <1>5, StillTurn DEF Pending
<1> QED BY <1>1, <1>3, <1>5, <1>6, NextTurn

LEMMA UnregisterRootTurn ==
    ASSUME IInv, SInv, NEW t \in Threads, UnregisterRoot(t) PROVE SInv'
<1> DEFINE o == StartRoot(op[t])
<1>1. /\ op[t] \in Calls /\ op[t].kind = "unregister" /\ op[t].work = <<>>
      /\ op[t].roots # <<>> /\ Busy(t)
  BY CallType DEF UnregisterRoot, Busy
<1>2. /\ o \in Calls /\ o.kind = op[t].kind /\ o.then = op[t].then
      /\ o.catalog = op[t].catalog /\ Pending(o) = Pending(op[t])
      /\ o.making = FALSE
  BY <1>1, StartRootType
<1>3. /\ op' = [op EXCEPT ![t] = o]
      /\ UNCHANGED <<memory, exists, registry, catalogs, registered, starved>>
  BY DEF UnregisterRoot
<1>4. TurnInv(op[t])
  BY <1>1, TurnOf
<1> HIDE DEF o
<1>5. PICK p \in Calls : p = o
  BY <1>2
<1>6. TurnInv(p)'
  BY <1>1, <1>2, <1>3, <1>4, <1>5, StillTurn
<1> QED BY <1>1, <1>3, <1>5, <1>6, NextTurn

\* A new record is that of a root, or of a descriptor whose parent has one.
LEMMA RegisterNewTurn ==
    ASSUME IInv, SInv, NEW t \in Threads, RegisterNew(t) PROVE SInv'
<1> DEFINE a == Head(op[t].work)
           d == memory[a]
<1>1. /\ op[t] \in Calls /\ op[t].kind = "register" /\ op[t].work # <<>>
      /\ Busy(t) /\ op[t].making = FALSE
      /\ UNCHANGED <<memory, exists, catalogs, registered>>
      /\ a \notin DOMAIN registry
  BY CallType DEF RegisterNew, Busy, IInv, CallInv, Calls
<1>2. TurnInv(op[t])
  BY <1>1, TurnOf
<1>3. d.nested \in Seq(Addresses) /\ a \in Elements(op[t].work)
  <2>1. <<>> \in Seq(Addresses)
    OBVIOUS
  <2>2. a \in Pending(op[t]) /\ a \in Elements(op[t].work)
    BY <1>1, <2>1, VisitedType
  <2> QED BY <1>1, <2>2, CallType, ScopeClosed
<1>4. a \in Roots(op[t]) \/ Parents(a) # {}
  BY <1>1, <1>2, <1>3 DEF TurnInv, WalkInv
<1> HIDE DEF a
<1>5. ASSUME NEW starving \in {FALSE, MayStarve},
             NEW r \in NewRecords(d, starving),
             registry' = With(a, r),
             op' = [op EXCEPT ![t] =
                       Visited(op[t], IF r.check = "OK" THEN d.nested ELSE <<>>)],
             starved' = (starved \/ starving)
      PROVE  SInv'
  <2> DEFINE nested == IF r.check = "OK" THEN d.nested ELSE <<>>
  <2>1. /\ nested \in Seq(Addresses)
        /\ \A x \in Elements(nested) : r.check = "OK" /\ x \in Elements(d.nested)
    BY <1>3, NoElements
  <2>2. op' = [op EXCEPT ![t] = Visited(op[t], nested)]
    BY <1>5
  <2> HIDE DEF nested
  <2> DEFINE v == Visited(op[t], nested)
  <2>12. /\ v \in Calls /\ v.kind = op[t].kind /\ v.then = op[t].then
         /\ v.catalog = op[t].catalog /\ v.making = FALSE
         /\ Pending(op[t]) \subseteq Pending(v) \cup {a}
         /\ v.roots = op[t].roots
         /\ Elements(v.work) \subseteq Elements(op[t].work) \cup Elements(nested)
    BY <1>1, <2>1, VisitedType DEF a
  <2> HIDE DEF v
  <2>3. PICK o \in Calls :
           /\ op' = [op EXCEPT ![t] = o]
           /\ o.kind = op[t].kind /\ o.then = op[t].then
           /\ o.catalog = op[t].catalog /\ o.making = FALSE
           /\ Pending(op[t]) \subseteq Pending(o) \cup {a}
           /\ o.roots = op[t].roots
           /\ Elements(o.work) \subseteq Elements(op[t].work) \cup Elements(nested)
    BY <2>2, <2>12 DEF v
  <2>4. /\ DOMAIN registry' = DOMAIN registry \cup {a} /\ registry'[a] = r
        /\ \A x \in DOMAIN registry : registry'[x] = registry[x]
    BY <1>1, <1>5 DEF With
  <2>5. /\ \A c : Owned(c)' = Owned(c)
        /\ Kept(o)' = Kept(op[t]) /\ Roots(o)' = Roots(op[t])
        /\ Roots(op[t]) \subseteq Anchors(op[t])
        /\ Anchors(o)' = Roots(op[t]) /\ Anchors(op[t]) = Roots(op[t])
        /\ Pending(o)' = Pending(o)
    BY <1>1, <2>3 DEF Owned, Kept, Roots, Anchors, Pending
  <2>6. \A x : /\ Parents(x) \subseteq Parents(x)'
               /\ x \in Elements(nested) => a \in Parents(x)'
    BY <1>1, <2>1, <2>4 DEF Parents
  <2>7. NamesInv(o)'
    BY <1>1, <1>2, <2>5 DEF TurnInv, NamesInv
  <2>8. WalkInv(o)'
    <3>1. WalkInv(op[t])
      BY <1>2 DEF TurnInv
    <3>2. ASSUME NEW x \in Elements(o.work)
          PROVE  x \in Roots(op[t]) \/ Parents(x)' # {}
      <4>1. CASE x \in Elements(nested)
        BY <4>1, <2>6
      <4>2. CASE x \in Elements(op[t].work)
        BY <4>2, <3>1, <1>1, <2>6 DEF WalkInv
      <4> QED BY <4>1, <4>2, <2>3
    <3> QED BY <3>1, <3>2, <1>1, <2>3, <2>5 DEF WalkInv
  <2>9. CompleteInv(o)'
    <3>1. starving \in BOOLEAN /\ starved \in BOOLEAN
      BY RegistryAssumption DEF RegistryAssumption, IInv, TypeOK
    <3> QED BY <1>1, <1>2, <1>5, <2>3, <2>4, <2>5, <3>1 DEF TurnInv, CompleteInv
  <2>10. ReachedInv(o)'
    <3> SUFFICES ASSUME NEW S \in SUBSET (DOMAIN registry \cup {a}), S # {},
                        S \cap Roots(op[t]) = {}
                 PROVE  \E x \in S : \E p \in Parents(x)' : p \notin S
      BY <2>4, <2>5 DEF ReachedInv
    <3> DEFINE Old == S \ {a}
    <3>1. Old # {} => \E x \in Old : \E p \in Parents(x) : p \notin Old
      <4>1. Old \in SUBSET DOMAIN registry /\ Old \cap Anchors(op[t]) = {}
        BY <2>5
      <4> HIDE DEF Old
      <4> QED BY <4>1, <1>2 DEF TurnInv, ReachedInv
    <3>2. \A x : \A p \in Parents(x) : p # a
      BY <1>1 DEF Parents
    <3>3. CASE Old # {}
      BY <3>1, <3>2, <3>3, <2>6
    <3>4. CASE Old = {}
      <4>1. S = {a}
        BY <3>4
      <4>2. PICK p : p \in Parents(a)
        BY <4>1, <1>4
      <4> QED BY <4>1, <4>2, <3>2, <2>6
    <3> QED BY <3>3, <3>4
  <2>11. TurnInv(o)'
    BY <2>7, <2>8, <2>9, <2>10 DEF TurnInv
  <2> QED BY <1>1, <2>3, <2>11, NextTurn
<1>6. CASE /\ starved' = TRUE /\ registry' = registry
           /\ op' = [op EXCEPT ![t].work = <<>>]
  <2> DEFINE p == [op[t] EXCEPT !.work = <<>>]
  <2>1. PICK o \in Calls :
           /\ o = p /\ o.kind = op[t].kind /\ o.then = op[t].then
           /\ o.catalog = op[t].catalog /\ o.making = FALSE
           /\ o.roots = op[t].roots /\ Elements(o.work) = {}
    BY <1>1, StoppedType, NoElements
  <2>2. op' = [op EXCEPT ![t] = o]
    BY <1>6, <2>1
  <2>3. TurnInv(o)'
    BY <1>1, <1>2, <1>6, <2>1, StillTurn
  <2> QED BY <1>1, <2>2, <2>3, NextTurn
<1> QED BY <1>5, <1>6 DEF RegisterNew, a

\* A record is removed together with the duty to visit what is nested in it.
LEMMA UnregisterTurn ==
    ASSUME IInv, SInv, NEW t \in Threads, Unregister(t) PROVE SInv'
<1> DEFINE a == Head(op[t].work)
           nested == IF a \in DOMAIN registry THEN Followed(a) ELSE <<>>
<1>1. /\ op[t] \in Calls /\ op[t].kind = "unregister" /\ op[t].work # <<>>
      /\ Busy(t) /\ op[t].making = FALSE
      /\ UNCHANGED <<memory, exists, catalogs, registered, starved>>
      /\ MemoryInv /\ CatalogInv /\ RecordInv /\ TypeOK
  BY CallType DEF Unregister, Busy, IInv, CallInv, Calls
<1>2. TurnInv(op[t])
  BY <1>1, TurnOf
<1>3. /\ nested \in Seq(Addresses)
      /\ a \in DOMAIN registry /\ registry[a].check = "OK" =>
            Elements(memory[a].nested) \subseteq Elements(nested)
      /\ \A x \in Elements(nested) : /\ a \in DOMAIN memory
                                     /\ x \in Elements(memory[a].nested)
  <2>1. a \in DOMAIN registry => /\ memory[a].nested \in Seq(Addresses)
                                 /\ a \in DOMAIN memory
    BY <1>1 DEF RecordInv, TypeOK, DescriptorOf
  <2> QED BY <2>1, NoElements DEF Followed
<1>4. op' = [op EXCEPT ![t] = Visited(op[t], nested)]
  BY DEF Unregister
<1>5. /\ DOMAIN registry' = DOMAIN registry \ {a}
      /\ \A x \in DOMAIN registry' : registry'[x] = registry[x]
  BY DEF Unregister, Without
<1> HIDE DEF nested
<1> DEFINE v == Visited(op[t], nested)
<1>15. /\ v \in Calls /\ v.kind = op[t].kind /\ v.then = op[t].then
       /\ v.catalog = op[t].catalog /\ v.making = FALSE
       /\ Pending(op[t]) \subseteq Pending(v) \cup {a}
       /\ Pending(v) \subseteq Pending(op[t]) \cup Elements(nested)
       /\ Elements(nested) \subseteq Pending(v)
  BY <1>1, <1>3, VisitedType
<1> HIDE DEF v
<1>6. PICK o \in Calls :
         /\ op' = [op EXCEPT ![t] = o]
         /\ o.kind = op[t].kind /\ o.then = op[t].then
         /\ o.catalog = op[t].catalog /\ o.making = FALSE
         /\ Pending(op[t]) \subseteq Pending(o) \cup {a}
         /\ Pending(o) \subseteq Pending(op[t]) \cup Elements(nested)
         /\ Elements(nested) \subseteq Pending(o)
  BY <1>4, <1>15 DEF v
<1>7. a \in Pending(op[t])
  BY <1>1, <1>3, VisitedType
<1> HIDE DEF a
<1>8. /\ \A c : Owned(c)' = Owned(c)
      /\ Kept(o)' = Kept(op[t]) /\ Roots(o)' = Roots(op[t])
      /\ Anchors(op[t]) \subseteq Anchors(o)' \cup {a}
      /\ Elements(nested) \subseteq Anchors(o)'
      /\ Pending(o)' = Pending(o)
  BY <1>1, <1>6 DEF Owned, Kept, Roots, Anchors, Pending
<1>9. NamesInv(o)'
  BY <1>1, <1>2, <1>8 DEF TurnInv, NamesInv
<1>10. ASSUME NEW c \in Kept(op[t]), catalogs[c].arena
       PROVE  a \notin Owned(c) /\ Pending(o) \cap Owned(c) = {}
  <2>1. Pending(op[t]) \cap Owned(c) = {}
    BY <1>1, <1>2, <1>10 DEF TurnInv, WalkInv
  <2>2. c \in ArenaCatalogs
    BY <1>10 DEF Kept, ArenaCatalogs
  <2>3. ASSUME NEW x \in Elements(nested) PROVE x \notin Owned(c)
    <3>1. \/ x \in Static
          \/ \E e \in ArenaCatalogs : a \in Owned(e) /\ x \in Owned(e)
      BY <1>1, <1>3 DEF MemoryInv
    <3> QED BY <3>1, <2>1, <2>2, <1>1, <1>7 DEF CatalogInv, ArenaCatalogs
  <2> QED BY <2>1, <2>3, <1>6, <1>7
<1>11. WalkInv(o)'
  BY <1>1, <1>2, <1>6, <1>8, <1>10 DEF TurnInv, WalkInv
<1>12. CompleteInv(o)'
  <2>1. op[t].then # "publish"
    BY <1>1 DEF IInv, CallInv
  <2> QED BY <1>1, <1>2, <1>5, <1>6, <1>8, <1>10, <2>1 DEF TurnInv, CompleteInv
<1>13. ReachedInv(o)'
  <2> SUFFICES ASSUME NEW S \in SUBSET (DOMAIN registry \ {a}), S # {},
                      S \cap Anchors(o)' = {}
               PROVE  \E x \in S : \E p \in Parents(x)' : p \notin S
    BY <1>5 DEF ReachedInv
  <2>1. PICK x \in S : \E p \in Parents(x) : p \notin S
    BY <1>2, <1>8 DEF TurnInv, ReachedInv
  <2>2. PICK p \in Parents(x) : p \notin S
    BY <2>1
  <2>3. p # a
    BY <2>1, <2>2, <1>3, <1>8 DEF Parents
  <2>4. p \in Parents(x)'
    BY <2>2, <2>3, <1>1, <1>5 DEF Parents
  <2> QED BY <2>2, <2>4
<1>14. TurnInv(o)'
  BY <1>9, <1>11, <1>12, <1>13 DEF TurnInv
<1> QED BY <1>1, <1>6, <1>14, NextTurn

\* A step between two walks.  What was reachable stays so; of a catalogue that
\* is new the caller says what has to be said.
LEMMA OtherTurn ==
    ASSUME NEW p \in Calls, NEW o \in Calls, TypeOK, CatalogInv, TurnInv(p),
           UNCHANGED <<registry, starved>>,
           Pending(p) = {} \/ p.then # "publish",
           \A a \in DOMAIN registry \cup Static : memory'[a] = memory[a],
           \A c \in Kept(o)' :
              \/ /\ c \in Kept(p)
                 /\ catalogs'[c].descriptors = catalogs[c].descriptors
                 /\ catalogs'[c].arena = catalogs[c].arena
                 /\ \A a \in Owned(c) : memory'[a] = memory[a]
              \/ /\ \A i, j \in 1..Len(catalogs'[c].descriptors) :
                       memory'[catalogs'[c].descriptors[i]].name
                          = memory'[catalogs'[c].descriptors[j]].name => i = j
                 /\ catalogs'[c].arena =>
                       /\ o.then = "publish" /\ o.catalog = c
                       /\ Owned(c)' \subseteq Pending(o),
           DOMAIN registry \cap Anchors(p) \subseteq Anchors(o)',
           WalkInv(o)'
    PROVE  TurnInv(o)'
<1>1. \A a : Parents(a)' = Parents(a)
  BY DEF Parents
<1>2. NamesInv(o)'
  <2>1. \A a \in Static : memory'[a] = StaticContent[a]
    BY DEF TurnInv, NamesInv
  <2>2. ASSUME NEW c \in Kept(o)', NEW i \in 1..Len(catalogs'[c].descriptors),
               NEW j \in 1..Len(catalogs'[c].descriptors),
               memory'[catalogs'[c].descriptors[i]].name
                  = memory'[catalogs'[c].descriptors[j]].name
        PROVE  i = j
    <3>1. CASE /\ c \in Kept(p)
               /\ catalogs'[c].descriptors = catalogs[c].descriptors
               /\ \A a \in Owned(c) : memory'[a] = memory[a]
      <4>1. /\ catalogs[c].descriptors[i] \in Owned(c)
            /\ catalogs[c].descriptors[j] \in Owned(c)
        BY <3>1, <2>2 DEF Owned, Elements
      <4> QED BY <3>1, <4>1, <2>2 DEF TurnInv, NamesInv
    <3> QED BY <3>1, <2>2
  <2> QED BY <2>1, <2>2 DEF NamesInv
<1>3. CompleteInv(o)'
  <2> SUFFICES ASSUME ~starved', NEW c \in Kept(o)', catalogs'[c].arena,
                      NEW a \in Owned(c)'
               PROVE  \/ a \in DOMAIN registry'
                      \/ o.then = "publish" /\ o.catalog = c /\ a \in Pending(o)
    BY DEF CompleteInv, Pending
  <2>1. CASE /\ c \in Kept(p)
             /\ catalogs'[c].descriptors = catalogs[c].descriptors
             /\ catalogs'[c].arena = catalogs[c].arena
    <3>1. a \in Owned(c)
      BY <2>1 DEF Owned
    <3>2. \/ a \in DOMAIN registry
          \/ p.then = "publish" /\ p.catalog = c /\ a \in Pending(p)
      BY <2>1, <3>1 DEF TurnInv, CompleteInv
    <3> QED BY <3>2
  <2> QED BY <2>1
<1>4. ReachedInv(o)'
  <2> SUFFICES ASSUME NEW S \in SUBSET DOMAIN registry, S # {},
                      S \cap Anchors(o)' = {}
               PROVE  \E a \in S : \E q \in Parents(a) : q \notin S
    BY <1>1 DEF ReachedInv
  <2>1. S \cap Anchors(p) = {}
    OBVIOUS
  <2> QED BY <2>1 DEF TurnInv, ReachedInv
<1> QED BY <1>2, <1>3, <1>4 DEF TurnInv

LEMMA NoCallTurn == /\ Kept(NoCall) = DOMAIN catalogs
                    /\ Anchors(NoCall) = Roots(NoCall)
                    /\ WalkInv(NoCall)
BY NoCallType DEF Kept, Anchors, WalkInv

\* A call ends, or a scope begins or ends: no call is in progress afterwards.
LEMMA StillTurnNoCall ==
    ASSUME IInv, NEW t \in Threads, TurnInv(op[t]), Pending(op[t]) = {},
           UNCHANGED <<registry, registered, starved>>,
           \A a \in DOMAIN registry \cup Static : memory'[a] = memory[a],
           DOMAIN catalogs' = Kept(op[t]),
           \A c \in Kept(op[t]) :
              /\ catalogs'[c].descriptors = catalogs[c].descriptors
              /\ catalogs'[c].arena = catalogs[c].arena
              /\ \A a \in Owned(c) : memory'[a] = memory[a]
    PROVE  TurnInv(NoCall)'
<1>1. /\ TypeOK /\ CatalogInv /\ op[t] \in Calls /\ NoCall \in Calls
  BY NoCallType DEF IInv, TypeOK
<1>2. PICK p \in Calls : p = op[t]
  BY <1>1
<1>3. PICK o \in Calls : o = NoCall
  BY <1>1
<1>4. Kept(o)' = Kept(p) /\ WalkInv(o)'
  BY <1>2, <1>3, NoCallType DEF Kept, WalkInv
<1>5. \A c \in Kept(p) : Owned(c)' = Owned(c)
  BY <1>2 DEF Owned
<1>6. Anchors(p) \subseteq Anchors(o)'
  BY <1>2, <1>4, <1>5 DEF Anchors, Roots
<1>7. TurnInv(o)'
  BY <1>1, <1>2, <1>4, <1>6, OtherTurn
<1> QED BY <1>3, <1>7

\* The call of a thread that has finished has nothing to visit.
LEMMA FinishedTurn ==
    ASSUME IInv, SInv, NEW t \in Threads, NEW then, Finished(t, then)
    PROVE  /\ Busy(t) /\ TurnInv(op[t]) /\ Pending(op[t]) = {}
           /\ op[t].then = then
           /\ op' = [op EXCEPT ![t] = NoCall] /\ NoCall \in Calls
BY TurnOf, NoElements, NoCallType DEF Finished, Busy, Pending

LEMMA ReturnTurn ==
    ASSUME IInv, SInv, NEW t \in Threads, Return(t) PROVE SInv'
<1>1. /\ Busy(t) /\ TurnInv(op[t]) /\ Pending(op[t]) = {}
      /\ op[t].then = "return"
      /\ op' = [op EXCEPT ![t] = NoCall] /\ NoCall \in Calls
      /\ UNCHANGED <<memory, exists, registry, catalogs, registered, starved>>
  BY FinishedTurn DEF Return
<1>2. DOMAIN catalogs = Kept(op[t])
  BY <1>1 DEF Kept
<1>3. TurnInv(NoCall)'
  BY <1>1, <1>2, StillTurnNoCall
<1>4. PICK o \in Calls : o = NoCall
  BY <1>1
<1> QED BY <1>1, <1>3, <1>4, NextTurn

LEMMA PublishTurn ==
    ASSUME IInv, SInv, NEW t \in Threads, Publish(t) PROVE SInv'
<1>1. /\ Busy(t) /\ TurnInv(op[t]) /\ Pending(op[t]) = {}
      /\ op[t].then = "publish"
      /\ op' = [op EXCEPT ![t] = NoCall] /\ NoCall \in Calls
      /\ UNCHANGED <<memory, exists, registry, registered, starved>>
  BY FinishedTurn DEF Publish
<1>2. /\ DOMAIN catalogs' = Kept(op[t]) /\ Kept(op[t]) = DOMAIN catalogs
      /\ \A c \in DOMAIN catalogs :
            /\ catalogs'[c].descriptors = catalogs[c].descriptors
            /\ catalogs'[c].arena = catalogs[c].arena
  BY <1>1 DEF Publish, Kept, IInv, TypeOK
<1>3. TurnInv(NoCall)'
  BY <1>1, <1>2, StillTurnNoCall
<1>4. PICK o \in Calls : o = NoCall
  BY <1>1
<1> QED BY <1>1, <1>3, <1>4, NextTurn

LEMMA ReleaseTurn ==
    ASSUME IInv, SInv, NEW t \in Threads, Release(t) PROVE SInv'
<1> DEFINE c == op[t].catalog
           freed == IF catalogs[c].arena THEN Owned(c) ELSE {}
<1>1. /\ Busy(t) /\ TurnInv(op[t]) /\ Pending(op[t]) = {}
      /\ op[t].then = "release"
      /\ op' = [op EXCEPT ![t] = NoCall] /\ NoCall \in Calls
      /\ UNCHANGED <<exists, registry, registered, starved>>
      /\ TypeOK /\ CatalogInv /\ CallInv(t) /\ RecordInv
  BY FinishedTurn DEF Release, IInv
<1>2. /\ Kept(op[t]) = DOMAIN catalogs \ {c}
      /\ DOMAIN catalogs' = Kept(op[t])
      /\ \A e \in DOMAIN catalogs' : catalogs'[e] = catalogs[e]
      /\ \A a \in DOMAIN memory \ freed : memory'[a] = memory[a]
  BY <1>1 DEF Release, Owned, Kept
<1>3. /\ c \in DOMAIN catalogs /\ DOMAIN registry \cap freed = {}
      /\ Static \cap freed = {}
  BY <1>1 DEF CallInv, CatalogInv
<1>4. \A a \in DOMAIN registry \cup Static : memory'[a] = memory[a]
  BY <1>1, <1>2, <1>3 DEF RecordInv, TypeOK
<1>5. ASSUME NEW e \in Kept(op[t]), NEW a \in Owned(e)
      PROVE  memory'[a] = memory[a]
  <2>1. e \in DOMAIN catalogs /\ e # c
    BY <1>2, <1>5
  <2>2. a \in DOMAIN memory /\ a \notin freed
    BY <2>1, <1>1, <1>3, <1>5 DEF CatalogInv, ArenaCatalogs, TypeOK
  <2> QED BY <2>2, <1>2
<1>6. TurnInv(NoCall)'
  BY <1>1, <1>2, <1>4, <1>5, StillTurnNoCall
<1>7. PICK o \in Calls : o = NoCall
  BY <1>1
<1> QED BY <1>1, <1>6, <1>7, NextTurn

\* A user enters or leaves a scope.
LEMMA ScopeTurn ==
    ASSUME IInv, SInv, NEW t \in Threads, MayCall(t),
           UNCHANGED <<exists, registry, catalogs, registered, op, starved>>,
           \A a \in DOMAIN registry \cup Static : memory'[a] = memory[a],
           \A c \in DOMAIN catalogs : \A a \in Owned(c) : memory'[a] = memory[a]
    PROVE  SInv'
<1>1. /\ op[t] = NoCall /\ TurnInv(op[t]) /\ TypeOK
  BY AllIdle, TurnOf DEF IInv
<1>2. TurnInv(NoCall)'
  BY <1>1, NoCallType, NoCallTurn, StillTurnNoCall
<1>3. PICK o \in Calls : o = NoCall
  BY NoCallType
<1>4. op' = [op EXCEPT ![t] = o]
  BY <1>1, <1>3 DEF TypeOK
<1> QED BY <1>2, <1>3, <1>4, NextTurn

LEMMA EnterScopeTurn ==
    ASSUME IInv, SInv, NEW t \in Threads, NEW a, NEW d \in Locals,
           EnterScope(t, a, d)
    PROVE  SInv'
<1>1. \A x \in DOMAIN memory : memory'[x] = memory[x]
  BY DEF EnterScope
<1>2. \A x \in DOMAIN registry \cup Static : x \in DOMAIN memory
  BY DEF IInv, RecordInv, TypeOK
<1>3. \A c \in DOMAIN catalogs : Owned(c) \subseteq DOMAIN memory
  BY DEF IInv, CatalogInv, TypeOK
<1> QED BY <1>1, <1>2, <1>3, ScopeTurn DEF EnterScope

LEMMA LeaveScopeTurn ==
    ASSUME IInv, SInv, NEW t \in Threads, NEW a, LeaveScope(t, a)
    PROVE  SInv'
<1>1. /\ MayCall(t) /\ a \in Dynamic /\ a \notin registered
      /\ \A x \in DOMAIN memory \ {a} : memory'[x] = memory[x]
      /\ UNCHANGED <<exists, registry, catalogs, registered, op, starved>>
  BY DEF LeaveScope
<1>2. /\ a \notin Static /\ \A c \in ArenaCatalogs : a \notin Owned(c)
  BY RegistryAssumption
     DEF RegistryAssumption, LeaveScope, InArena, ArenaCatalogs, Owned
<1>3. a \notin DOMAIN registry
  BY <1>1, <1>2, AllIdle
<1>4. \A x \in DOMAIN registry \cup Static : x \in DOMAIN memory \ {a}
  BY <1>2, <1>3 DEF IInv, RecordInv, TypeOK
<1>5. \A c \in DOMAIN catalogs : Owned(c) \subseteq DOMAIN memory \ {a}
  BY <1>2 DEF IInv, CatalogInv, TypeOK, ArenaCatalogs
<1> QED BY <1>1, <1>4, <1>5, ScopeTurn

\* A call begins.
LEMMA BeginTurn ==
    ASSUME IInv, SInv, NEW t \in Threads, MayCall(t),
           NEW o \in Calls, op' = [op EXCEPT ![t] = o],
           UNCHANGED <<registry, starved>>,
           \A a \in DOMAIN memory : memory'[a] = memory[a],
           \A c \in Kept(o)' :
              \/ /\ c \in DOMAIN catalogs
                 /\ catalogs'[c].descriptors = catalogs[c].descriptors
                 /\ catalogs'[c].arena = catalogs[c].arena
              \/ /\ \A i, j \in 1..Len(catalogs'[c].descriptors) :
                       memory'[catalogs'[c].descriptors[i]].name
                          = memory'[catalogs'[c].descriptors[j]].name => i = j
                 /\ catalogs'[c].arena =>
                       /\ o.then = "publish" /\ o.catalog = c
                       /\ Owned(c)' \subseteq Pending(o),
           Roots(NoCall) \subseteq Anchors(o)',
           WalkInv(o)'
    PROVE  SInv'
<1>1. /\ TypeOK /\ CatalogInv /\ op[t] = NoCall /\ NoCall \in Calls
      /\ TurnInv(op[t])
  BY AllIdle, TurnOf, NoCallType DEF IInv
<1>2. PICK p \in Calls : p = NoCall
  BY <1>1
<1>3. /\ \A a \in DOMAIN registry \cup Static : memory'[a] = memory[a]
      /\ \A c \in DOMAIN catalogs : \A a \in Owned(c) : memory'[a] = memory[a]
  BY <1>1 DEF IInv, RecordInv, TypeOK, CatalogInv
<1>4. /\ TurnInv(p) /\ Pending(p) = {} /\ Kept(p) = DOMAIN catalogs
      /\ Anchors(p) = Roots(NoCall)
  BY <1>1, <1>2, NoCallType, NoCallTurn
<1>5. TurnInv(o)'
  BY <1>1, <1>3, <1>4, OtherTurn
<1> QED BY <1>5, NextTurn

LEMMA IndexRegisterTurn ==
    ASSUME IInv, SInv, NEW t \in Threads, NEW a, struct_meta_index_register(t, a)
    PROVE  SInv'
<1>1. /\ MayCall(t) /\ a \in Addresses
      /\ registered' = registered \cup {a}
      /\ op' = [op EXCEPT ![t] = Call("register", <<a>>, "return", NoHandle)]
      /\ UNCHANGED <<memory, exists, registry, catalogs, starved>>
  BY DEF struct_meta_index_register, IInv, TypeOK
<1>2. <<a>> \in Seq(Addresses) /\ Elements(<<a>>) = {a}
  BY <1>1, OneRoot
<1>5. PICK o \in Calls :
         /\ op' = [op EXCEPT ![t] = o]
         /\ o.kind = "register" /\ o.then = "return" /\ o.making = FALSE
         /\ Elements(o.roots) = {a} /\ Elements(o.work) = {}
  <2>1. <<>> \in Seq(Addresses)
    OBVIOUS
  <2>2. Call("register", <<a>>, "return", NoHandle) \in Calls
    BY <1>1, <1>2, <2>1 DEF Call, Calls
  <2>3. PICK o \in Calls : o = Call("register", <<a>>, "return", NoHandle)
    BY <2>2
  <2>4. /\ o.kind = "register" /\ o.roots = <<a>> /\ o.making = FALSE
        /\ o.then = "return" /\ o.catalog = NoHandle /\ o.work = <<>>
    BY <2>3 DEF Call
  <2>5. Pending(o) = Elements(<<a>>) /\ Elements(o.work) = {}
    BY <2>4, NoElements DEF Pending
  <2> QED BY <1>1, <1>2, <2>3, <2>4, <2>5
<1>6. /\ \A c : Owned(c)' = Owned(c)
      /\ Kept(o)' = DOMAIN catalogs
      /\ Roots(o)' = Roots(NoCall) \cup {a}
      /\ Roots(NoCall) \subseteq Anchors(o)'
  BY <1>1, <1>5, NoCallType DEF Owned, Kept, Roots, Anchors
<1>7. WalkInv(o)'
  BY <1>5, <1>6 DEF WalkInv
<1> QED BY <1>1, <1>5, <1>6, <1>7, BeginTurn

LEMMA IndexUnregisterTurn ==
    ASSUME IInv, SInv, NEW t \in Threads, NEW a, struct_meta_index_unregister(t, a)
    PROVE  SInv'
<1>1. /\ MayCall(t) /\ a \in Addresses /\ a \notin InArena
      /\ registered' = registered \ {a}
      /\ op' = [op EXCEPT ![t] = Call("unregister", <<a>>, "return", NoHandle)]
      /\ UNCHANGED <<memory, exists, registry, catalogs, starved>>
  BY DEF struct_meta_index_unregister, IInv, TypeOK
<1>2. <<a>> \in Seq(Addresses) /\ Elements(<<a>>) = {a}
  BY <1>1, OneRoot
<1>5. PICK o \in Calls :
         /\ op' = [op EXCEPT ![t] = o]
         /\ o.kind = "unregister" /\ o.then = "return" /\ o.making = FALSE
         /\ Pending(o) = {a}
  <2>1. <<>> \in Seq(Addresses)
    OBVIOUS
  <2>2. Call("unregister", <<a>>, "return", NoHandle) \in Calls
    BY <1>1, <1>2, <2>1 DEF Call, Calls
  <2>3. PICK o \in Calls : o = Call("unregister", <<a>>, "return", NoHandle)
    BY <2>2
  <2>4. /\ o.kind = "unregister" /\ o.roots = <<a>> /\ o.making = FALSE
        /\ o.then = "return" /\ o.catalog = NoHandle /\ o.work = <<>>
    BY <2>3 DEF Call
  <2>5. Pending(o) = Elements(<<a>>) /\ Elements(o.work) = {}
    BY <2>4, NoElements DEF Pending
  <2> QED BY <1>1, <1>2, <2>3, <2>4, <2>5
<1>6. /\ \A c : Owned(c)' = Owned(c)
      /\ Kept(o)' = DOMAIN catalogs
      /\ Pending(o)' = {a}
      /\ Roots(NoCall) \subseteq Anchors(o)'
  BY <1>1, <1>5, NoCallType DEF Owned, Kept, Roots, Anchors, Pending
<1>7. \A c \in DOMAIN catalogs : catalogs[c].arena => a \notin Owned(c)
  BY <1>1 DEF InArena, Owned
<1>8. WalkInv(o)'
  BY <1>1, <1>5, <1>6, <1>7 DEF WalkInv
<1> QED BY <1>1, <1>5, <1>6, <1>8, BeginTurn

LEMMA AttachStaticTurn ==
    ASSUME IInv, SInv, NEW t \in Threads, NEW c \in Catalogs, AttachStatic(t, c)
    PROVE  SInv'
<1> DEFINE new == NewCatalog(StaticTable, FALSE)
<1>1. /\ MayCall(t) /\ c \notin DOMAIN catalogs
      /\ op' = [op EXCEPT ![t] = Call("register", StaticTable, "publish", c)]
      /\ DOMAIN catalogs' = DOMAIN catalogs \cup {c} /\ catalogs'[c] = new
      /\ \A e \in DOMAIN catalogs : catalogs'[e] = catalogs[e]
      /\ UNCHANGED <<memory, exists, registry, registered, starved>>
  BY DEF AttachStatic
<1>2. /\ StaticTable \in Seq(Addresses) /\ StaticTable \in Seq(Static)
      /\ Elements(StaticTable) \subseteq Static
  <2>1. StaticTable \in Seq(Static) /\ Static \subseteq Addresses
    BY RegistryAssumption DEF RegistryAssumption, Addresses
  <2>2. Elements(StaticTable) \subseteq Static
    BY <2>1, ElementsType
  <2> QED BY <2>1, <2>2, TypeFromElements
<1>4. PICK o \in Calls :
         /\ op' = [op EXCEPT ![t] = o]
         /\ o.kind = "register" /\ o.then = "publish" /\ o.making = FALSE
         /\ o.catalog = c
         /\ o.roots = StaticTable /\ Elements(o.work) = {}
  <2>1. <<>> \in Seq(Addresses)
    OBVIOUS
  <2>2. Call("register", StaticTable, "publish", c) \in Calls
    BY <1>1, <1>2, <2>1 DEF Call, Calls
  <2>3. PICK o \in Calls : o = Call("register", StaticTable, "publish", c)
    BY <2>2
  <2>4. /\ o.kind = "register" /\ o.roots = StaticTable /\ o.making = FALSE
        /\ o.then = "publish" /\ o.catalog = c /\ o.work = <<>>
    BY <2>3 DEF Call
  <2>5. Pending(o) = Elements(StaticTable) /\ Elements(o.work) = {}
    BY <2>4, NoElements DEF Pending
  <2> QED BY <1>1, <1>2, <2>3, <2>4, <2>5
<1>5. new.descriptors = StaticTable /\ new.arena = FALSE /\ new.open = FALSE
  BY DEF NewCatalog
<1> HIDE DEF new
<1>6. /\ \A e \in DOMAIN catalogs : Owned(e)' = Owned(e)
      /\ Owned(c)' = Elements(StaticTable)
      /\ Kept(o)' = DOMAIN catalogs \cup {c} /\ Kept(NoCall) = DOMAIN catalogs
      /\ Roots(NoCall) \subseteq Roots(o)' /\ Roots(o)' \subseteq Anchors(o)'
      /\ Elements(StaticTable) \subseteq Roots(o)'
  BY <1>1, <1>4, <1>5, NoCallType DEF Owned, Kept, Roots, Anchors
<1>7. WalkInv(o)'
  BY <1>1, <1>4, <1>5, <1>6 DEF WalkInv
<1>8. \A i, j \in 1..Len(StaticTable) :
         memory[StaticTable[i]].name = memory[StaticTable[j]].name => i = j
  <2>1. /\ op[t] = NoCall /\ TurnInv(op[t])
    BY <1>1, AllIdle, TurnOf
  <2>2. \A a \in Static : memory[a] = StaticContent[a]
    BY <2>1 DEF TurnInv, NamesInv
  <2>3. \A i \in 1..Len(StaticTable) : StaticTable[i] \in Static
    BY <1>2 DEF Elements
  <2> QED BY <2>2, <2>3, RegistryAssumption DEF RegistryAssumption
<1>9. /\ \A i, j \in 1..Len(catalogs'[c].descriptors) :
            memory'[catalogs'[c].descriptors[i]].name
               = memory'[catalogs'[c].descriptors[j]].name => i = j
      /\ catalogs'[c].arena = FALSE
  BY <1>1, <1>5, <1>8
<1>10. ASSUME NEW e \in Kept(o)'
       PROVE  \/ /\ e \in DOMAIN catalogs
                 /\ catalogs'[e].descriptors = catalogs[e].descriptors
                 /\ catalogs'[e].arena = catalogs[e].arena
              \/ /\ \A i, j \in 1..Len(catalogs'[e].descriptors) :
                       memory'[catalogs'[e].descriptors[i]].name
                          = memory'[catalogs'[e].descriptors[j]].name => i = j
                 /\ ~catalogs'[e].arena
  <2>1. CASE e = c
    BY <2>1, <1>9
  <2>2. CASE e # c
    BY <2>2, <1>1, <1>6, <1>10
  <2> QED BY <2>1, <2>2
<1>11. Roots(NoCall) \subseteq Anchors(o)'
  BY <1>6
<1>12. UNCHANGED <<registry, starved>> /\ \A a \in DOMAIN memory : memory'[a] = memory[a]
  BY <1>1
<1> QED BY <1>1, <1>4, <1>7, <1>10, <1>11, <1>12, BeginTurn

LEMMA DestroyTurn ==
    ASSUME IInv, SInv, NEW t \in Threads, NEW c \in DOMAIN catalogs,
           struct_meta_catalog_destroy(t, c)
    PROVE  SInv'
<1> DEFINE roots == catalogs[c].descriptors
<1>1. /\ TypeOK /\ CatalogInv
  BY DEF IInv
<1>2. /\ MayCall(t) /\ roots \in Seq(Addresses) /\ c \in Catalogs
      /\ op' = [op EXCEPT ![t] = Call("unregister", roots, "release", c)]
      /\ DOMAIN catalogs' = DOMAIN catalogs /\ catalogs'[c].open = FALSE
      /\ \A e \in DOMAIN catalogs :
            /\ catalogs'[e].descriptors = catalogs[e].descriptors
            /\ catalogs'[e].arena = catalogs[e].arena
      /\ UNCHANGED <<memory, exists, registry, registered, starved>>
  BY <1>1 DEF struct_meta_catalog_destroy, Destroyed, TypeOK
<1>3. Elements(roots) = Owned(c)
  BY DEF Owned
<1> HIDE DEF roots
<1>5. PICK o \in Calls :
         /\ op' = [op EXCEPT ![t] = o]
         /\ o.kind = "unregister" /\ o.then = "release" /\ o.making = FALSE
         /\ o.catalog = c /\ Pending(o) = Owned(c)
  <2>1. <<>> \in Seq(Addresses)
    OBVIOUS
  <2>2. Call("unregister", roots, "release", c) \in Calls
    BY <1>2, <1>3, <2>1 DEF Call, Calls
  <2>3. PICK o \in Calls : o = Call("unregister", roots, "release", c)
    BY <2>2
  <2>4. /\ o.kind = "unregister" /\ o.roots = roots /\ o.making = FALSE
        /\ o.then = "release" /\ o.catalog = c /\ o.work = <<>>
    BY <2>3 DEF Call
  <2>5. Pending(o) = Elements(roots) /\ Elements(o.work) = {}
    BY <2>4, NoElements DEF Pending
  <2> QED BY <1>2, <1>3, <2>3, <2>4, <2>5
<1>6. /\ \A e \in DOMAIN catalogs : Owned(e)' = Owned(e)
      /\ Kept(o)' = DOMAIN catalogs \ {c} /\ Kept(NoCall) = DOMAIN catalogs
      /\ Pending(o)' = Owned(c)
      /\ Roots(NoCall) \subseteq Anchors(o)'
  <2>1. /\ \A e \in DOMAIN catalogs : Owned(e)' = Owned(e)
        /\ Kept(o)' = DOMAIN catalogs \ {c} /\ Kept(NoCall) = DOMAIN catalogs
        /\ Pending(o)' = Owned(c)
    BY <1>2, <1>5, NoCallType DEF Owned, Kept, Pending
  <2> QED BY <2>1, <1>2, <1>5 DEF Roots, Anchors
<1>7. \A e \in DOMAIN catalogs \ {c} :
         catalogs[e].arena => Owned(c) \cap Owned(e) = {}
  BY <1>1 DEF CatalogInv, ArenaCatalogs
<1>8. WalkInv(o)'
  BY <1>2, <1>5, <1>6, <1>7 DEF WalkInv
<1> QED BY <1>2, <1>5, <1>6, <1>8, BeginTurn

\* The descriptors of a header that is not refused have a name each.
LEMMA PlacedNames ==
    ASSUME NEW h \in Headers, NEW place \in [1..Len(h) -> Dynamic],
           \A i, j \in 1..Len(h) : place[i] = place[j] => i = j,
           NEW i \in 1..Len(h)
    PROVE  Placed(h, place)[CHOOSE k \in 1..Len(h) : place[k] = place[i]].name
              = h[i].name
<1>1. (CHOOSE k \in 1..Len(h) : place[k] = place[i]) = i
  OBVIOUS
<1>2. h[i] \in DescriptorOf(1..Len(h))
  BY RegistryAssumption DEF RegistryAssumption
<1> DEFINE nested == [k \in 1..Len(h[i].nested) |-> place[h[i].nested[k]]]
<1>3. Placed(h, place)[i] = [h[i] EXCEPT !.nested = nested]
  BY DEF Placed
<1> HIDE DEF nested
<1>4. [h[i] EXCEPT !.nested = nested].name = h[i].name
  BY <1>2 DEF DescriptorOf
<1> QED BY <1>1, <1>3, <1>4

LEMMA CreateFromHeaderTurn ==
    ASSUME Serialized, IInv, SInv, NEW t \in Threads, NEW c \in Catalogs,
           NEW h \in Headers, NEW place \in [1..Len(h) -> Dynamic],
           \A i, j \in 1..Len(h) : place[i] = place[j] => i = j,
           CreateFromHeader(t, c, h, place)
    PROVE  SInv'
<1> DEFINE roots == [i \in 1..Len(h) |-> place[i]]
           new == NewCatalog(roots, TRUE)
<1>1. MayCall(t) /\ TypeOK /\ CatalogInv
  BY DEF CreateFromHeader, MayCreate, MayCall, IInv
<1>2. /\ roots \in Seq(Addresses) /\ Len(roots) = Len(h) /\ Len(h) \in Nat
      /\ \A i \in 1..Len(h) : roots[i] = place[i] /\ place[i] \in Elements(roots)
  <2>1. Len(h) \in Nat
    BY RegistryAssumption DEF RegistryAssumption
  <2>2. \A i \in 1..Len(h) : place[i] \in Dynamic
    OBVIOUS
  <2>3. roots \in [1..Len(h) -> Addresses]
    BY <2>2 DEF Addresses
  <2>4. roots \in Seq(Addresses) /\ Len(roots) = Len(h)
    BY <2>1, <2>3
  <2> QED BY <2>1, <2>2, <2>4 DEF Elements
<1>3. /\ c \notin DOMAIN catalogs
      /\ DOMAIN catalogs' = DOMAIN catalogs \cup {c} /\ catalogs'[c] = new
      /\ \A e \in DOMAIN catalogs : catalogs'[e] = catalogs[e]
      /\ UNCHANGED <<exists, registry, registered, starved>>
      /\ Elements(roots) \cap DOMAIN memory = {}
      /\ \A a \in DOMAIN memory : memory'[a] = memory[a]
      /\ \A a \in Elements(roots) : memory'[a]
            = Placed(h, place)[CHOOSE i \in 1..Len(h) : place[i] = a]
  BY DEF CreateFromHeader
<1>4. new.descriptors = roots /\ new.arena = TRUE /\ new.open = FALSE
  BY DEF NewCatalog
<1>5. PICK o \in Calls :
         /\ op' = [op EXCEPT ![t] = o]
         /\ o.making = FALSE /\ o.catalog = c
         /\ o.roots = roots /\ Elements(o.work) = {}
         /\ Pending(o) = Elements(roots)
         /\ \/ o.kind = "register" /\ o.then = "publish" /\ ~Ambiguous(h)
            \/ o.kind = "unregister" /\ o.then = "release"
  <2>1. PICK call :
           /\ op' = [op EXCEPT ![t] = call]
           /\ \/ call = Call("register", roots, "publish", c) /\ ~Ambiguous(h)
              \/ call = Call("unregister", roots, "release", c)
    BY DEF CreateFromHeader
  <2> HIDE DEF roots
  <2>2. <<>> \in Seq(Addresses)
    OBVIOUS
  <2>3. CASE call = Call("register", roots, "publish", c) /\ ~Ambiguous(h)
    <3>1. /\ call.kind = "register" /\ call.roots = roots /\ call.making = FALSE
          /\ call.then = "publish" /\ call.catalog = c /\ call.work = <<>>
      BY <2>3 DEF Call
    <3>2. call \in Calls
      BY <1>2, <2>2, <2>3 DEF Call, Calls
    <3>3. Pending(call) = Elements(roots) /\ Elements(call.work) = {}
      BY <3>1, NoElements DEF Pending
    <3> QED BY <2>1, <2>3, <3>1, <3>2, <3>3
  <2>4. CASE call = Call("unregister", roots, "release", c)
    <3>1. /\ call.kind = "unregister" /\ call.roots = roots /\ call.making = FALSE
          /\ call.then = "release" /\ call.catalog = c /\ call.work = <<>>
      BY <2>4 DEF Call
    <3>2. call \in Calls
      BY <1>2, <2>2, <2>4 DEF Call, Calls
    <3>3. Pending(call) = Elements(roots) /\ Elements(call.work) = {}
      BY <3>1, NoElements DEF Pending
    <3> QED BY <2>1, <3>1, <3>2, <3>3
  <2> QED BY <2>1, <2>3, <2>4
<1> HIDE DEF roots, new
<1>6. /\ \A e \in DOMAIN catalogs : Owned(e)' = Owned(e)
      /\ Owned(c)' = Elements(roots)
      /\ Kept(NoCall) = DOMAIN catalogs
      /\ DOMAIN catalogs \subseteq Kept(o)' /\ Kept(o)' \subseteq DOMAIN catalogs \cup {c}
      /\ o.then = "release" => Kept(o)' = DOMAIN catalogs
      /\ o.then = "publish" => c \in Kept(o)'
      /\ Pending(o)' = Pending(o)
  <2>1. /\ \A e \in DOMAIN catalogs : Owned(e)' = Owned(e)
        /\ Owned(c)' = Elements(roots)
    BY <1>3, <1>4 DEF Owned
  <2>2. Kept(NoCall) = DOMAIN catalogs
    BY NoCallTurn
  <2>3. Kept(o)' = DOMAIN catalogs' \ IF o.then = "release" THEN {o.catalog} ELSE {}
    BY DEF Kept
  <2>4. /\ DOMAIN catalogs' = DOMAIN catalogs \cup {c} /\ c \notin DOMAIN catalogs
        /\ o.catalog = c /\ o.then \in {"publish", "release"}
    BY <1>3, <1>5
  <2>5. Pending(o)' = Pending(o)
    BY DEF Pending
  <2> QED BY <2>1, <2>2, <2>3, <2>4, <2>5
<1>7. Roots(NoCall) \subseteq Roots(o)' /\ Roots(o)' \subseteq Anchors(o)'
  BY <1>3, <1>6 DEF Roots, Anchors
<1>8. \A e \in DOMAIN catalogs : Elements(roots) \cap Owned(e) = {}
  BY <1>1, <1>3 DEF CatalogInv, TypeOK
<1>9. WalkInv(o)'
  <2>1. CASE o.then = "publish"
    <3>1. Elements(o.roots) \subseteq Roots(o)'
      BY <2>1, <1>5, <1>6 DEF Roots
    <3> QED BY <2>1, <3>1, <1>3, <1>4, <1>5 DEF WalkInv
  <2>2. CASE o.then = "release"
    BY <2>2, <1>3, <1>4, <1>5, <1>6, <1>8 DEF WalkInv
  <2> QED BY <2>1, <2>2, <1>5
<1>10. ASSUME NEW e \in Kept(o)'
       PROVE  \/ /\ e \in DOMAIN catalogs
                 /\ catalogs'[e].descriptors = catalogs[e].descriptors
                 /\ catalogs'[e].arena = catalogs[e].arena
              \/ /\ \A i, j \in 1..Len(catalogs'[e].descriptors) :
                       memory'[catalogs'[e].descriptors[i]].name
                          = memory'[catalogs'[e].descriptors[j]].name => i = j
                 /\ o.then = "publish" /\ o.catalog = e
                 /\ Owned(e)' \subseteq Pending(o)
  <2>1. CASE e \in DOMAIN catalogs
    BY <2>1, <1>3
  <2>2. CASE e \notin DOMAIN catalogs
    <3>1. e = c /\ o.then = "publish" /\ ~Ambiguous(h)
      BY <2>2, <1>5, <1>6, <1>10
    <3>2. ASSUME NEW i \in 1..Len(h)
          PROVE  memory'[roots[i]].name = h[i].name
      <4>1. roots[i] = place[i] /\ place[i] \in Elements(roots)
        BY <1>2
      <4>2. memory'[place[i]]
               = Placed(h, place)[CHOOSE k \in 1..Len(h) : place[k] = place[i]]
        BY <1>3, <4>1
      <4> QED BY <4>1, <4>2, PlacedNames
    <3>3. \A i, j \in 1..Len(roots) :
             memory'[roots[i]].name = memory'[roots[j]].name => i = j
      BY <3>1, <3>2, <1>2 DEF Ambiguous
    <3> QED BY <3>1, <3>3, <1>3, <1>4, <1>5, <1>6
  <2> QED BY <2>1, <2>2
<1>11. Roots(NoCall) \subseteq Anchors(o)'
  BY <1>7
<1>12. UNCHANGED <<registry, starved>> /\ \A a \in DOMAIN memory : memory'[a] = memory[a]
  BY <1>3
<1> QED BY <1>1, <1>5, <1>9, <1>10, <1>11, <1>12, BeginTurn

LEMMA NextTurnInv ==
    ASSUME Serialized, IInv, SInv, [Next]_vars PROVE SInv'
<1>1. ASSUME NEW t \in Threads, UserCall(t) PROVE SInv'
  <2>1. ASSUME NEW c \in Catalogs, NEW h \in Headers,
               NEW place \in [1..Len(h) -> Dynamic],
               \A i, j \in 1..Len(h) : place[i] = place[j] => i = j,
               CreateFromHeader(t, c, h, place)
        PROVE  SInv'
    BY <2>1, CreateFromHeaderTurn
  <2>2. CASE \E a \in DOMAIN memory : \/ struct_meta_index_register(t, a)
                                      \/ struct_meta_index_unregister(t, a)
                                      \/ LeaveScope(t, a)
    BY <2>2, IndexRegisterTurn, IndexUnregisterTurn, LeaveScopeTurn
  <2>3. CASE \E a \in Dynamic, d \in Locals : EnterScope(t, a, d)
    BY <2>3, EnterScopeTurn
  <2>4. CASE \/ \E c \in Catalogs : AttachStatic(t, c)
             \/ \E c \in DOMAIN catalogs : struct_meta_catalog_destroy(t, c)
    BY <2>4, AttachStaticTurn, DestroyTurn
  <2> QED BY <1>1, <2>1, <2>2, <2>3, <2>4 DEF UserCall
<1>2. ASSUME NEW t \in Threads, Step(t) PROVE SInv'
  BY <1>2, EnsureRegistryTurn, CreateRegistryTurn, RegisterAgainTurn,
     RegisterNewTurn, UnregisterRootTurn, UnregisterTurn, ReturnTurn,
     PublishTurn, ReleaseTurn DEF Step
<1>3. CASE UNCHANGED vars
  <2>1. PICK t \in Threads : /\ \A u \in Threads : u # t => Idle(u)
                             /\ TurnInv(op[t])
    BY DEF SInv
  <2>2. PICK o : o = op[t]
    OBVIOUS
  <2>3. UNCHANGED <<memory, exists, registry, catalogs, registered, op, starved>>
    BY <1>3 DEF vars
  <2>4. /\ \A c : Owned(c)' = Owned(c)
        /\ Kept(o)' = Kept(o) /\ Roots(o)' = Roots(o) /\ Anchors(o)' = Anchors(o)
        /\ \A a : Parents(a)' = Parents(a)
        /\ Pending(o)' = Pending(o)
    BY <2>3 DEF Owned, Kept, Roots, Anchors, Parents, Pending
  <2>5. NamesInv(o)' /\ WalkInv(o)'
    BY <2>1, <2>2, <2>3, <2>4 DEF TurnInv, NamesInv, WalkInv
  <2>6. CompleteInv(o)' /\ ReachedInv(o)'
    BY <2>1, <2>2, <2>3, <2>4 DEF TurnInv, CompleteInv, ReachedInv
  <2>7. TurnInv(o)' /\ op'[t] = o /\ \A u \in Threads : u # t => Idle(u)'
    BY <2>1, <2>2, <2>3, <2>5, <2>6 DEF TurnInv, Idle
  <2> QED BY <2>7 DEF SInv
<1> QED BY <1>1, <1>2, <1>3 DEF Next

\* Every catalogue that was handed out finds each of its descriptors by name,
\* and those it has built itself are registered as long as no allocation has
\* failed, whatever users and other catalogues register and unregister: if
\* catalogues are created one at a time.
THEOREM CatalogCompleteHolds == ASSUME Serialized PROVE Spec => []CatalogComplete
<1>1. IInv /\ SInv => CatalogComplete
  <2> SUFFICES ASSUME IInv, SInv, NEW c \in DOMAIN catalogs, catalogs[c].open
               PROVE  /\ \A i \in 1..Len(catalogs[c].descriptors) :
                            Hits(c, memory[catalogs[c].descriptors[i]].name) = {i}
                      /\ ~starved /\ catalogs[c].arena =>
                            Elements(catalogs[c].descriptors) \subseteq DOMAIN registry
    BY DEF CatalogComplete
  <2>1. PICK t \in Threads : TurnInv(op[t])
    BY DEF SInv
  <2>2. /\ c \in Kept(op[t])
        /\ ~(op[t].then = "publish" /\ op[t].catalog = c)
    BY <2>1 DEF TurnInv, WalkInv, Kept
  <2>3. \A i \in 1..Len(catalogs[c].descriptors) :
           Hits(c, memory[catalogs[c].descriptors[i]].name) = {i}
    BY <2>1, <2>2 DEF TurnInv, NamesInv, Hits
  <2>4. ~starved /\ catalogs[c].arena => Owned(c) \subseteq DOMAIN registry
    BY <2>1, <2>2 DEF TurnInv, CompleteInv
  <2> QED BY <2>3, <2>4 DEF Owned
<1>2. IInv /\ SInv /\ [Next]_vars => SInv'
  BY NextTurnInv
<1> QED BY <1>1, <1>2, InitInv, InitTurn, NextInv, PTL DEF Spec

\* The registry is empty whenever all who registered have unregistered: no
\* nested descriptor is left behind, whatever shares it, and wherever an
\* allocation has failed, if catalogues are created one at a time.
THEOREM NothingLeftHolds == ASSUME Serialized PROVE Spec => []NothingLeft
<1>1. IInv /\ SInv => NothingLeft
  <2> SUFFICES ASSUME IInv, SInv, \A t \in Threads : Idle(t),
                      DOMAIN catalogs = {}, registered = {}
               PROVE  DOMAIN registry = {}
    BY DEF NothingLeft
  <2>1. PICK t \in Threads : TurnInv(op[t])
    BY DEF SInv
  <2>2. op[t] = NoCall
    BY DEF Idle
  <2>3. Anchors(NoCall) = {}
    BY NoCallTurn DEF Roots
  <2>4. \A a : Parents(a) \subseteq DOMAIN registry
    BY DEF Parents
  <2> QED BY <2>1, <2>2, <2>3, <2>4 DEF TurnInv, ReachedInv
<1>2. IInv /\ SInv /\ [Next]_vars => SInv'
  BY NextTurnInv
<1> QED BY <1>1, <1>2, InitInv, InitTurn, NextInv, PTL DEF Spec
=============================================================================
