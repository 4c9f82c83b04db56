------------------------------- MODULE Registry ------------------------------
(***************************************************************************)
(* The descriptor registry of struct-meta (index.c) and its clients: the   *)
(* catalogues that are built from a header at run time or attached to      *)
(* generated descriptors (catalog.c), and users who register descriptors   *)
(* of their own.  The registry is keyed by address and remembers for each  *)
(* descriptor the verdict of its validation and a table of its field       *)
(* names; addresses are freed and used again.                              *)
(*                                                                         *)
(* A registration walks the nested descriptors depth first.  Every visit   *)
(* is a step: callers have to serialise registrations, but creating a      *)
(* catalogue, which registers, is documented as thread-safe.               *)
(***************************************************************************)
EXTENDS Integers, Sequences, FiniteSets

CONSTANTS
    Threads,
    Serialized,     \* whether threads take turns to create catalogues, too
    MayStarve,      \* whether allocations may fail
    Static,         \* addresses of descriptors that are there for ever
    Dynamic,        \* addresses of memory that is allocated and freed
    Names,          \* names of fields and structures
    LongNames,      \* those of 64 bytes (with the NUL) and more
    StaticContent,  \* the descriptors at the static addresses
    StaticTable,    \* the static addresses, as a generated catalogue lists them
    Locals,         \* descriptors that a user builds
    Headers,        \* header files: sequences of descriptors, whose nested
                    \* ones are positions in the same header
    Catalogs        \* handles of catalogues

Addresses == Static \cup Dynamic

\* What the registry sees of a struct_meta_descriptor: its name, the names of
\* its fields, the nested descriptors in the order of the fields that have
\* them, and what validating it (with its nested ones) yields.
DescriptorOf(S) == [name : Names, names : Seq(Names), nested : Seq(S),
                    verdict : {"OK", "CORRUPT_DESCRIPTOR"}]

ASSUME RegistryAssumption ==
    /\ Threads # {}
    /\ Serialized \in BOOLEAN /\ MayStarve \in BOOLEAN
    /\ Static \cap Dynamic = {}
    /\ LongNames \subseteq Names
    /\ StaticContent \in [Static -> DescriptorOf(Static)]
    /\ StaticTable \in Seq(Static)
    \* The generator creates a catalogue from the header, too, so that it
    \* refuses what CreateFromHeader refuses.
    /\ \A i, j \in 1..Len(StaticTable) :
          StaticContent[StaticTable[i]].name = StaticContent[StaticTable[j]].name
             => i = j
    /\ Locals \subseteq DescriptorOf(Static)
    /\ \A h \in Headers : h \in Seq(DescriptorOf(1..Len(h)))

VARIABLES
    memory,     \* descriptors that exist, by address
    exists,     \* whether s_registry is not NULL
    registry,   \* s_registry: index records by address of the descriptor
    catalogs,   \* catalogues by handle
    registered, \* descriptors whose users have to unregister them
    op,         \* what each thread is doing
    starved     \* an allocation has failed

vars == <<memory, exists, registry, catalogs, registered, op, starved>>

Elements(s) == {s[i] : i \in 1..Len(s)}

-----------------------------------------------------------------------------
(* The operations in progress                                              *)

\* A call of register or unregister for each of the roots in turn; work are
\* the visits ahead in the current call; making: ensure_registry has found
\* no registry; then: what the caller does at the end, for which catalogue.
Call(kind, roots, then, catalog) ==
    [kind |-> kind, roots |-> roots, work |-> <<>>, making |-> FALSE,
     then |-> then, catalog |-> catalog]

NoHandle == "none"
NoCall == Call("none", <<>>, "return", NoHandle)

Idle(t) == op[t] = NoCall

\* The documented contract: one call at a time.
MayCall(t) == \A u \in Threads : Idle(u)

\* Creating catalogues is documented as thread-safe.
MayCreate(t) ==
    /\ Idle(t)
    /\ \A u \in Threads :
          \/ Idle(u)
          \/ /\ ~Serialized
             /\ op[u].then = "publish" /\ catalogs[op[u].catalog].arena

-----------------------------------------------------------------------------
(* Records                                                                 *)

NoTable == <<>>

\* A plausible bug: names that are too long are left out of the table.
Table_Partial(d) ==
    [n \in Elements(d.names) \ LongNames |->
        CHOOSE i \in 1..Len(d.names) : d.names[i] = n]

\* The table of field names; there is none if it could not hold them all.
build_field_names(d) ==
    IF \/ Elements(d.names) \cap LongNames # {}
       \/ \E i, j \in 1..Len(d.names) : i # j /\ d.names[i] = d.names[j]
    THEN NoTable
    ELSE [n \in Elements(d.names) |->
             CHOOSE i \in 1..Len(d.names) : d.names[i] = n]

Record(check, table) == [check |-> check, field_names |-> table]

\* The record of a new registration, with or without an allocation failing.
NewRecords(d, starving) ==
    IF d.verdict # "OK" /\ ~starving THEN {Record(d.verdict, NoTable)}
    ELSE IF d.verdict # "OK" THEN {Record("OUT_OF_MEMORY", NoTable)}
    ELSE IF ~starving THEN {Record("OK", build_field_names(d))}
    ELSE {Record("OUT_OF_MEMORY", NoTable), Record("OK", NoTable)}

\* A plausible bug: the nested descriptors are left alone.
Followed_None(a) == <<>>

\* The descriptors to which a walk goes on from a.
Followed(a) == IF registry[a].check = "OK" THEN memory[a].nested ELSE <<>>

Without(a) == [x \in DOMAIN registry \ {a} |-> registry[x]]

With(a, r) == [x \in DOMAIN registry \cup {a} |->
                  IF x = a THEN r ELSE registry[x]]

-----------------------------------------------------------------------------
(* struct_meta_index_register and struct_meta_index_unregister, step by    *)
(* step.                                                                   *)

\* The call for the next root; the result of the previous one is ignored.
StartRoot(o) == [o EXCEPT !.work = <<Head(o.roots)>>, !.roots = Tail(o.roots),
                          !.making = FALSE]

HasRegistry == exists

\* ensure_registry looks at s_registry.
EnsureRegistry(t) ==
    LET o == op[t]
    IN  /\ o.kind = "register" /\ o.work = <<>> /\ o.roots # <<>> /\ ~o.making
        /\ op' = [op EXCEPT ![t] = IF HasRegistry THEN StartRoot(o)
                                   ELSE [o EXCEPT !.making = TRUE]]
        /\ UNCHANGED <<memory, exists, registry, catalogs, registered, starved>>

\* ensure_registry creates the table and assigns it to s_registry.
CreateRegistry(t) ==
    LET o == op[t]
    IN  /\ o.making
        /\ \/ /\ exists' = TRUE
              /\ registry' = <<>>
              /\ op' = [op EXCEPT ![t] = StartRoot(o)]
              /\ UNCHANGED starved
           \/ /\ MayStarve
              /\ starved' = TRUE
              /\ op' = [op EXCEPT ![t] = [StartRoot(o) EXCEPT !.work = <<>>]]
              /\ UNCHANGED <<exists, registry>>
        /\ UNCHANGED <<memory, catalogs, registered>>

Visited(o, nested) == [o EXCEPT !.work = nested \o Tail(o.work)]

\* register_descriptor finds the record of an earlier registration.
RegisterAgain(t) ==
    LET o == op[t]
    IN  /\ o.kind = "register" /\ o.work # <<>>
        /\ Head(o.work) \in DOMAIN registry
        /\ op' = [op EXCEPT ![t] = Visited(o, <<>>)]
        /\ UNCHANGED <<memory, exists, registry, catalogs, registered, starved>>

\* register_descriptor validates, adds the record and goes on to the nested
\* descriptors of a valid one; if the record cannot be added, the whole call
\* ends, leaving the records that were added before.
RegisterNew(t) ==
    LET o == op[t]
        a == Head(o.work)
        d == memory[a]
    IN  /\ o.kind = "register" /\ o.work # <<>>
        /\ a \notin DOMAIN registry
        /\ \/ \E starving \in {FALSE, MayStarve} :
              \E r \in NewRecords(d, starving) :
                /\ registry' = With(a, r)
                /\ op' = [op EXCEPT ![t] =
                             Visited(o, IF r.check = "OK" THEN d.nested ELSE <<>>)]
                /\ starved' = (starved \/ starving)
           \/ /\ MayStarve
              /\ starved' = TRUE
              /\ op' = [op EXCEPT ![t].work = <<>>]
              /\ UNCHANGED registry
        /\ UNCHANGED <<memory, exists, catalogs, registered>>

\* struct_meta_index_unregister for the next root.
UnregisterRoot(t) ==
    LET o == op[t]
    IN  /\ o.kind = "unregister" /\ o.work = <<>> /\ o.roots # <<>>
        /\ op' = [op EXCEPT ![t] = StartRoot(o)]
        /\ UNCHANGED <<memory, exists, registry, catalogs, registered, starved>>

\* unregister_descriptor: without a record there is nothing to do; with one,
\* it is removed and the walk goes on to the nested descriptors.
Unregister(t) ==
    LET o == op[t]
        a == Head(o.work)
    IN  /\ o.kind = "unregister" /\ o.work # <<>>
        /\ IF a \in DOMAIN registry
             THEN /\ registry' = Without(a)
                  /\ op' = [op EXCEPT ![t] = Visited(o, Followed(a))]
             ELSE /\ op' = [op EXCEPT ![t] = Visited(o, <<>>)]
                  /\ UNCHANGED registry
        /\ UNCHANGED <<memory, exists, catalogs, registered, starved>>

Finished(t, then) ==
    /\ op[t].kind # "none" /\ op[t].work = <<>> /\ op[t].roots = <<>>
    /\ ~op[t].making
    /\ op[t].then = then
    /\ op' = [op EXCEPT ![t] = NoCall]

\* The call of a user returns.
Return(t) ==
    /\ Finished(t, "return")
    /\ UNCHANGED <<memory, exists, registry, catalogs, registered, starved>>

\* The new catalogue is handed out.
Publish(t) ==
    /\ Finished(t, "publish")
    /\ catalogs' = [catalogs EXCEPT ![op[t].catalog].open = TRUE]
    /\ UNCHANGED <<memory, exists, registry, registered, starved>>

\* The catalogue is given back, and its arena with it.
Release(t) ==
    LET c == op[t].catalog
        freed == IF catalogs[c].arena THEN Elements(catalogs[c].descriptors)
                                      ELSE {}
    IN  /\ Finished(t, "release")
        /\ catalogs' = [x \in DOMAIN catalogs \ {c} |-> catalogs[x]]
        /\ memory' = [a \in DOMAIN memory \ freed |-> memory[a]]
        /\ UNCHANGED <<exists, registry, registered, starved>>

-----------------------------------------------------------------------------
(* Users and their descriptors                                             *)

\* The descriptors that catalogues have built, and register, themselves.
InArena == UNION {Elements(catalogs[c].descriptors) :
                     c \in {x \in DOMAIN catalogs : catalogs[x].arena}}

struct_meta_index_register(t, a) ==
    /\ MayCall(t)
    /\ a \in DOMAIN memory \ InArena
    /\ op' = [op EXCEPT ![t] = Call("register", <<a>>, "return", NoHandle)]
    /\ registered' = registered \cup {a}
    /\ UNCHANGED <<memory, exists, registry, catalogs, starved>>

struct_meta_index_unregister(t, a) ==
    /\ MayCall(t)
    /\ a \in DOMAIN memory \ InArena
    /\ op' = [op EXCEPT ![t] = Call("unregister", <<a>>, "return", NoHandle)]
    /\ registered' = registered \ {a}
    /\ UNCHANGED <<memory, exists, registry, catalogs, starved>>

\* An automatic variable comes into being at an address of the stack ...
EnterScope(t, a, d) ==
    /\ MayCall(t)
    /\ a \in Dynamic \ DOMAIN memory
    /\ memory' = [x \in DOMAIN memory \cup {a} |-> IF x = a THEN d ELSE memory[x]]
    /\ UNCHANGED <<exists, registry, catalogs, registered, op, starved>>

\* ... and ends; index.h asks its user to unregister it before.
LeaveScope(t, a) ==
    /\ MayCall(t)
    /\ a \in (Dynamic \cap DOMAIN memory) \ InArena
    /\ a \notin registered
    /\ memory' = [x \in DOMAIN memory \ {a} |-> memory[x]]
    /\ UNCHANGED <<exists, registry, catalogs, registered, op, starved>>

-----------------------------------------------------------------------------
(* Catalogues                                                              *)

\* A plausible bug: a name that is there already is not refused.
Ambiguous_Never(h) == FALSE

\* create_index: DUPLICATE_KEY.
Ambiguous(h) ==
    \E i, j \in 1..Len(h) : i # j /\ h[i].name = h[j].name

NewCatalog(descriptors, arena) ==
    [descriptors |-> descriptors, arena |-> arena, open |-> FALSE]

\* The descriptors of h, with nested ones by address.
Placed(h, place) ==
    [i \in 1..Len(h) |->
        [h[i] EXCEPT !.nested = [k \in 1..Len(@) |-> place[@[k]]]]]

\* struct_meta_catalog_create_from_header_*, once the header is parsed: the
\* arena gets the descriptors, then they are indexed by name and registered.
\* If the index fails, struct_meta_catalog_destroy takes all back.
CreateFromHeader(t, c, h, place) ==
    LET descriptors == [i \in 1..Len(h) |-> place[i]]
    IN  /\ MayCreate(t)
        /\ c \in Catalogs \ DOMAIN catalogs
        /\ Elements(descriptors) \cap DOMAIN memory = {}
        /\ memory' = [a \in DOMAIN memory \cup Elements(descriptors) |->
              IF a \in DOMAIN memory THEN memory[a]
              ELSE Placed(h, place)[CHOOSE i \in 1..Len(h) : place[i] = a]]
        /\ catalogs' = [x \in DOMAIN catalogs \cup {c} |->
              IF x = c THEN NewCatalog(descriptors, TRUE) ELSE catalogs[x]]
        /\ op' = [op EXCEPT ![t] =
              IF Ambiguous(h) THEN Call("unregister", descriptors, "release", c)
                              ELSE Call("register", descriptors, "publish", c)]
        /\ UNCHANGED <<exists, registry, registered, starved>>

\* struct_meta_catalog_attach_static.
AttachStatic(t, c) ==
    /\ MayCall(t)
    /\ c \in Catalogs \ DOMAIN catalogs
    /\ catalogs' = [x \in DOMAIN catalogs \cup {c} |->
          IF x = c THEN NewCatalog(StaticTable, FALSE) ELSE catalogs[x]]
    /\ op' = [op EXCEPT ![t] = Call("register", StaticTable, "publish", c)]
    /\ UNCHANGED <<memory, exists, registry, registered, starved>>

\* A plausible bug: the first descriptor is not unregistered.
Destroyed_ButFirst(c) == Tail(catalogs[c].descriptors)

\* The descriptors that struct_meta_catalog_destroy unregisters.
Destroyed(c) == catalogs[c].descriptors

struct_meta_catalog_destroy(t, c) ==
    /\ MayCall(t)
    /\ catalogs[c].open
    /\ catalogs' = [catalogs EXCEPT ![c].open = FALSE]
    /\ op' = [op EXCEPT ![t] = Call("unregister", Destroyed(c), "release", c)]
    /\ UNCHANGED <<memory, exists, registry, registered, starved>>

-----------------------------------------------------------------------------
(* Searches, which change nothing                                          *)

NotFound == 0

\* struct_meta_descriptor_validate: what the registry remembers, or else the
\* validation itself.
validate(a) ==
    IF a \in DOMAIN registry THEN registry[a].check ELSE memory[a].verdict

\* The search in a descriptor that has no table: the first of that name.
LinearSearch(d, n) ==
    IF n \in Elements(d.names)
    THEN CHOOSE i \in 1..Len(d.names) :
            d.names[i] = n /\ \A j \in 1..(i - 1) : d.names[j] # n
    ELSE NotFound

\* struct_meta_descriptor_find_field and find_field_segment: the table of a
\* registered descriptor, or else the linear search.
find_field(a, n) ==
    IF a \in DOMAIN registry /\ registry[a].field_names # NoTable
    THEN IF n \in DOMAIN registry[a].field_names \ LongNames
         THEN registry[a].field_names[n]
         ELSE NotFound
    ELSE LinearSearch(memory[a], n)

\* struct_meta_catalog_find: the index of the catalogue by name.
Hits(c, n) == {i \in 1..Len(catalogs[c].descriptors) :
                  memory[catalogs[c].descriptors[i]].name = n}

-----------------------------------------------------------------------------
Init ==
    /\ memory = StaticContent
    /\ exists = FALSE
    /\ registry = <<>>
    /\ catalogs = <<>>
    /\ registered = {}
    /\ op = [t \in Threads |-> NoCall]
    /\ starved = FALSE

UserCall(t) ==
    \/ \E a \in DOMAIN memory : \/ struct_meta_index_register(t, a)
                               \/ struct_meta_index_unregister(t, a)
                               \/ LeaveScope(t, a)
    \/ \E a \in Dynamic, d \in Locals : EnterScope(t, a, d)
    \/ \E c \in Catalogs : AttachStatic(t, c)
    \/ \E c \in DOMAIN catalogs : struct_meta_catalog_destroy(t, c)
    \/ \E c \in Catalogs, h \in Headers :
          \E place \in [1..Len(h) -> Dynamic] :
             /\ \A i, j \in 1..Len(h) : place[i] = place[j] => i = j
             /\ CreateFromHeader(t, c, h, place)

Step(t) ==
    \/ EnsureRegistry(t) \/ CreateRegistry(t)
    \/ RegisterAgain(t) \/ RegisterNew(t)
    \/ UnregisterRoot(t) \/ Unregister(t)
    \/ Return(t) \/ Publish(t) \/ Release(t)

Next == \E t \in Threads : UserCall(t) \/ Step(t)

Spec == Init /\ [][Next]_vars

-----------------------------------------------------------------------------
(* Properties                                                              *)

Calls == [kind : {"none", "register", "unregister"}, roots : Seq(Addresses),
          work : Seq(Addresses), making : BOOLEAN,
          then : {"return", "publish", "release"},
          catalog : Catalogs \cup {NoHandle}]

Verdicts == {"OK", "CORRUPT_DESCRIPTOR", "OUT_OF_MEMORY"}

TypeOK ==
    /\ Static \subseteq DOMAIN memory /\ DOMAIN memory \subseteq Addresses
    /\ \A a \in DOMAIN memory : memory[a] \in DescriptorOf(Addresses)
    /\ exists \in BOOLEAN
    /\ ~exists => DOMAIN registry = {}
    /\ DOMAIN registry \subseteq Addresses
    /\ \A a \in DOMAIN registry : registry[a].check \in Verdicts
    /\ DOMAIN catalogs \subseteq Catalogs
    /\ \A c \in DOMAIN catalogs :
          catalogs[c] \in [descriptors : Seq(Addresses), arena : BOOLEAN,
                           open : BOOLEAN]
    /\ registered \subseteq Addresses
    /\ op \in [Threads -> Calls]
    /\ starved \in BOOLEAN

\* No record outlives its descriptor, whoever else registered or unregistered
\* it or one that shares its nested ones; at an address that is used again,
\* no search meets the record of the descriptor that was there before.
RecordsOfLiving == DOMAIN registry \subseteq DOMAIN memory

\* Registration changes the speed of a search and nothing else: the answers
\* are those of a validation and a linear search of what is there now (as
\* long as no validation has run out of memory).
AnswersAsUnregistered ==
    \A a \in DOMAIN memory :
        /\ validate(a) \in {memory[a].verdict, "OUT_OF_MEMORY"}
        /\ ~starved => validate(a) = memory[a].verdict
        /\ \A n \in Names : find_field(a, n) = LinearSearch(memory[a], n)

\* A catalogue that was handed out finds each of its descriptors by name,
\* and they are registered: nobody but itself takes them out.
CatalogComplete ==
    \A c \in DOMAIN catalogs : catalogs[c].open =>
        /\ \A i \in 1..Len(catalogs[c].descriptors) :
              Hits(c, memory[catalogs[c].descriptors[i]].name) = {i}
        /\ ~starved /\ catalogs[c].arena =>
              Elements(catalogs[c].descriptors) \subseteq DOMAIN registry

\* Nothing is left in the registry when all who registered have unregistered.
NothingLeft ==
    (\A t \in Threads : Idle(t)) /\ DOMAIN catalogs = {} /\ registered = {}
        => DOMAIN registry = {}
=============================================================================
