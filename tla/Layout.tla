-------------------------------- MODULE Layout -------------------------------
(***************************************************************************)
(* The structure layout of struct-meta (layout.c): a builder places the    *)
(* members of a structure one by one, as the x86_64 ABIs do, and yields    *)
(* the size and alignment of the whole, which may then be the type of a    *)
(* member of a later structure.  The descriptors built from a header at    *)
(* run time take offsets and sizes from here; generated descriptors check  *)
(* them against the compiler's.                                            *)
(*                                                                         *)
(* size_t arithmetic wraps at SizeMax + 1.                                 *)
(***************************************************************************)
EXTENDS Integers, FiniteSets

CONSTANTS
    SizeMax,       \* SIZE_MAX
    PowersOfTwo,   \* the powers of two up to SizeMax
    BasicTypes,    \* g_layout_types: [size, alignment] of the scalar types
    Counts,        \* element counts that callers pass
    BadTypes,      \* arguments that the builder has to refuse
    MaxMembers,    \* bound on the members of a structure
    MaxStructs     \* bound on the structures laid out

TypeInfo == [size : Nat, alignment : Nat]

\* Of powers of two only this is used: the smaller divides the larger.
ASSUME LayoutAssumption ==
    /\ SizeMax \in Nat
    /\ PowersOfTwo \subseteq 1..SizeMax
    /\ 1 \in PowersOfTwo
    /\ \A a, b \in PowersOfTwo : a <= b => b % a = 0
    /\ BasicTypes \subseteq TypeInfo
    /\ \A t \in BasicTypes : /\ t.alignment \in PowersOfTwo
                             /\ t.size \in 1..SizeMax
                             /\ t.size % t.alignment = 0
    /\ Counts \subseteq 0..SizeMax
    /\ BadTypes \subseteq [size : 0..SizeMax, alignment : 0..SizeMax]
    /\ MaxMembers \in Nat /\ MaxStructs \in Nat

VARIABLES
    types,      \* scalar types and the structures laid out so far
    open,       \* between layout_begin and layout_end
    offset,     \* builder->offset
    alignment,  \* builder->alignment
    members,    \* members placed: [offset, size, alignment]
    call        \* arguments and result of the last call

vars == <<types, open, offset, alignment, members, call>>

-----------------------------------------------------------------------------
(* size_t                                                                  *)

Wrap(n) == n % (SizeMax + 1)

is_power_of_two(value) == value \in PowersOfTwo

\* A plausible bug: a full alignment is added where none is needed.
Padding_Full(n, a) == a - (n % a)

\* What rounds n up to a multiple of a.
Padding(n, a) == IF n % a = 0 THEN 0 ELSE a - (n % a)

-----------------------------------------------------------------------------
(* layout_add: the checks before each addition and multiplication          *)

BadArgument(size, count, align) ==
    size = 0 \/ count = 0 \/ ~is_power_of_two(align)

\* Rounding the offset up, or the size of the array, does not fit a size_t.
OffsetOverflows(align) == Padding(offset, align) > SizeMax - offset
ArrayOverflows(size, count) == count > SizeMax \div size

\* A plausible bug: the last byte of the address space is not used.
MemberOverflows_Strict(size, count, align) ==
    Wrap(size * count) >= SizeMax - Wrap(offset + Padding(offset, align))

\* A plausible bug: the room for the member is not checked.
MemberOverflows_Never(size, count, align) == FALSE

\* The end of the member does not fit a size_t.
MemberOverflows(size, count, align) ==
    Wrap(size * count) > SizeMax - Wrap(offset + Padding(offset, align))

AddResult(size, count, align) ==
    IF BadArgument(size, count, align) THEN "INVALID_ARGUMENT"
    ELSE IF \/ OffsetOverflows(align)
            \/ ArrayOverflows(size, count)
            \/ MemberOverflows(size, count, align) THEN "OUT_OF_RANGE"
    ELSE "OK"

\* The member that layout_add places.
Place(size, count, align) ==
    [offset |-> Wrap(offset + Padding(offset, align)),
     size |-> Wrap(size * count),
     alignment |-> align]

layout_add(size, count, align) ==
    LET m == Place(size, count, align)
        result == AddResult(size, count, align)
    IN  /\ open
        /\ Cardinality(members) < MaxMembers
        /\ call' = [size |-> size, count |-> count, align |-> align,
                    result |-> result]
        /\ IF result = "OK"
             THEN /\ members' = members \cup {m}
                  /\ offset' = Wrap(m.offset + m.size)
                  /\ alignment' = IF align > alignment THEN align ELSE alignment
             ELSE UNCHANGED <<members, offset, alignment>>
        /\ UNCHANGED <<types, open>>

-----------------------------------------------------------------------------
(* layout_begin and layout_end                                             *)

NoCall == [size |-> 0, count |-> 0, align |-> 0, result |-> "none"]

layout_begin ==
    /\ ~open
    /\ open' = TRUE
    /\ offset' = 0
    /\ alignment' = 1
    /\ members' = {}
    /\ call' = NoCall
    /\ UNCHANGED types

EndResult ==
    IF offset = 0 \/ ~is_power_of_two(alignment) THEN "INVALID_ARGUMENT"
    ELSE IF OffsetOverflows(alignment) THEN "OUT_OF_RANGE"
    ELSE "OK"

EndSize == Wrap(offset + Padding(offset, alignment))

\* The structure is a type from now on.  (It is given up on an error.)
layout_end ==
    /\ open
    /\ open' = FALSE
    /\ call' = [NoCall EXCEPT !.result = EndResult]
    /\ types' = IF EndResult = "OK"
                THEN types \cup {[size |-> EndSize, alignment |-> alignment]}
                ELSE types
    /\ UNCHANGED <<offset, alignment, members>>

-----------------------------------------------------------------------------
Init ==
    /\ types = BasicTypes
    /\ open = FALSE
    /\ offset = 0
    /\ alignment = 1
    /\ members = {}
    /\ call = NoCall

Begin ==
    /\ Cardinality(types) < Cardinality(BasicTypes) + MaxStructs
    /\ layout_begin

Next ==
    \/ Begin
    \/ \E t \in types \cup BadTypes, n \in Counts :
          layout_add(t.size, n, t.alignment)
    \/ layout_end

Spec == Init /\ [][Next]_vars

-----------------------------------------------------------------------------
(* Properties                                                              *)

Member == [offset : 0..SizeMax, size : 1..SizeMax, alignment : PowersOfTwo]

\* No value wraps around: every offset, size and alignment is a size_t.
TypeOK ==
    /\ types \subseteq [size : 1..SizeMax, alignment : PowersOfTwo]
    /\ open \in BOOLEAN
    /\ offset \in 0..SizeMax
    /\ alignment \in PowersOfTwo
    /\ members \subseteq Member

\* No two members share a byte, and none reaches beyond builder->offset.
MembersDisjoint ==
    /\ \A m \in members : m.offset + m.size <= offset
    /\ \A m, n \in members :
          m # n => m.offset + m.size <= n.offset \/ n.offset + n.size <= m.offset

\* Every member is aligned, within the structure and (as its alignment divides
\* that of the structure) wherever the structure is placed.
MembersAligned ==
    \A m \in members : m.offset % m.alignment = 0 /\ alignment % m.alignment = 0

\* Arrays of every type keep their elements aligned, structures of structures
\* included.
TypesTile == \A t \in types : t.size % t.alignment = 0

\* The first multiple of a from n on, found by looking.
FirstMultiple(n, a) ==
    CHOOSE x \in n..(n + a - 1) : x % a = 0

\* layout_add does what the ABI says, exactly as long as the result is a
\* size_t: the member is at the first aligned place after the last one; there
\* is an error only if it would not fit.
AddExact ==
    [][open /\ open' /\ call' # call =>
        LET first == FirstMultiple(offset, call'.align)
            total == call'.size * call'.count
        IN  /\ call'.result = "OK" =>
                 members' = members \cup {[offset |-> first, size |-> total,
                                           alignment |-> call'.align]}
            /\ call'.result = "OUT_OF_RANGE" => first + total > SizeMax]_vars

\* The size of a structure is the first multiple of its alignment that has
\* room for all members.
SizeExact ==
    [][\A t \in types' \ types :
          /\ t.alignment = alignment
          /\ t.size = FirstMultiple(offset, alignment)]_vars

=============================================================================
