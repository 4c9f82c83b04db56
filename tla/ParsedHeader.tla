----------------------------- MODULE ParsedHeader -----------------------------
(***************************************************************************)
(* A header as the parser hands it to build.c: a sequence of structures,   *)
(* each with its fields, whose types are named.  What build.c looks up in  *)
(* it, and what the header deserves by the rules of C, independently of    *)
(* the order in which its descriptors are built.                           *)
(***************************************************************************)
EXTENDS Validate

CONSTANTS
    PowersOfTwo,      \* see Layout
    LayoutTypes       \* g_layout_types: [kind, size, alignment] by spelling

Structs(h) == 1..Len(h)
Fields(h, i) == 1..Len(h[i].fields)

-----------------------------------------------------------------------------
(* What build.c looks up                                                   *)

Char == "char"
ByteTypes == {"signed char", "unsigned char", "int8_t", "uint8_t"}

\* field_is_byte_array, with is_explicit_byte_type.
field_is_byte_array(f) ==
    /\ f.array_count > 0
    /\ \/ f.type_name \in ByteTypes
       \/ /\ f.type_name = Char
          /\ HasAttribute(f.attributes, "meta.kind")
          /\ AttributeValue(f.attributes, "meta.kind") = "bytes"

\* find_entry: the first structure of that name.
EntriesOf(h, name) == {i \in Structs(h) : h[i].name = name}
find_entry(h, name) ==
    CHOOSE i \in EntriesOf(h, name) : \A j \in EntriesOf(h, name) : i <= j

Unknown(h, f) == IF f.is_struct_type THEN EntriesOf(h, f.type_name) = {}
                 ELSE f.type_name \notin DOMAIN LayoutTypes

-----------------------------------------------------------------------------
(* Nesting                                                                 *)

\* The structures that structure i nests, as far as they are known.
Nests(h, i) ==
    {find_entry(h, h[i].fields[k].type_name) :
        k \in {n \in Fields(h, i) : /\ h[i].fields[n].is_struct_type
                                    /\ ~Unknown(h, h[i].fields[n])}}

\* A set of structures that has what its members nest.
Closed(h, set) == \A i \in set : Nests(h, i) \subseteq set

\* The structures within structure i: those in every closed set that has what
\* i nests.
Within(h, i) ==
    {j \in Structs(h) :
        \A set \in SUBSET Structs(h) :
            Nests(h, i) \subseteq set /\ Closed(h, set) => j \in set}

-----------------------------------------------------------------------------
(* Layout, without regard to the width of size_t                           *)

\* The first multiple of a from n on.
FirstMultiple(n, a) == CHOOSE x \in n..(n + a - 1) : x % a = 0

\* Types are [size, alignment]; types[i] is that of structure i.
NoType == [size |-> 0, alignment |-> 1]

\* The type of one element of a field, NoType if it is not known.
DeclaredType(h, types, f) ==
    IF Unknown(h, f) THEN NoType
    ELSE IF f.is_struct_type THEN types[find_entry(h, f.type_name)]
    ELSE [size |-> LayoutTypes[f.type_name].size,
          alignment |-> LayoutTypes[f.type_name].alignment]

\* What fields extend to: where they end, and the largest of their alignments.
NoExtent == [end |-> 0, alignment |-> 1]

Extended(extent, f, type) ==
    [end |-> FirstMultiple(extent.end, type.alignment)
             + type.size * (IF f.array_count > 1 THEN f.array_count ELSE 1),
     alignment |-> IF type.alignment > extent.alignment THEN type.alignment
                   ELSE extent.alignment]

\* The extent of the first k fields of structure i.
Extents(h, types, i) ==
    LET extent[k \in 0..Len(h[i].fields)] ==
            IF k = 0 THEN NoExtent
            ELSE Extended(extent[k - 1], h[i].fields[k],
                          DeclaredType(h, types, h[i].fields[k]))
    IN  extent

\* The type that structure i is.
Whole(h, types, i) ==
    LET extent == Extents(h, types, i)[Len(h[i].fields)]
    IN  [size |-> FirstMultiple(extent.end, extent.alignment),
         alignment |-> extent.alignment]

\* The types of the structures, as far as n rounds find them out.
Rounds(h) ==
    LET types[n \in 0..Len(h)] ==
            IF n = 0 THEN [i \in Structs(h) |-> NoType]
            ELSE [i \in Structs(h) |-> Whole(h, types[n - 1], i)]
    IN  types

\* After n rounds those are right that nest less than n deep: all of them in
\* the end, unless a structure nests itself.
Types(h) == Rounds(h)[Len(h)]

-----------------------------------------------------------------------------
(* What a header deserves                                                  *)

FieldRight(h, f) ==
    ~Unknown(h, f) /\ MetaAttributesValid(f.attributes, field_is_byte_array(f))

WellFormed(h) ==
    /\ h # <<>>
    /\ \A i \in Structs(h) :
          /\ h[i].fields # <<>>
          /\ i \notin Within(h, i)
          /\ \A k \in Fields(h, i) : FieldRight(h, h[i].fields[k])
    /\ \A i \in Structs(h) : Types(h)[i].size <= SizeMax

\* Validation takes an array of one byte for an integer, whose attributes may
\* not ask for bytes; building does not.
OneByte(f) == /\ field_is_byte_array(f) /\ f.array_count = 1
              /\ \/ HasAttribute(f.attributes, "meta.kind")
                 \/ HasAttribute(f.attributes, "meta.format")

NoOneByte(h) == \A i \in Structs(h) : \A k \in Fields(h, i) :
                    ~OneByte(h[i].fields[k])
=============================================================================
