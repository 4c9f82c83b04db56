------------------------------- MODULE Validate ------------------------------
(***************************************************************************)
(* What struct-meta demands of a descriptor before it touches an instance  *)
(* (validate.c, and bytes.c for the attributes that it interprets).        *)
(*                                                                         *)
(* Descriptors lie in a table; the nested descriptor of a field is its     *)
(* position there, NoNested if there is none.                              *)
(***************************************************************************)
EXTENDS Integers, Sequences

CONSTANTS
    SizeMax,    \* SIZE_MAX
    NoText      \* the NULL of optional texts

Integral == {"SIGNED_INTEGER", "UNSIGNED_INTEGER"}
Kinds == Integral \cup {"FLOAT", "DOUBLE", "CHAR_ARRAY", "STRUCT"}

NoNested == 0
EmptyText == ""

-----------------------------------------------------------------------------
(* Attributes: sequences of [key, value]                                   *)

HasAttribute(attributes, key) ==
    \E i \in 1..Len(attributes) : attributes[i].key = key

\* The value of the first attribute of that key.
AttributeValue(attributes, key) ==
    attributes[CHOOSE i \in 1..Len(attributes) :
                  /\ attributes[i].key = key
                  /\ \A j \in 1..(i - 1) : attributes[j].key # key].value

\* validate_attributes.
AttributesValid(attributes) ==
    /\ \A i \in 1..Len(attributes) : attributes[i].key \notin {NoText, EmptyText}
    /\ \A i, j \in 1..Len(attributes) :
          attributes[i].key = attributes[j].key => i = j

\* struct_meta_internal_field_is_byte_array.
is_byte_array(field) ==
    field.kind \in Integral /\ field.element_size = 1 /\ field.element_count > 1

\* struct_meta_internal_field_byte_format refuses the attributes, or else
\* they ask for hexadecimal digits or not.
MetaAttributesValid(attributes, bytes) ==
    /\ HasAttribute(attributes, "meta.kind") =>
          AttributeValue(attributes, "meta.kind") = "bytes" /\ bytes
    /\ HasAttribute(attributes, "meta.format") =>
          AttributeValue(attributes, "meta.format") = "hex" /\ bytes

is_hex(field) == HasAttribute(field.attributes, "meta.format")

-----------------------------------------------------------------------------
(* Fields and descriptors                                                  *)

is_supported_size(size) == size \in {1, 2, 4, 8}

\* The number of bytes of the field; not asked of one whose product overflows.
FieldSize(field) ==
    IF field.kind = "CHAR_ARRAY" THEN field.char_buffer_size
    ELSE field.element_count * field.element_size

ShapeValid(field) ==
    IF field.kind = "CHAR_ARRAY"
    THEN /\ field.char_buffer_size # 0
         /\ field.element_count = 1
         /\ field.nested = NoNested
    ELSE /\ field.char_buffer_size = 0
         /\ field.element_count <= SizeMax \div field.element_size

FieldValid(table, d, field) ==
    /\ field.name \notin {NoText, EmptyText}
    /\ field.kind \in Kinds
    /\ field.element_size # 0 /\ field.element_count # 0
    /\ field.kind \in Integral => is_supported_size(field.element_size)
    /\ ShapeValid(field)
    /\ field.offset <= d.size /\ FieldSize(field) <= d.size - field.offset
    /\ IF field.kind = "STRUCT"
         THEN /\ field.nested # NoNested
              /\ field.element_size = table[field.nested].size
         ELSE field.nested = NoNested
    /\ AttributesValid(field.attributes)
    /\ MetaAttributesValid(field.attributes, is_byte_array(field))

DescriptorValid(table, d) ==
    /\ d.name \notin {NoText, EmptyText}
    /\ d.size # 0
    /\ AttributesValid(d.attributes)
    /\ \A k \in 1..Len(d.fields) : FieldValid(table, d, d.fields[k])

\* The descriptors that are nested in one, and in those of a set.
Nested(d) == {d.fields[k].nested : k \in 1..Len(d.fields)} \ {NoNested}
NestedIn(table, set) == UNION {Nested(table[i]) : i \in set}

\* Those that a walk from the set comes to: what every set has that leaves
\* none of its nested descriptors out.
Reached(table, set) ==
    {i \in DOMAIN table :
        \A all \in SUBSET DOMAIN table :
            set \subseteq all /\ NestedIn(table, all) \subseteq all => i \in all}

\* struct_meta_descriptor_validate of a descriptor that is not registered:
\* the walk stops at the first fault, a descriptor that is nested in itself
\* included.
validate(table, i) ==
    IF \A j \in Reached(table, {i}) :
          /\ DescriptorValid(table, table[j])
          /\ j \notin Reached(table, NestedIn(table, {j}))
    THEN "OK" ELSE "CORRUPT_DESCRIPTOR"
=============================================================================
