-------------------------------- MODULE Access -------------------------------
(***************************************************************************)
(* Fields, elements and paths (access.c, path.c).  A path is a sequence of *)
(* segments, each the name of a field and the index of an element, NoIndex *)
(* where the path gives none.                                              *)
(***************************************************************************)
EXTENDS Validate

NoIndex == -1

Segment(name, index) == [name |-> name, index |-> index]

\* An array in the sense of all who walk through fields.
is_array(field) == field.kind # "CHAR_ARRAY" /\ field.element_count > 1

\* struct_meta_field_get_element, for an index that is in range.
element_address(field, base, index) ==
    base + field.offset + index * field.element_size

\* find_field_segment: the first field of that name, 0 if there is none.
find_field(d, name) ==
    LET found == {k \in 1..Len(d.fields) : d.fields[k].name = name}
    IN  IF found = {} THEN 0
        ELSE CHOOSE k \in found : \A j \in found : k <= j

\* A result of resolve_path: field and address after n segments.
At(code, field, address) == [code |-> code, field |-> field, address |-> address]

\* One segment in a structure at an address.  Every one but the last has to
\* lead into one structure.
resolve_segment(d, base, segment, last) ==
    LET k == find_field(d, segment.name)
        field == d.fields[k]
        index == segment.index
        there == element_address(field, base, IF index = NoIndex THEN 0 ELSE index)
    IN  IF k = 0 THEN At("NOT_FOUND", <<>>, 0)
        ELSE IF /\ index # NoIndex
                /\ field.kind = "CHAR_ARRAY" \/ index >= field.element_count
          THEN At("OUT_OF_RANGE", <<>>, 0)
        ELSE IF /\ ~last
                /\ \/ field.kind # "STRUCT"
                   \/ field.element_count > 1 /\ index = NoIndex
          THEN At("INVALID_ARGUMENT", <<>>, 0)
        ELSE At("OK", field, there)

\* The results of resolve_path after each segment.
resolved(table, i, path) ==
    LET at[n \in 1..Len(path)] ==
            IF n = 1 THEN resolve_segment(table[i], 0, path[1], 1 = Len(path))
            ELSE IF at[n - 1].code # "OK" THEN at[n - 1]
            ELSE resolve_segment(table[at[n - 1].field.nested], at[n - 1].address,
                                 path[n], n = Len(path))
    IN  at

resolve_path(table, i, path) == resolved(table, i, path)[Len(path)]

\* struct_meta_path_resolve, of a path that is no path if it is empty.
path_resolve(table, i, path) ==
    IF path = <<>> THEN At("INVALID_ARGUMENT", <<>>, 0)
    ELSE IF validate(table, i) # "OK" THEN At("CORRUPT_DESCRIPTOR", <<>>, 0)
    ELSE resolve_path(table, i, path)

\* path_has_terminal_index of the editor.
path_has_terminal_index(path) == path[Len(path)].index # NoIndex
=============================================================================
