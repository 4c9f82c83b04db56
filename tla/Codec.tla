-------------------------------- MODULE Codec --------------------------------
(***************************************************************************)
(* Instances as JSON (encode.c, decode.c) and as text for the eye          *)
(* (print.c).  Decoding never reads the instance, so it yields the writes  *)
(* it makes, in their order, and a result.                                 *)
(***************************************************************************)
EXTENDS Access, Values, SequencesExt

CONSTANTS
    FloatSize,    \* sizeof(float)
    DoubleSize    \* sizeof(double)

\* JSON items.  Numbers are exact; what is not finite is printed as null.
Number(v) == [type |-> "number", number |-> v]
Real(size, v) == IF v = Infinity(size) THEN [type |-> "null"] ELSE Number(v)
String(text) == [type |-> "string", string |-> text]
Array(items) == [type |-> "array", array |-> items]
Object(members) == [type |-> "object", object |-> members]
Member(key, item) == [key |-> key, item |-> item]

Result(code, value) == [code |-> code, value |-> value]

\* The results of steps that follow one another until one fails.
Sequentially(results) ==
    LET failed == {n \in 1..Len(results) : results[n].code # "OK"}
        first == CHOOSE n \in failed : \A m \in failed : n <= m
    IN  IF failed = {}
        THEN Result("OK", [n \in 1..Len(results) |-> results[n].value])
        ELSE Result(results[first].code, [n \in 1..first |-> results[n].value])

\* The same, of steps that each yield a sequence.
All(results) ==
    LET each == Sequentially(results)
    IN  Result(each.code, FlattenSeq(each.value))

\* json_key.
json_key(field) ==
    IF /\ HasAttribute(field.attributes, "json.name")
       /\ AttributeValue(field.attributes, "json.name") \notin {NoText, EmptyText}
    THEN AttributeValue(field.attributes, "json.name")
    ELSE field.name

Ignored(field) == HasAttribute(field.attributes, "json.ignore")

\* The calls for nested structures go no deeper than there are descriptors,
\* since validation refuses structures that are nested in themselves.  In what
\* follows, nested is what they return, as a function of their arguments.
Depths(table) == 0..Len(table)
TooDeep == Result("CORRUPT_DESCRIPTOR", <<>>)

-----------------------------------------------------------------------------
(* Encoding                                                                *)

scalar_to_json(field, memory, address) ==
    LET bytes == Slice(memory, address, field.element_size)
        buffer == Slice(memory, address, field.char_buffer_size)
    IN  CASE field.kind = "SIGNED_INTEGER" -> Result("OK", Number(load_signed(bytes)))
          [] field.kind = "UNSIGNED_INTEGER" -> Result("OK", Number(load_unsigned(bytes)))
          [] field.kind \in {"FLOAT", "DOUBLE"} ->
                IF field.element_size = (IF field.kind = "FLOAT" THEN FloatSize
                                                                 ELSE DoubleSize)
                THEN Result("OK", Real(field.element_size, load_signed(bytes)))
                ELSE Result("UNSUPPORTED", Number(0))
          [] field.kind = "CHAR_ARRAY" ->
                IF HasNUL(buffer) THEN Result("OK", String(TextOf(buffer)))
                ELSE Result("INVALID_ENCODING", Number(0))

element_to_json(nested, field, memory, address) ==
    IF field.kind = "STRUCT" THEN nested[field.nested][address]
    ELSE scalar_to_json(field, memory, address)

field_to_json(nested, field, memory, base) ==
    LET first == element_address(field, base, 0)
        each == Sequentially([n \in 1..field.element_count |->
                   element_to_json(nested, field, memory,
                                   element_address(field, base, n - 1))])
    IN  IF is_hex(field)
        THEN Result("OK", String(bytes_to_hex(Slice(memory, first,
                                                    field.element_count))))
        ELSE IF ~is_array(field) THEN element_to_json(nested, field, memory, first)
        ELSE Result(each.code, Array(each.value))

member_to_json(nested, field, memory, base) ==
    LET json == field_to_json(nested, field, memory, base)
    IN  IF Ignored(field) THEN Result("OK", <<>>)
        ELSE Result(json.code, <<Member(json_key(field), json.value)>>)

fields_to_json(nested, fields, memory, base) ==
    LET members == All([k \in 1..Len(fields) |->
                           member_to_json(nested, fields[k], memory, base)])
    IN  Result(members.code, Object(members.value))

\* struct_to_json, by the depth that is left for it.
struct_to_json(table, memory) ==
    LET json[depth \in Depths(table)] ==
            [i \in 1..Len(table) |-> [base \in Nat |->
                IF depth = 0 THEN TooDeep
                ELSE fields_to_json(json[depth - 1], table[i].fields, memory, base)]]
    IN  json

\* struct_meta_json_encode.
json_encode(table, i, memory) ==
    IF validate(table, i) # "OK" THEN Result("CORRUPT_DESCRIPTOR", Object(<<>>))
    ELSE struct_to_json(table, memory)[Len(table)][i][0]

-----------------------------------------------------------------------------
(* Decoding                                                                *)

Write(address, bytes) == [address |-> address, bytes |-> bytes]
Written(address, bytes) == Result("OK", <<Write(address, bytes)>>)
Fails(code) == Result(code, <<>>)

\* A plausible bug: there need not be room for the NUL.
text_fits_Exactly(field, text) == Len(text.characters) <= field.char_buffer_size

\* The text and a NUL fit the field.
text_fits(field, text) == Len(text.characters) < field.char_buffer_size

scalar_from_json(field, item, address) ==
    LET size == field.element_size
        isNumber == item.type = "number"
    IN  CASE field.kind \in Integral ->
                IF ~isNumber THEN Fails("INVALID_ARGUMENT")
                ELSE IF IF field.kind = "SIGNED_INTEGER"
                        THEN store_signed(size, item.number)
                        ELSE store_unsigned(size, item.number)
                  THEN Written(address, BytesOf(item.number, size))
                  ELSE Fails("OUT_OF_RANGE")
          [] field.kind \in {"FLOAT", "DOUBLE"} ->
                IF isNumber /\ size = (IF field.kind = "FLOAT" THEN FloatSize
                                                               ELSE DoubleSize)
                THEN Written(address, BytesOf(Rounded(size, item.number), size))
                ELSE Fails("INVALID_ARGUMENT")
          [] field.kind = "CHAR_ARRAY" ->
                IF item.type # "string" THEN Fails("INVALID_ARGUMENT")
                ELSE IF text_fits(field, item.string)
                  THEN Written(address, Append(item.string.characters, NUL))
                  ELSE Fails("BUFFER_TOO_SMALL")

element_from_json(nested, field, item, address) ==
    IF field.kind = "STRUCT" THEN nested[field.nested][item][address]
    ELSE scalar_from_json(field, item, address)

\* cJSON_GetObjectItemCaseSensitive: the first member of that key.
HasMember(json, key) == \E n \in 1..Len(json.object) : json.object[n].key = key
MemberOf(json, key) ==
    json.object[CHOOSE n \in 1..Len(json.object) :
                   /\ json.object[n].key = key
                   /\ \A m \in 1..(n - 1) : json.object[m].key # key].item

field_from_json(nested, field, json, base) ==
    LET item == MemberOf(json, json_key(field))
        first == element_address(field, base, 0)
    IN  IF Ignored(field) THEN Result("OK", <<>>)
        ELSE IF ~HasMember(json, json_key(field)) THEN
            IF HasAttribute(field.attributes, "json.required")
            THEN Fails("MISSING_REQUIRED") ELSE Result("OK", <<>>)
        ELSE IF is_hex(field) THEN
            IF item.type # "string" THEN Fails("INVALID_ARGUMENT")
            ELSE IF bytes_from_hex(field.element_count, item.string)
              THEN Written(first, item.string.hex)
              ELSE Fails("INVALID_ENCODING")
        ELSE IF ~is_array(field) THEN element_from_json(nested, field, item, first)
        ELSE IF item.type # "array" \/ Len(item.array) # field.element_count
          THEN Fails("INVALID_ARGUMENT")
        ELSE All([n \in 1..field.element_count |->
                     element_from_json(nested, field, item.array[n],
                                       element_address(field, base, n - 1))])

fields_from_json(nested, fields, json, base) ==
    IF json.type # "object" THEN Fails("INVALID_ARGUMENT")
    ELSE All([k \in 1..Len(fields) |->
                 field_from_json(nested, fields[k], json, base)])

\* The items that a structure may be decoded from in an object: those of its
\* members, and the elements of arrays among them.
ItemsOf(item) ==
    LET items == IF item.type = "object"
                 THEN {item.object[n].item : n \in 1..Len(item.object)} ELSE {}
    IN  items \cup UNION {Range(x.array) : x \in {y \in items : y.type = "array"}}

\* The items at each depth of a JSON text.
ItemsWithin(table, json) ==
    LET items[depth \in Depths(table)] ==
            IF depth = 0 THEN {json}
            ELSE UNION {ItemsOf(item) : item \in items[depth - 1]}
    IN  items

\* struct_from_json, by the depth that is left for it.
struct_from_json(table, json) ==
    LET items == ItemsWithin(table, json)
        writes[depth \in Depths(table)] ==
            [i \in 1..Len(table) |->
             [item \in items[Len(table) - depth] |-> [base \in Nat |->
                IF depth = 0 THEN TooDeep
                ELSE fields_from_json(writes[depth - 1], table[i].fields, item, base)]]]
    IN  writes

\* struct_meta_json_decode.
json_decode(table, i, json) ==
    IF validate(table, i) # "OK" THEN Fails("CORRUPT_DESCRIPTOR")
    ELSE struct_from_json(table, json)[Len(table)][i][json][0]

\* The instance after each write, and once all are done.
Instances(memory, writes) ==
    LET after[n \in 0..Len(writes)] ==
            IF n = 0 THEN memory
            ELSE Put(after[n - 1], writes[n].address, writes[n].bytes)
    IN  after

AfterWrites(memory, writes) == Instances(memory, writes)[Len(writes)]

-----------------------------------------------------------------------------
(* struct_meta_print_write: whether it shows all of an instance            *)

\* A plausible bug: the end of a text is not looked for.
print_element_Unbounded(nested, field, memory, address) ==
    IF field.kind = "STRUCT" THEN nested[field.nested][address] ELSE "OK"

print_element(nested, field, memory, address) ==
    IF field.kind = "STRUCT" THEN nested[field.nested][address]
    ELSE IF field.kind = "CHAR_ARRAY"
            /\ ~HasNUL(Slice(memory, address, field.char_buffer_size))
      THEN "INVALID_ENCODING" ELSE "OK"

\* The first error, if there is one.
FirstError(codes) ==
    LET failed == {n \in 1..Len(codes) : codes[n] # "OK"}
    IN  IF failed = {} THEN "OK"
        ELSE codes[CHOOSE n \in failed : \A m \in failed : n <= m]

print_field(nested, field, memory, base) ==
    IF is_hex(field) THEN "OK"
    ELSE FirstError([n \in 1..field.element_count |->
             print_element(nested, field, memory,
                           element_address(field, base, n - 1))])

print_fields(nested, fields, memory, base) ==
    FirstError([k \in 1..Len(fields) |-> print_field(nested, fields[k], memory, base)])

\* print_struct, by the depth that is left for it.
print_struct(table, memory) ==
    LET code[depth \in Depths(table)] ==
            [i \in 1..Len(table) |-> [base \in Nat |->
                IF depth = 0 THEN "CORRUPT_DESCRIPTOR"
                ELSE print_fields(code[depth - 1], table[i].fields, memory, base)]]
    IN  code

print_write(table, i, memory) ==
    IF validate(table, i) # "OK" THEN "CORRUPT_DESCRIPTOR"
    ELSE print_struct(table, memory)[Len(table)][i][0]
=============================================================================
