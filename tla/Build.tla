-------------------------------- MODULE Build --------------------------------
(***************************************************************************)
(* Building the descriptors of a header that was parsed at run time        *)
(* (build.c), in the arena of their catalogue.  The structures are built   *)
(* in their order in the header, except that a structure builds those that *)
(* are nested in it before itself; the recursion is an explicit stack, and *)
(* every piece of memory is asked of the arena one by one.                 *)
(*                                                                         *)
(* Types are resolved by name (ParsedHeader), offsets follow the           *)
(* arithmetic of Layout, and what comes out has to satisfy Validate.       *)
(***************************************************************************)
EXTENDS Arena, FiniteSets

CONSTANTS
    NoText,           \* the NULL of optional texts
    PowersOfTwo,      \* see Layout
    LayoutTypes,      \* see ParsedHeader
    Headers,          \* headers, as the parser hands them over
    TextSize,         \* bytes of a text, with the NUL
    SizeOf            \* sizeof of the structures that are allocated

PointerAlign == 8

INSTANCE ParsedHeader

Texts == DOMAIN TextSize
Attribute == [key : Texts, value : Texts \cup {NoText}]

FieldDeclaration ==
    [name : Texts \ {EmptyText}, brief : Texts \cup {NoText},
     type_name : STRING, is_struct_type : BOOLEAN, array_count : 0..SizeMax,
     attributes : Seq(Attribute)]

StructDeclaration ==
    [name : Texts \ {EmptyText}, brief : Texts \cup {NoText},
     attributes : Seq(Attribute), fields : Seq(FieldDeclaration)]

\* A size that an array of n elements of size bytes may have.
ArrayFits(n, size) == n * size <= SizeMax - PointerAlign

AttributesRight(attributes) ==
    AttributesValid(attributes) /\ ArrayFits(Len(attributes), SizeOf.attribute)

\* What the parser makes of any header: names are identifiers, attributes have
\* keys that differ (doc.c), and what g_layout_types has is no structure
\* (struct_meta_parse.y).  A header that has been read is small enough for the
\* sizes of what is allocated for it to fit a size_t.
Parsed(h) ==
    /\ h \in Seq(StructDeclaration)
    /\ \A size \in {SizeOf.entry, SizeOf.descriptor, SizeOf.pointer} :
          ArrayFits(Len(h), size)
    /\ \A i \in Structs(h) :
          /\ AttributesRight(h[i].attributes)
          /\ ArrayFits(Len(h[i].fields), SizeOf.field)
          /\ \A k \in Fields(h, i) :
                LET f == h[i].fields[k]
                IN  /\ AttributesRight(f.attributes)
                    /\ f.is_struct_type =>
                          f.type_name \notin DOMAIN LayoutTypes \cup ByteTypes \cup {Char}

\* g_layout_types: what the ABI asks of a scalar type, and that those that may
\* be bytes are integers of one byte.
LayoutTypeRight(name, t) ==
    /\ t.kind \in Integral \cup {"FLOAT", "DOUBLE"}
    /\ t.kind \in Integral => is_supported_size(t.size)
    /\ t.alignment \in PowersOfTwo
    /\ t.size \in 1..SizeMax /\ t.size % t.alignment = 0
    /\ name \in ByteTypes \cup {Char} => t.kind \in Integral /\ t.size = 1

ASSUME BuildAssumption ==
    /\ {1, PointerAlign} \subseteq Alignments
    /\ PowersOfTwo \subseteq 1..SizeMax
    /\ 1 \in PowersOfTwo
    /\ \A a, b \in PowersOfTwo : a <= b => b % a = 0
    /\ \A name \in DOMAIN LayoutTypes : LayoutTypeRight(name, LayoutTypes[name])
    /\ NoText \notin Texts
    /\ TextSize \in [Texts -> 1..(SizeMax - 1)]
    /\ \A size \in {SizeOf.entry, SizeOf.descriptor, SizeOf.pointer,
                    SizeOf.field, SizeOf.attribute} : size \in Nat \ {0}
    /\ \A h \in Headers : Parsed(h)

VARIABLES
    header,     \* the structures of the parser
    state,      \* BUILD_STATE of each
    table,      \* the descriptors
    stack,      \* the calls of build_one under way, the innermost last
    requests,   \* pieces of memory to ask for before going on
    root,       \* the next structure of the loop of build_descriptors, 0 before
    null,       \* one of the first three allocations has failed
    result      \* what the call returns, "none" while it is under way

buildVars == <<header, state, table, stack, requests, root, null, result>>
vars == <<arenaVars, buildVars>>

Top == stack[Len(stack)]
Source == header[Top.entry]
Field == Source.fields[Len(Top.fields) + 1]

Layout == INSTANCE Layout WITH
    BasicTypes <- {}, Counts <- {}, BadTypes <- {}, MaxMembers <- 0,
    MaxStructs <- 0, types <- {}, open <- TRUE, members <- {}, call <- "none",
    offset <- Top.offset, alignment <- Top.alignment

-----------------------------------------------------------------------------
(* Requests to the arena                                                   *)

Request(size, alignment) == [size |-> size, alignment |-> alignment]

\* struct_meta_internal_arena_copy_string, for a text that there is.
Copy(text) == IF text = NoText THEN <<>> ELSE <<Request(TextSize[text], 1)>>

\* copy_attributes: the array, then key and value of one after the other.
AttributeCopies(attributes) ==
    LET copies[n \in 0..Len(attributes)] ==
            IF n = 0
            THEN <<Request(Len(attributes) * SizeOf.attribute, PointerAlign)>>
            ELSE copies[n - 1] \o Copy(attributes[n].key) \o Copy(attributes[n].value)
    IN  IF Len(attributes) = 0 THEN <<>> ELSE copies[Len(attributes)]

\* What a field or a structure that is complete has copied.
TextsOf(x) == Copy(x.name) \o Copy(x.brief) \o AttributeCopies(x.attributes)

-----------------------------------------------------------------------------
(* Fields                                                                  *)

\* The field would nest a structure in itself.
Circular(f) == f.is_struct_type /\ state[find_entry(header, f.type_name)] = "ACTIVE"

\* A plausible bug: the attributes are taken as they come.
FieldError_AnyAttribute(f) ==
    IF Unknown(header, f) THEN "NOT_FOUND"
    ELSE IF Circular(f) THEN "CORRUPT_DESCRIPTOR"
    ELSE "OK"

\* What build_field finds wrong before it lays the field out.
FieldError(f) ==
    IF ~MetaAttributesValid(f.attributes, field_is_byte_array(f))
      THEN "CORRUPT_DESCRIPTOR"
    ELSE IF Unknown(header, f) THEN "NOT_FOUND"
    ELSE IF Circular(f) THEN "CORRUPT_DESCRIPTOR"
    ELSE "OK"

\* The type of one element.
ElementType(f) ==
    IF f.is_struct_type
    THEN LET d == table[find_entry(header, f.type_name)]
         IN  [kind |-> "STRUCT", size |-> d.size, alignment |-> d.alignment]
    ELSE LayoutTypes[f.type_name]

DeclaredCount(f) == IF f.array_count > 0 THEN f.array_count ELSE 1

is_char_array(f) ==
    /\ ~f.is_struct_type /\ f.type_name = Char
    /\ f.array_count > 0 /\ ~field_is_byte_array(f)

\* A plausible bug: an array of char counts its elements, like any other.
Described_Counted(f, offset) ==
    [name |-> f.name, attributes |-> f.attributes, offset |-> offset,
     element_size |-> ElementType(f).size, element_count |-> DeclaredCount(f),
     nested |-> IF f.is_struct_type THEN find_entry(header, f.type_name)
                ELSE NoNested,
     kind |-> IF is_char_array(f) THEN "CHAR_ARRAY" ELSE ElementType(f).kind,
     char_buffer_size |->
        IF is_char_array(f) THEN ElementType(f).size * DeclaredCount(f) ELSE 0]

\* The field of the descriptor.  An array of char is one text.
Described(f, offset) ==
    [name |-> f.name, attributes |-> f.attributes, offset |-> offset,
     element_size |-> ElementType(f).size,
     nested |-> IF f.is_struct_type THEN find_entry(header, f.type_name)
                ELSE NoNested,
     kind |-> IF is_char_array(f) THEN "CHAR_ARRAY" ELSE ElementType(f).kind,
     element_count |-> IF is_char_array(f) THEN 1 ELSE DeclaredCount(f),
     char_buffer_size |->
        IF is_char_array(f) THEN ElementType(f).size * DeclaredCount(f) ELSE 0]

-----------------------------------------------------------------------------
(* Steps                                                                   *)

Running == result = "none" /\ requests = <<>>

End(code) ==
    /\ result' = code
    /\ UNCHANGED <<header, state, table, stack, requests, root, null>>

ChangeTop(frame) == stack' = [stack EXCEPT ![Len(stack)] = frame]

\* build_descriptors begins.
Begin ==
    /\ Running /\ root = 0
    /\ root' = 1
    /\ IF header = <<>>
         THEN /\ result' = "NOT_FOUND"
              /\ UNCHANGED requests
         ELSE /\ UNCHANGED result
              /\ requests' = [i \in 1..3 |->
                    Request(Len(header) * <<SizeOf.entry, SizeOf.descriptor,
                                            SizeOf.pointer>>[i], PointerAlign)]
    /\ UNCHANGED <<arenaVars, header, state, table, stack, null>>

\* The next piece of memory.  The first three are all asked for before the
\* code looks at them; any other one that is refused ends the call.
Allocate ==
    /\ result = "none" /\ requests # <<>>
    /\ LET r == Head(requests)
       IN  \/ /\ allocate(r.size, r.alignment)
              /\ requests' = Tail(requests)
              /\ UNCHANGED <<header, state, table, stack, root, null, result>>
           \/ /\ allocate_fails(r.size, r.alignment)
              /\ IF stack = <<>>
                   THEN /\ requests' = Tail(requests)
                        /\ null' = TRUE
                        /\ UNCHANGED <<header, state, table, stack, root, result>>
                   ELSE End("OUT_OF_MEMORY")

\* The state of the structures once build_one has started with structure i.
Started(i) == [state EXCEPT ![i] = "ACTIVE"]

\* build_one starts: the array of fields is the first thing it needs.
build_one(i) ==
    /\ state' = Started(i)
    /\ IF state[i] = "ACTIVE" \/ header[i].fields = <<>>
         THEN /\ result' = "CORRUPT_DESCRIPTOR"
              /\ UNCHANGED <<header, table, stack, requests, null>>
         ELSE /\ stack' = Append(stack, [entry |-> i, fields |-> <<>>,
                                         offset |-> 0, alignment |-> 1,
                                         laid |-> FALSE])
              /\ requests' = <<Request(Len(header[i].fields) * SizeOf.field,
                                       PointerAlign)>>
              /\ UNCHANGED <<header, table, null, result>>

\* A plausible bug: the loop does not go on.
NextIndex_Same == root

NextIndex == root + 1

\* The loop over the structures of the header.  Between two of them, none is
\* ACTIVE.
NextRoot ==
    /\ Running /\ root > 0 /\ stack = <<>>
    /\ IF null THEN End("OUT_OF_MEMORY")
       ELSE IF root > Len(header) THEN End("OK")
       ELSE /\ root' = NextIndex
            /\ IF state[root] = "DONE"
                 THEN UNCHANGED <<header, state, table, stack, requests, null,
                                  result>>
                 ELSE build_one(root)
    /\ UNCHANGED arenaVars

InField == Running /\ stack # <<>> /\ Len(Top.fields) < Len(Source.fields)

\* build_field meets an error.
RefuseField ==
    /\ InField
    /\ FieldError(Field) # "OK"
    /\ End(FieldError(Field))
    /\ UNCHANGED arenaVars

\* build_field builds the nested structure; it goes on afterwards, with
\* PlaceField.
Descend ==
    /\ InField
    /\ FieldError(Field) = "OK"
    /\ Field.is_struct_type /\ state[find_entry(header, Field.type_name)] # "DONE"
    /\ build_one(find_entry(header, Field.type_name))
    /\ UNCHANGED <<arenaVars, root>>

\* build_field lays the field out and copies its texts.
PlaceField ==
    /\ InField
    /\ FieldError(Field) = "OK"
    /\ Field.is_struct_type => state[find_entry(header, Field.type_name)] = "DONE"
    /\ LET t == ElementType(Field)
           n == DeclaredCount(Field)
           code == Layout!AddResult(t.size, n, t.alignment)
           place == Layout!Place(t.size, n, t.alignment)
       IN  IF code # "OK" THEN End(code)
           ELSE /\ ChangeTop([Top EXCEPT
                        !.fields = Append(@, Described(Field, place.offset)),
                        !.offset = Layout!Wrap(place.offset + place.size),
                        !.alignment = IF t.alignment > @ THEN t.alignment ELSE @])
                /\ requests' = TextsOf(Field)
                /\ UNCHANGED <<header, state, table, root, null, result>>
    /\ UNCHANGED arenaVars

AllFields == Running /\ stack # <<>> /\ Len(Top.fields) = Len(Source.fields)

\* A plausible bug: the structure ends with its last field.
LaidSize_Unpadded == Top.offset

LaidSize == Layout!EndSize

\* build_one ends the layout and copies the texts of the structure.
EndLayout ==
    /\ AllFields /\ ~Top.laid
    /\ IF Layout!EndResult # "OK" THEN End(Layout!EndResult)
       ELSE /\ ChangeTop([Top EXCEPT !.laid = TRUE, !.offset = LaidSize])
            /\ requests' = TextsOf(Source)
            /\ UNCHANGED <<header, state, table, root, null, result>>
    /\ UNCHANGED arenaVars

\* build_one returns CPLAT_OK.
FinishStruct ==
    /\ AllFields /\ Top.laid
    /\ table' = [table EXCEPT ![Top.entry] =
          [name |-> Source.name, size |-> Top.offset, fields |-> Top.fields,
           attributes |-> Source.attributes, alignment |-> Top.alignment]]
    /\ state' = [state EXCEPT ![Top.entry] = "DONE"]
    /\ stack' = SubSeq(stack, 1, Len(stack) - 1)
    /\ UNCHANGED <<arenaVars, header, requests, root, null, result>>

\* The catalogue of a failed call is destroyed with its arena.
Discard ==
    /\ result \notin {"none", "OK"}
    /\ blocks # {}
    /\ arena_destroy
    /\ UNCHANGED buildVars

-----------------------------------------------------------------------------
NoDescriptor == [name |-> NoText, size |-> 0, fields |-> <<>>,
                 attributes |-> <<>>, alignment |-> 0]

Init ==
    /\ ArenaInit
    /\ header \in Headers
    /\ state = [i \in 1..Len(header) |-> "PENDING"]
    /\ table = [i \in 1..Len(header) |-> NoDescriptor]
    /\ stack = <<>>
    /\ requests = <<>>
    /\ root = 0
    /\ null = FALSE
    /\ result = "none"

Next ==
    \/ Begin \/ Allocate \/ NextRoot
    \/ RefuseField \/ Descend \/ PlaceField
    \/ EndLayout \/ FinishStruct
    \/ Discard

\* The call runs on by itself.
Spec == Init /\ [][Next]_vars /\ WF_vars(Next)

-----------------------------------------------------------------------------
(* Properties                                                              *)

Ended == result # "none"

States == {"PENDING", "ACTIVE", "DONE"}
Results == {"none", "OK", "NOT_FOUND", "CORRUPT_DESCRIPTOR", "OUT_OF_RANGE",
            "INVALID_ARGUMENT", "OUT_OF_MEMORY"}

FieldType ==
    [name : Texts, attributes : Seq(Attribute), offset : 0..SizeMax,
     element_size : 1..SizeMax, nested : 0..Len(header), kind : Kinds,
     element_count : 1..SizeMax, char_buffer_size : 0..SizeMax]

DescriptorType ==
    [name : Texts \cup {NoText}, size : 0..SizeMax, fields : Seq(FieldType),
     attributes : Seq(Attribute), alignment : {0} \cup PowersOfTwo]

FrameType ==
    [entry : Structs(header), fields : Seq(FieldType), offset : 0..SizeMax,
     alignment : PowersOfTwo, laid : BOOLEAN]

\* There are such sizes: nothing but calloc refuses a request.
RequestType ==
    {r \in [size : 1..SizeMax, alignment : Alignments] :
        r.size <= SizeMax - r.alignment}

\* The variables of build.c, beside those of the arena.
BuildTypeOK ==
    /\ header \in Headers
    /\ state \in [Structs(header) -> States]
    /\ table \in [Structs(header) -> DescriptorType]
    /\ stack \in Seq(FrameType)
    /\ requests \in Seq(RequestType)
    /\ root \in 0..(Len(header) + 1)
    /\ null \in BOOLEAN
    /\ result \in Results

TypeOK == ArenaTypeOK /\ BuildTypeOK

\* Short of memory aside, a header is accepted exactly if its types are known,
\* its structures do not nest themselves and fit, and its attributes are right.
AcceptsExactly ==
    Ended /\ ~starved => (result = "OK" <=> WellFormed(header))

\* What is accepted lies where the ABI puts it, whatever the order in which
\* the structures were built.
LaidOutAsDeclared ==
    result = "OK" =>
        \A i \in Structs(header) :
            /\ table[i].size = Types(header)[i].size
            /\ table[i].alignment = Types(header)[i].alignment
            /\ Len(table[i].fields) = Len(header[i].fields)
            /\ \A k \in Fields(header, i) :
                  table[i].fields[k].offset + FieldSize(table[i].fields[k])
                      = Extents(header, Types(header), i)[k].end

\* What is built passes the validation that every use begins with.
BuiltValid ==
    result = "OK" /\ NoOneByte(header) =>
        \A i \in Structs(header) : validate(table, i) = "OK"

\* The call comes to an end, and if it fails its memory is given back.
Ends == <>(result # "none" /\ (result = "OK" \/ blocks = {}))
=============================================================================
