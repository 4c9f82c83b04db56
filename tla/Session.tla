-------------------------------- MODULE Session ------------------------------
(***************************************************************************)
(* An interactive session of struct-meta-sample (struct_meta_sample.c):    *)
(* the user selects a structure of a built-in catalogue or of a header     *)
(* that is parsed at once, changes an instance of it through the menus of  *)
(* patch.c, and loads and saves it as JSON (file.c) or as bytes.  At every *)
(* prompt the input may also end or be cancelled.                          *)
(*                                                                         *)
(* The calls of patch.c that are under way are a stack of frames; what a   *)
(* call returns decides how many of them end.  A line is what the parsers  *)
(* read in it.                                                             *)
(***************************************************************************)
EXTENDS Codec

CONSTANTS
    Builtin,     \* names of the built-in catalogues
    Headers,     \* paths of headers that can be parsed
    Tables,      \* the descriptors of each, by name
    Handles,     \* what catalogues of parsed headers are known by
    Lines,       \* lines that the user enters
    Paths,       \* field paths that the user enters with "patch"
    Items,       \* the JSON items of files, those within items included
    Files,       \* what the file may hold at the start
    MayFail,     \* whether allocations, opening and writing may fail
    NotNumber,   \* what a line is as a number if it is none
    MaxChanges   \* bound on the loads, saves and values entered

NoHandle == "none"
Free == "free"

IsSeq(s) == Len(s) \in Nat /\ s = [n \in 1..Len(s) |-> s[n]]

\* What the C types of a descriptor and the compiler that laid it out grant,
\* but for what validation looks at: the fields of a structure have bytes of
\* their own, and floating-point numbers are of their type's size.
IsDescriptor(table, d) ==
    /\ d.size \in Nat
    /\ IsSeq(d.fields)
    /\ \A k \in 1..Len(d.fields) :
          LET f == d.fields[k] IN
            /\ {f.offset, f.element_size, f.element_count, f.char_buffer_size}
                   \subseteq Nat
            /\ f.nested \in 0..Len(table)
            /\ f.kind = "FLOAT" => f.element_size = FloatSize
            /\ f.kind = "DOUBLE" => f.element_size = DoubleSize
            /\ \A m \in 1..Len(d.fields) \ {k} :
                  \/ f.offset + FieldSize(f) <= d.fields[m].offset
                  \/ d.fields[m].offset + FieldSize(d.fields[m]) <= f.offset

IsText(text) == text.characters \in Seq(Byte) /\ text.hex \in Seq(Byte)

IsItem(item) ==
    /\ item.type = "number" => item.number \in Int
    /\ item.type = "string" => IsText(item.string)
    /\ item.type = "array" => IsSeq(item.array)
    /\ item.type = "object" => IsSeq(item.object)

ASSUME SessionAssumption ==
    /\ NoHandle \notin Handles /\ Free \notin Headers
    /\ "" \notin Builtin \cup Headers
    /\ Builtin \cap Headers = {}
    /\ NotNumber \notin Int
    /\ MaxChanges \in Nat
    /\ \A name \in Builtin \cup Headers :
          /\ IsSeq(Tables[name])
          /\ \A i \in 1..Len(Tables[name]) :
                IsDescriptor(Tables[name], Tables[name][i])
    /\ \A line \in Lines :
          /\ line.int \in Int \cup {NotNumber} /\ line.real \in Int \cup {NotNumber}
          /\ IsText(line.text)
    /\ \A path \in Paths :
          /\ IsSeq(path)
          /\ \A n \in 1..Len(path) :
                /\ path[n] = Segment(path[n].name, path[n].index)
                /\ path[n].index \in Nat \cup {NoIndex}
    /\ \A item \in Items : IsItem(item) /\ ItemsOf(item) \subseteq Items
    /\ \A f \in Files :
          /\ f.type = "json" => f.item \in Items
          /\ f.type = "binary" => f.bytes \in Seq(Byte)

VARIABLES
    target,    \* the structure in use: catalogue, parsed (the handle of its
               \* catalogue), descriptor (0 if none is selected), instance
    catalogs,  \* by handle, the header of the catalogue there
    pending,   \* the catalogue that a structure is being selected from
    where,     \* the prompt that waits for a line
    frames,    \* calls of the editor, the innermost last
    file,      \* the file that the user loads and saves
    stdin,     \* "open" or "closed"
    raw,       \* a binary file has been read into the instance
    changes    \* loads, saves and values entered so far

vars == <<target, catalogs, pending, where, frames, file, stdin, raw, changes>>

Select(catalog, parsed, descriptor, instance) ==
    [catalog |-> catalog, parsed |-> parsed, descriptor |-> descriptor,
     instance |-> instance]
NoTarget == Select("", NoHandle, 0, <<>>)

Selected == target.descriptor # 0
Table == Tables[target.catalog]
Size == Table[target.descriptor].size

\* The prompt shows up and the line is entered.
Enters(line, prompt) == where = prompt /\ stdin = "open" /\ line \in Lines
Commands == where = "main" /\ stdin = "open"

-----------------------------------------------------------------------------
(* init                                                                    *)

\* A plausible bug: the catalogue is forgotten.
Destroyed_Never(handle) == catalogs

\* struct_meta_catalog_destroy.
Destroyed(handle) ==
    IF handle = NoHandle THEN catalogs ELSE [catalogs EXCEPT ![handle] = Free]

\* cmd_init until it asks for a structure.  A name that is not built in is a
\* header; one that cannot be parsed leaves all as it was.
cmd_init(name) ==
    /\ Commands
    /\ \/ /\ name \in Builtin
          /\ pending' = Select(name, NoHandle, 0, <<>>)
          /\ UNCHANGED catalogs
       \/ /\ name \in Headers
          /\ \E h \in Handles :
                /\ catalogs[h] = Free
                /\ catalogs' = [catalogs EXCEPT ![h] = name]
                /\ pending' = Select(name, h, 0, <<>>)
    /\ where' = "select"
    /\ UNCHANGED <<target, frames, file, stdin, raw, changes>>

\* The rest of cmd_init when nothing is selected.
KeepTarget ==
    /\ catalogs' = Destroyed(pending.parsed)
    /\ UNCHANGED <<target, raw>>

ReplaceTarget(i) ==
    /\ catalogs' = Destroyed(target.parsed)
    /\ target' = [pending EXCEPT !.descriptor = i,
                     !.instance = [b \in 1..Tables[pending.catalog][i].size |-> 0]]
    /\ raw' = FALSE

\* The structure that a line selects in select_descriptor, 0 if none.
Chosen(table, line) ==
    LET named == {i \in 1..Len(table) : table[i].name = line.name}
    IN  IF line.int # NotNumber
        THEN IF line.int \in 1..Len(table) THEN line.int ELSE 0
        ELSE IF named = {} THEN 0 ELSE CHOOSE i \in named : TRUE

select_descriptor(line) ==
    LET i == Chosen(Tables[pending.catalog], line)
    IN  /\ Enters(line, "select")
        /\ i # 0
        /\ ReplaceTarget(i) \/ (MayFail /\ KeepTarget)
        /\ pending' = NoTarget
        /\ where' = "main"
        /\ UNCHANGED <<frames, file, stdin, changes>>

-----------------------------------------------------------------------------
(* Files                                                                   *)

Json(item) == [type |-> "json", item |-> item]
Binary(bytes) == [type |-> "binary", bytes |-> bytes]
Missing == [type |-> "missing"]
Torn == [type |-> "torn"]       \* the beginning of a JSON text

Command == Commands /\ Selected
Counted == changes < MaxChanges /\ changes' = changes + 1

\* struct_meta_json_file_save.  The file is truncated before it is written,
\* and a failure of fclose, which writes the rest, goes unnoticed.
cmd_savejson ==
    LET json == json_encode(Table, target.descriptor, target.instance)
    IN  /\ Command
        /\ json.code = "OK"
        /\ \/ file' = Json(json.value)
           \/ MayFail /\ file' = Torn
        /\ UNCHANGED <<target, catalogs, pending, where, frames, stdin, raw>>
        /\ Counted

\* struct_meta_json_file_load, of a file that is a JSON text.  Whatever was
\* decoded before a fault stays in the instance.
cmd_loadjson ==
    LET decoded == json_decode(Table, target.descriptor, file.item)
    IN  /\ Command
        /\ file.type = "json"
        /\ target' = [target EXCEPT !.instance = AfterWrites(@, decoded.value)]
        /\ UNCHANGED <<catalogs, pending, where, frames, file, stdin, raw>>
        /\ Counted

cmd_savebin ==
    /\ Command
    /\ \E written \in IF MayFail THEN 0..Size ELSE {Size} :
          file' = Binary(SubSeq(target.instance, 1, written))
    /\ UNCHANGED <<target, catalogs, pending, where, frames, stdin, raw>>
    /\ Counted

\* The file is read into the instance, as far as there is room, before its
\* size is known.
cmd_loadbin ==
    /\ Command
    /\ file.type = "binary"
    /\ target' = [target EXCEPT !.instance = Put(@, 0, file.bytes)]
    /\ raw' = TRUE
    /\ UNCHANGED <<catalogs, pending, where, frames, file, stdin>>
    /\ Counted

-----------------------------------------------------------------------------
(* The editor: its prompts                                                 *)

Frame(kind, field, address, path) ==
    [kind |-> kind, field |-> field, address |-> address, path |-> path]
Top == frames[Len(frames)]

\* A plausible bug: the index is that of the field's name alone.
append_index_path_Not(path, index) == path

append_field_path(path, name) == Append(path, Segment(name, NoIndex))
append_index_path(path, index) == [path EXCEPT ![Len(path)].index = index]

\* patch_element: a structure has a menu, all else a value.
patch_element(field, address, path) ==
    Frame(IF field.kind = "STRUCT" THEN "struct" ELSE "scalar", field, address, path)

\* What patch_struct and patch_path_interactive call for a field.
Editor(field, address, path, whole) ==
    IF is_hex(field) /\ whole THEN Frame("hex", field, address, path)
    ELSE IF is_array(field) /\ whole THEN Frame("array", field, address, path)
    ELSE patch_element(field, address, path)

Begin(frame) ==
    /\ frames' = <<frame>>
    /\ where' = "patch"
    /\ UNCHANGED <<target, catalogs, pending, file, stdin, raw, changes>>

\* struct_meta_patch_interactive.  The root is as a field that holds it.
patch_interactive ==
    LET root == [name |-> "", kind |-> "STRUCT", nested |-> target.descriptor]
    IN  /\ Command
        /\ validate(Table, target.descriptor) = "OK"
        /\ Begin(Frame("struct", root, 0, <<>>))

\* struct_meta_patch_path_interactive.
patch_path_interactive(path) ==
    LET at == path_resolve(Table, target.descriptor, path)
    IN  /\ Command
        /\ at.code = "OK"
        /\ Begin(Editor(at.field, at.address, path, ~path_has_terminal_index(path)))

-----------------------------------------------------------------------------
(* The editor: its replies                                                 *)

Push(frame) ==
    /\ frames' = Append(frames, frame)
    /\ UNCHANGED <<target, catalogs, pending, where, file, stdin, raw, changes>>

\* The innermost call returns to its caller, which prompts again.
Return ==
    /\ frames' = Front(frames)
    /\ where' = IF Len(frames) = 1 THEN "main" ELSE "patch"

\* All calls return.
ReturnAll == frames' = <<>> /\ where' = "main"

\* find_field_by_name refuses a name that is not unique.
find_field_by_name(d, name) ==
    LET found == {k \in 1..Len(d.fields) : d.fields[k].name = name}
    IN  IF Cardinality(found) = 1 THEN CHOOSE k \in found : TRUE ELSE 0

patch_struct(line) ==
    LET d == Table[Top.field.nested]
        k == IF line.int = NotNumber THEN find_field_by_name(d, line.name)
             ELSE IF line.int \in 1..Len(d.fields) THEN line.int ELSE 0
        field == d.fields[k]
    IN  /\ Enters(line, "patch") /\ Top.kind = "struct"
        /\ k # 0
        /\ Push(Editor(field, element_address(field, Top.address, 0),
                       append_field_path(Top.path, field.name), TRUE))

\* A plausible bug: elements are as large as the whole array.
ArrayElement_Whole(index) == Top.address + index * FieldSize(Top.field)

\* The address of an element in patch_array_field.
ArrayElement(index) == Top.address + index * Top.field.element_size

patch_array_field(line) ==
    /\ Enters(line, "patch") /\ Top.kind = "array"
    /\ line.int # NotNumber /\ line.int \in 0..(Top.field.element_count - 1)
    /\ Push(patch_element(Top.field, ArrayElement(line.int),
                          append_index_path(Top.path, line.int)))

\* strtoull accepts a minus sign after a blank, and what fits after it into
\* the widest integer.
parse_unsigned_integer(line) ==
    LET values == Combinations(WordBytes)
    IN  IF line.minus \/ line.int = NotNumber \/ line.int \notin (1 - values)..(values - 1)
        THEN NotNumber ELSE line.int % values

\* The bytes that a line stands for, none if the field cannot take it.
BytesFrom(field, line) ==
    LET size == field.element_size
        unsigned == parse_unsigned_integer(line)
    IN  CASE field.kind = "SIGNED_INTEGER" ->
                IF line.int # NotNumber /\ store_signed(size, line.int)
                THEN BytesOf(line.int, size) ELSE <<>>
          [] field.kind = "UNSIGNED_INTEGER" ->
                IF unsigned # NotNumber /\ store_unsigned(size, unsigned)
                THEN BytesOf(unsigned, size) ELSE <<>>
          [] field.kind \in {"FLOAT", "DOUBLE"} ->
                IF line.real # NotNumber
                THEN BytesOf(Rounded(size, line.real), size) ELSE <<>>
          [] field.kind = "CHAR_ARRAY" ->
                IF text_fits(field, line.text)
                THEN Append(line.text.characters, NUL) ELSE <<>>

Store(bytes) ==
    /\ bytes # <<>>
    /\ target' = [target EXCEPT !.instance = Put(@, Top.address, bytes)]
    /\ Return
    /\ Counted
    /\ UNCHANGED <<catalogs, pending, file, stdin, raw>>

patch_scalar(line) ==
    /\ Enters(line, "patch") /\ Top.kind = "scalar"
    /\ Store(BytesFrom(Top.field, line))

patch_hex_array(line) ==
    /\ Enters(line, "patch") /\ Top.kind = "hex"
    /\ bytes_from_hex(Top.field.element_count, line.text)
    /\ Store(line.text.hex)

\* An empty line changes nothing and goes back.
GoBack ==
    /\ where = "patch" /\ stdin = "open"
    /\ Return
    /\ UNCHANGED <<target, catalogs, pending, file, stdin, raw, changes>>

-----------------------------------------------------------------------------
(* The end of the input                                                    *)

\* The input ends for good.
Close ==
    /\ stdin = "open"
    /\ stdin' = "closed"
    /\ UNCHANGED <<target, catalogs, pending, where, frames, file, raw, changes>>

\* The end of main.
Exit ==
    /\ where = "main"
    /\ where' = "exited"
    /\ catalogs' = Destroyed(target.parsed)
    /\ target' = NoTarget
    /\ UNCHANGED <<pending, frames, file, stdin, raw, changes>>

CancelInit ==
    /\ where = "select"
    /\ KeepTarget
    /\ pending' = NoTarget
    /\ where' = "main"
    /\ UNCHANGED <<frames, file, stdin, changes>>

\* A plausible bug: the end of the input is taken for an empty line.
Unwind_Again(code) ==
    IF Top.kind = "scalar" /\ code = "EOF" THEN UNCHANGED <<frames, where>>
    ELSE ReturnAll

\* patch_scalar reports the end of the input as an empty line.
Unwind(code) ==
    IF Top.kind = "scalar" /\ code = "EOF" THEN Return ELSE ReturnAll

CancelPatch(code) ==
    /\ where = "patch"
    /\ Unwind(code)
    /\ UNCHANGED <<target, catalogs, pending, file, stdin, raw, changes>>

\* What a prompt reports instead of a line.  A terminal may go on after an
\* end of input; CANCELED stands for all other errors, too.
Ends(code) == Exit \/ CancelInit \/ CancelPatch(code)

-----------------------------------------------------------------------------
Init ==
    /\ target = NoTarget
    /\ catalogs = [h \in Handles |-> Free]
    /\ pending = NoTarget
    /\ where = "main"
    /\ frames = <<>>
    /\ file \in Files
    /\ stdin = "open"
    /\ raw = FALSE
    /\ changes = 0

Answer(line) ==
    \/ select_descriptor(line)
    \/ patch_struct(line)
    \/ patch_array_field(line)
    \/ patch_scalar(line)
    \/ patch_hex_array(line)

Next ==
    \/ \E name \in Builtin \cup Headers : cmd_init(name)
    \/ cmd_savejson
    \/ cmd_loadjson
    \/ cmd_savebin
    \/ cmd_loadbin
    \/ patch_interactive
    \/ \E path \in Paths : patch_path_interactive(path)
    \/ \E line \in Lines : Answer(line)
    \/ GoBack
    \/ Close
    \/ Ends("EOF")
    \/ stdin = "open" /\ Ends("CANCELED")

Spec == Init /\ [][Next]_vars /\ WF_vars(stdin = "closed" /\ Ends("EOF"))

-----------------------------------------------------------------------------
(* Properties                                                              *)

\* At every prompt the target has an instance of its size or there is none
\* (sample_target), and the editor has calls under way exactly at its prompts.
TypeOK ==
    /\ where \in {"main", "select", "patch", "exited"}
    /\ stdin \in {"open", "closed"} /\ raw \in BOOLEAN /\ changes \in 0..MaxChanges
    /\ catalogs \in [Handles -> Headers \cup {Free}]
    /\ where = "patch" <=> frames # <<>>
    /\ where = "select" <=> pending.catalog # ""
    /\ Selected <=> target.catalog # ""
    /\ Len(target.instance) = IF Selected THEN Size ELSE 0
    /\ \A b \in 1..Len(target.instance) : target.instance[b] \in Byte

\* Whatever init does and wherever it is left, the target's catalogue exists,
\* and no other does that nobody is going to destroy (cmd_init, main).
CatalogsOwned ==
    LET owners == {t \in {target, pending} : t.parsed # NoHandle}
    IN  /\ {h \in Handles : catalogs[h] # Free} = {t.parsed : t \in owners}
        /\ \A t \in owners : catalogs[t.parsed] = t.catalog

\* No structure in the target has two fields of one name.
DistinctNames ==
    \A i \in Reached(Table, {target.descriptor}) :
        \A k, m \in 1..Len(Table[i].fields) :
            Table[i].fields[k].name = Table[i].fields[m].name => k = m

\* The path that the editor shows at each of its menus and prompts leads, if
\* it is entered with "patch", to the very place that is being edited
\* (patch.h: the paths that are shown can be used).
PathShowsTarget ==
    frames # <<>> /\ DistinctNames =>
        \A n \in 1..Len(frames) :
            LET frame == frames[n]
                at == resolve_path(Table, target.descriptor, frame.path)
            IN  IF frame.path = <<>> THEN n = 1 /\ frame.address = 0
                ELSE at = At("OK", frame.field, frame.address)

\* The bytes of a field at an address, all its elements or one.
Extent(field, address, whole) ==
    address..(address - 1 + IF whole \/ field.kind = "CHAR_ARRAY" THEN FieldSize(field)
                                                              ELSE field.element_size)

\* Entering a value changes no byte outside of what the prompt's path names.
EditsWhatIsShown ==
    [][where = "patch" /\ target' # target /\ DistinctNames =>
          LET at == resolve_path(Table, target.descriptor, Top.path)
          IN  /\ at.code = "OK"
              /\ \A b \in 1..Size : target'.instance[b] # target.instance[b] =>
                    b - 1 \in Extent(at.field, at.address, Top.kind = "hex")]_vars

\* The elements of a field that hold values, those of nested structures
\* included, and of all fields of a structure, by the depth that is left.
PlacesAt(nested, field, address) ==
    IF field.kind = "STRUCT" THEN nested[field.nested][address]
    ELSE {[field |-> field, address |-> address]}

PlacesOf(nested, field, base) ==
    UNION {PlacesAt(nested, field, element_address(field, base, n - 1)) :
              n \in 1..field.element_count}

PlacesIn(nested, fields, base) ==
    UNION {PlacesOf(nested, fields[k], base) : k \in 1..Len(fields)}

Places(table) ==
    LET places[depth \in Depths(table)] ==
            [i \in 1..Len(table) |-> [base \in Nat |->
                IF depth = 0 THEN {}
                ELSE PlacesIn(places[depth - 1], table[i].fields, base)]]
    IN  places

\* The bytes that belong to some value of a structure.
Covered(table, i) ==
    UNION {Extent(p.field, p.address, FALSE) : p \in Places(table)[Len(table)][i][0]}

\* The next prompt is for a command; from all others "go back" leads here.
Resting == where = "main" /\ Selected

Encoded == json_encode(Table, target.descriptor, target.instance)

\* As long as no binary file has been read, the instance can be saved as JSON,
\* and its padding, which cmd_savebin writes too, is zero: changes and loads
\* that fail halfway included.
StaysWhole ==
    Resting /\ ~raw /\ validate(Table, target.descriptor) = "OK" =>
        /\ Encoded.code = "OK"
        /\ \A b \in 1..Size :
              b - 1 \notin Covered(Table, target.descriptor) => target.instance[b] = 0

\* Keys are distinct and numbers finite, nested ones included.
Faithful(table, json) ==
    \A item \in UNION {ItemsWithin(table, json)[depth] : depth \in Depths(table)} :
        /\ item.type # "null"
        /\ item.type = "object" =>
              \A n, m \in 1..Len(item.object) :
                  item.object[n].key = item.object[m].key => n = m

\* What savejson writes, loadjson reads: into a new instance and with the same
\* JSON as the result.  (A key that two fields use, or a number that is not
\* finite and saved as null, would not come back.)
SavedLoadsBack ==
    Resting /\ Encoded.code = "OK" /\ Faithful(Table, Encoded.value) =>
        LET decoded == json_decode(Table, target.descriptor, Encoded.value)
            new == AfterWrites([b \in 1..Size |-> 0], decoded.value)
        IN  /\ decoded.code = "OK"
            /\ json_encode(Table, target.descriptor, new) = Encoded

\* What dump shows in full can be saved as JSON, binary files included.
ShownIsSavable ==
    Resting /\ print_write(Table, target.descriptor, target.instance) = "OK" =>
        Encoded.code = "OK"

\* The program exits when its input is at its end, whichever menus are open.
EofEnds == stdin = "closed" ~> where = "exited"
=============================================================================
