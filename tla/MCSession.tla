------------------------------ MODULE MCSession ------------------------------
EXTENDS Session

Attribute(key, value) == [key |-> key, value |-> value]

Field(name, kind, offset, size, count) ==
    [name |-> name, kind |-> kind, offset |-> offset, element_size |-> size,
     element_count |-> count, char_buffer_size |-> 0, nested |-> NoNested,
     attributes |-> <<>>]
TextField(name, offset, size) ==
    [Field(name, "CHAR_ARRAY", offset, size, 1) EXCEPT !.char_buffer_size = size]
StructField(name, offset, size, count, nested) ==
    [Field(name, "STRUCT", offset, size, count) EXCEPT !.nested = nested]
With(field, key, value) == [field EXCEPT !.attributes = <<Attribute(key, value)>>]

Descriptor(name, size, fields) ==
    [name |-> name, size |-> size, fields |-> fields, attributes |-> <<>>]

\* A required number and a text; an array of structures and a number that
\* JSON leaves out; bytes in hexadecimal; padding before a wide
\* number; keys and names that are not unique.
MCTables ==
    [sample |-> <<
        Descriptor("In", 3,
            <<With(Field("v", "SIGNED_INTEGER", 0, 1, 1), "json.required", NoText),
              TextField("t", 1, 2)>>),
        Descriptor("Out", 7,
            <<StructField("s", 0, 3, 2, 1),
              With(TextField("w", 6, 1), "json.ignore", NoText)>>),
        Descriptor("Hex", 2,
            <<With(Field("h", "UNSIGNED_INTEGER", 0, 1, 2), "meta.format", "hex")>>)>>,
     header |-> <<
        Descriptor("Num", 4,
            <<Field("f", "FLOAT", 0, 1, 1), Field("u", "UNSIGNED_INTEGER", 2, 2, 1)>>),
        Descriptor("Keys", 3,
            <<Field("b", "SIGNED_INTEGER", 0, 1, 1),
              Field("b", "SIGNED_INTEGER", 1, 1, 1),
              With(Field("a", "UNSIGNED_INTEGER", 2, 1, 1), "json.name", "b")>>)>>]

NoName == "no name"
Line(name, int, real, minus, text) ==
    [name |-> name, int |-> int, real |-> real, minus |-> minus, text |-> text]
Digits(n, minus, characters) == Line(NoName, n, n, minus, Text(characters, NotHex))

\* "0", "1", "2", "-1", " -1", a number too wide, names, "inf" and "01 03".
MCLines ==
    {Digits(0, FALSE, <<1>>), Digits(1, FALSE, <<1>>), Digits(2, FALSE, <<2>>),
     Digits(-1, TRUE, <<3, 1>>), Digits(-1, FALSE, <<1, 3, 1>>),
     Digits(17, FALSE, <<1, 3, 3>>),
     Line("inf", NotNumber, 100, FALSE, Text(<<3, 3, 3>>, NotHex)),
     Line("01 03", NotNumber, NotNumber, FALSE, Text(<<1, 1, 1, 1, 3>>, <<1, 3>>))}
    \cup {Line(n, NotNumber, NotNumber, FALSE, Text(<<3>>, NotHex)) :
             n \in {"b", "Hex", "Keys"}}

MCPaths == {<<Segment("s", 1), Segment("t", NoIndex)>>, <<Segment("s", NoIndex)>>,
            <<Segment("s", NoIndex), Segment("v", NoIndex)>>,
            <<Segment("s", 2)>>, <<Segment("h", NoIndex)>>, <<Segment("h", 1)>>,
            <<Segment("u", NoIndex)>>, <<Segment("v", 0)>>}

Str(characters) == String(Text(characters, NotHex))
Hexa(bytes) == String(Text(<<1>>, bytes))

\* JSON texts that suit some structure, or fail at the first, a later or a
\* nested value.
MCTexts ==
    {Object(<<Member("v", Number(-2)), Member("t", Str(<<2>>))>>),
     Object(<<Member("v", Number(1)), Member("t", Str(<<2, 2>>))>>),
     Object(<<Member("t", Str(<<2>>))>>),
     Object(<<Member("s", Array(<<Object(<<Member("v", Number(1))>>),
                                  Object(<<Member("v", Number(2))>>)>>))>>),
     Object(<<Member("h", Hexa(<<2>>)), Member("f", Number(7)),
              Member("u", Str(<<1>>))>>),
     Object(<<Member("b", Number(1)), Member("s", Array(<<>>))>>),
     Array(<<>>)}
MCItems == UNION {UNION {ItemsWithin(MCTables.sample, text)[depth] : depth \in 0..3} :
                     text \in MCTexts}

\* Besides, bytes with a text that has no NUL.
MCFiles ==
    {Missing, Torn, Binary(<<3, 2, 1, 2, 0, 0, 1>>)} \cup {Json(text) : text \in MCTexts}
=============================================================================
