------------------------------- MODULE MCBuild -------------------------------
EXTENDS Build, TLC

MCLayoutTypes ==
    "char" :> [kind |-> "SIGNED_INTEGER", size |-> 1, alignment |-> 1]
    @@ "uint8_t" :> [kind |-> "UNSIGNED_INTEGER", size |-> 1, alignment |-> 1]
    @@ "short" :> [kind |-> "SIGNED_INTEGER", size |-> 2, alignment |-> 2]
    @@ "double" :> [kind |-> "DOUBLE", size |-> 8, alignment |-> 8]

F(type_name, is_struct_type, array_count, attributes) ==
    [name |-> "f", brief |-> NoText, type_name |-> type_name,
     is_struct_type |-> is_struct_type, array_count |-> array_count,
     attributes |-> attributes]

S(name, fields) ==
    [name |-> name, brief |-> "brief", attributes |-> <<>>, fields |-> fields]

Bytes == <<[key |-> "meta.kind", value |-> "bytes"]>>
Hex == <<[key |-> "note", value |-> NoText],
         [key |-> "meta.format", value |-> "hex"]>>

\* Scalars, arrays, texts and bytes, right and wrong attributes, unknown types
\* and structures, and arrays that do not fit.
Plain == {F("short", FALSE, 0, <<>>), F("double", FALSE, 0, <<>>),
          F("double", FALSE, 5, <<>>), F("long", FALSE, 0, <<>>),
          F("char", FALSE, 3, <<>>), F("char", FALSE, 0, Bytes),
          F("char", FALSE, 2, Bytes), F("char", FALSE, 1, Bytes),
          F("uint8_t", FALSE, 3, Hex), F("short", FALSE, 2, Hex)}
Structured == {F("A", TRUE, 0, <<>>), F("B", TRUE, 2, <<>>), F("C", TRUE, 0, <<>>)}

UpTo2(set) == {<<f>> : f \in set} \cup (set \X set)

\* Two structures that may nest one another, and three in every shape.
MCHeaders ==
    {<<>>, <<S("A", <<>>)>>, <<S("A", <<F("B", TRUE, 2, <<>>)>>), S("B", <<>>)>>}
    \cup {<<S("A", fs), S("B", gs)>> :
             fs \in UpTo2(Plain \cup Structured),
             gs \in {<<F("short", FALSE, 0, <<>>)>>,
                     <<F("A", TRUE, 0, <<>>), F("char", FALSE, 3, <<>>)>>,
                     <<F("double", FALSE, 2, <<>>), F("short", FALSE, 0, <<>>)>>}}
    \cup {<<S("A", fs), S(b, gs), S("C", hs)>> :
             b \in {"B", "A"},
             fs \in UpTo2(Structured \cup {F("short", FALSE, 0, <<>>)}),
             gs \in UpTo2(Structured \cup {F("char", FALSE, 3, <<>>)}),
             hs \in {<<F("short", FALSE, 3, <<>>)>>, <<F("A", TRUE, 0, <<>>)>>,
                     <<F("double", FALSE, 1, <<>>)>>}}

MCTextSize ==
    [t \in {"f", "A", "B", "C", "brief", "bytes", "hex", "note", "meta.kind",
            "meta.format"} |-> IF t = "brief" THEN 21 ELSE 3]

MCSizeOf == [entry |-> 8, descriptor |-> 8, pointer |-> 4, field |-> 16,
             attribute |-> 16]
=============================================================================
