------------------------------ MODULE MCRegistry -----------------------------
EXTENDS Registry, TLC

CONSTANTS s1, s2, s3, d1, d2, c1, c2, t1, t2

D(name, names, nested, verdict) ==
    [name |-> name, names |-> names, nested |-> nested, verdict |-> verdict]

MCNames == {"a", "b", "long"}

\* s2 is nested in s1 and in what users build; validation refuses s3.
MCStaticContent ==
    s1 :> D("a", <<"a", "b">>, <<s2>>, "OK")
    @@ s2 :> D("b", <<"b">>, <<>>, "OK")
    @@ s3 :> D("long", <<"a">>, <<s2>>, "CORRUPT_DESCRIPTOR")

MCStaticTable == <<s1, s2>>

MCLocals == {D("b", <<"b", "a">>, <<s1, s2>>, "OK")}

\* A nested structure that comes second and a name that is too long for the
\* table; two fields of one name; two structures of one name.
MCHeaders ==
    {<<D("a", <<"b", "long">>, <<2>>, "OK"), D("b", <<"a">>, <<>>, "OK")>>,
     <<D("b", <<"a", "a">>, <<>>, "OK")>>,
     <<D("a", <<"a">>, <<>>, "OK"), D("a", <<"b">>, <<>>, "OK")>>}

\* Addresses and handles are only told apart.
MCSymmetry == Permutations({d1, d2}) \cup Permutations({c1, c2})
=============================================================================
