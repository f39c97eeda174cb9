------------------------------ MODULE MCQuery ------------------------------
EXTENDS Query, TLC

CONSTANTS i1, i2, i3, w1, w2, x, y

\* "1" and "2" are numbers, "a" is not.
MCNumberOf == ("1" :> 1) @@ ("2" :> 2)

\* Column x has a primary key behind another index.
Ix(id, primary, on) == [id |-> id, primary |-> primary, on |-> on]
MCIndexes == {Ix(1, FALSE, x), Ix(2, TRUE, x), Ix(3, FALSE, y), Ix(4, FALSE, y)}

\* Fields without a tag at the beginning and between others, a tag with
\* options, kinds that do not come back, and an id that is exported.
Fd(name, kind, tag) == [name |-> name, kind |-> kind, tag |-> tag]
MCModels == {
  <<Fd("Id", "uint64", "plain"), Fd("Name", "string", "plain"), Fd("Pass", "string", "none"),
    Fd("Size", "float64", "plain")>>,
  <<Fd("Pass", "string", "none"), Fd("Name", "string", "plain"), Fd("Nick", "string", "options"),
    Fd("At", "struct", "plain"), Fd("Note", "string", "plain")>>,
  <<Fd("On", "other", "plain"), Fd("Age", "number", "plain"), Fd("Name", "string", "plain"),
    Fd("Hits", "uint64", "none"), Fd("Size", "uint64", "options"), Fd("Note", "string", "plain")>>}
MCValuesOf ==
  ("string" :> {"", "t"}) @@ ("float64" :> {"number", "big"}) @@ ("uint64" :> {"number", "big"})
    @@ ("struct" :> {"time"}) @@ ("number" :> {"number"}) @@ ("other" :> {"some"})

=============================================================================
