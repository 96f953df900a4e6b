---------------------------- MODULE MCConversions ---------------------------
(* Conversions on small inputs. *)
EXTENDS Conversions

Singles(S) == {<<x>> : x \in S}

TextPieces == {<<"'">>, <<"q">>, <<"-">>, <<"/">>, <<"*">>, <<"\n">>, <<";">>, <<"a">>,
    <<"q", "'", "{">>, <<"}", "'">>, <<" ", "-", "-">>, <<"@", "a">>, <<"s", " ", "/", ";">>}
WordPieces == Singles({"commit", "rollback", "work", "retain", "snapshot", "to", "set", "transaction", "autoddl", "on",
    "reconnect", "x", "read", "committed", "version", "lock", "timeout", "5", "wait", "table"})
ListPieces == Singles({Item("star", "", ""), Item("tableStar", "a", ""), Item("tableStar", "b", ""),
    Item("expr", "", "e"), Item("column", "a", "x"), Item("column", "b", "z")})

\* Every type, null or not, and runs that fill and overflow the bytes of the bitmap.
Run(n) == [i \in 1 .. n |-> Cell("SHORT", 0, 0, i % 2 = 0)]
CellPieces == Singles({Cell(type, 5, 3, null) : type \in Types \cup {"NULL"}, null \in BOOLEAN}
        \cup {Cell(type, 5, len, FALSE) : type \in {"TEXT", "VARYING", "NULL"}, len \in {0, 5, 6}})
    \cup {Run(7), Run(8), Run(31)}

ValuesBound == {Value("null", 0), Value("string", 3), Value("digits", 20), Value("buffer", 5), Value("boolean", 4),
    Value("boolean", 5), Value("int", 0), Value("safe", 0), Value("double", 0), Value("huge", 0), Value("zoned", 0),
    Value("date", 0), Value("lazyBlob", 0), Value("stream", 0)}
ParamPieces == Singles({<<value, type>> : value \in ValuesBound, type \in {"VARYING", "BLOB", "DEC16", "INT128"}}
    \cup {<<Value("string", n), "VARYING">> : n \in {65535, 65536}})

MCPieces == [
    text |-> TextPieces, words |-> WordPieces, list |-> ListPieces, row |-> CellPieces, params |-> ParamPieces,
    numeral |-> Singles({"-", "0", "1", "5", "9", "."}) \cup {<<"e", "2">>, <<"e", "-", "2">>},
    coefficient |-> Singles({0, 4, 5, 8, 9}),
    bytes |-> Singles(1 .. 4), output |-> Singles(1 .. 4),
    hour |-> Singles(-60 .. 100),
    zone |-> Singles({0, 1, 59, 60, 1379, 1409, 1438, 1439, 1440, 1499, 2878, 2879, 40000, 64898, 64899, 65534, 65535})]
MCMost == [text |-> 4, words |-> 3, list |-> 4, row |-> 2, params |-> 2, numeral |-> 5, coefficient |-> 6,
    bytes |-> 5, output |-> 4, hour |-> 1, zone |-> 1]

\* A zone that changes in the small hours, one that changes at midnight, one that never does.
MCZones == {[offset |-> 0, from |-> 25, to |-> 49], [offset |-> -3, from |-> 27, to |-> 75], [offset |-> 5, from |-> 0, to |-> 0]}
=============================================================================
