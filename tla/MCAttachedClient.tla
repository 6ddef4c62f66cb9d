--------------------------- MODULE MCAttachedClient ---------------------------
(* AttachedClient with short limits, short names and files. *)
EXTENDS AttachedClient

MCNames == {<<45, 57>>}
MCTable == {{}, {<<45, 57>>, <<97>>}, {<<97>>, <<98>>}}
MCPiece == {5}
(* An e with an accent and a letter, and more than any limit. *)
MCText == {<<195, 169, 98>>, <<98, 195, 169, 195, 169, 98, 195, 169>>}
MCProbe == {0, 1, 2, 129, 255}

Pair(key, value) == [shape |-> "pair", long |-> FALSE, key |-> key, value |-> value]
Other(shape) == [shape |-> shape, long |-> FALSE, key |-> "", value |-> ""]
Hex(a, b, c) == <<"hash", a, b, c, "hex", "hex", "hex">>
MCNamedColor == {<<"red">>}
MCLine ==
    {Pair("theme", "nord"), Pair("theme", "none"), Pair("status", <<"red">>),
     Pair("status", Hex("hex", "hex", "hex")), Pair("status", Hex("plus", "hex", "hex")),
     Pair("status", Hex("hex", "lead", "cont")), Pair("foreground", Hex("lead", "cont", "hex")),
     Pair("foreground", Hex("hex", "other", "hex")), Pair("foreground", <<"hash", "hex">>),
     Pair("screensaver", "cat-play"), Pair("idle_seconds", 10),
     Pair("idle_seconds", 3601), Pair("unknown", ""), Other("blank"), Other("bare"),
     [Other("blank") EXCEPT !.long = TRUE]}
MCFile ==
    {[kind |-> "text", lines |-> lines] : lines \in UNION {[1..n -> MCLine] : n \in 0..3}} \cup
    {[kind |-> k] : k \in {"absent", "unreadable", "directory", "large", "grown", "not_utf8"}}
==============================================================================
