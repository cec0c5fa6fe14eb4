--------------------------- MODULE MCRomajiTyping ---------------------------
(* The entries of romaji_table.cpp that the keys of the runs can spell.    *)
EXTENDS RomajiTyping

MCTable ==
  [s \in {<<"a">>} |-> <<"A">>] @@ (<<"u">> :> <<"U">>)
    @@ (<<"k", "a">> :> <<"KA">>) @@ (<<"k", "u">> :> <<"KU">>)
    @@ (<<"s", "a">> :> <<"SA">>) @@ (<<"s", "u">> :> <<"SU">>)
    @@ (<<"t", "a">> :> <<"TA">>) @@ (<<"t", "u">> :> <<"TSU">>)
    @@ (<<"t", "s", "u">> :> <<"TSU">>) @@ (<<"t", "s", "a">> :> <<"TSU", "a_">>)
    @@ (<<"n", "a">> :> <<"NA">>) @@ (<<"n", "u">> :> <<"NU">>)
    @@ (<<"n", "n">> :> <<"NN">>) @@ (<<"n", "'", "a">> :> <<"NN", "A">>)
    @@ (<<"n", "'", "y", "a">> :> <<"NN", "YA">>)
    @@ (<<"y", "a">> :> <<"YA">>) @@ (<<"y", "u">> :> <<"YU">>)
    @@ (<<"k", "y", "a">> :> <<"KI", "ya_">>) @@ (<<"n", "y", "a">> :> <<"NI", "ya_">>)
    @@ (<<"t", "y", "a">> :> <<"TI", "ya_">>)

MCLower == [c \in {"K"} |-> "k"]

MCConversion == [b \in BoundedSeq(Keys, MaxText) |-> ConvertRomajiToHiragana(b)]

MCGlyphs ==
  Keys \cup {N, SmallTsu, Hatsuon}
    \cup UNION {{MCTable[s][i] : i \in DOMAIN MCTable[s]} : s \in DOMAIN MCTable}
=============================================================================
