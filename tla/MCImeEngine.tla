----------------------------- MODULE MCImeEngine -----------------------------
(***************************************************************************)
(* A small keyboard and dictionary for ImeEngine.  With n and the long     *)
(* vowel mark alone every way a conversion can go occurs: n stays pending, *)
(* becomes a kana when the next key is known, or takes two keys; a doubled *)
(* mark becomes a small tsu, with which no segment may start.              *)
(***************************************************************************)
EXTENDS EnginePromise

MCTable == <<"n", "n">> :> <<"N">>

Romaji == INSTANCE RomajiConverter WITH
  Table <- MCTable, Lower <- <<>>, Vowels <- {}, N <- "n", Y <- "y",
  Apostrophe <- "'", SmallTsu <- "tsu", Hatsuon <- "N"

MCGlyphs == {"n", "-", "!", "N", "tsu", "n1", "m1"}
MCConversion == [b \in BoundedSeq({"n", "-"}, MaxText) |-> Romaji!ConvertRomajiToHiragana(b)]

(* Two things learning can lead to: a dictionary in which the ranking of   *)
(* the mark turns round behind a learned "n1", and one whose black list    *)
(* leaves of the candidates of "N" only the one in Roman letters.          *)
AfterN1 == <<[reading |-> <<"N">>, text |-> <<"n1">>]>>
MCLexicon ==
  [d \in {"plain", "strict"} |->
     IF d = "plain"
     THEN (<<<<"N">>, <<>>>> :> <<<<"N">>, <<"n1">>>>)
            @@ (<<<<"-">>, <<>>>> :> <<<<"-">>, <<"m1">>>>)
            @@ (<<<<"-">>, AfterN1>> :> <<<<"m1">>, <<"-">>>>)
     ELSE <<<<"N">>, <<>>>> :> <<<<"n">>>>]
MCPredicted ==
  [d \in {"plain", "strict"} |->
     IF d = "plain" THEN <<"N">> :> <<<<"n1">>, <<"N">>>> ELSE <<"N">> :> <<<<"n">>>>]
=============================================================================
