----------------------------- MODULE MCLearning -----------------------------
(***************************************************************************)
(* A handful of words: "ha" the particle, "hana" the flower, "hanasu" to   *)
(* speak, and "cha" the tea, whose small "ya" must not begin a segment.    *)
(* "ocha" is not in the lexicon: once learned it has no part of speech,    *)
(* and "ochaha" is cut between the two although the learned word scores    *)
(* more than its parts.  An earlier session has learned a text under two   *)
(* readings of one length, two words that tie, and only one of them finds  *)
(* room in the list of the node above them.  Scores are those of the       *)
(* source in a smaller range: a commit adds 1000, the fourth one reaches   *)
(* the maximum, and the largest integer leaves the room the boosts need.   *)
(***************************************************************************)
EXTENDS Learning

Ha == \h306F
Na == \h306A
Su == \h3059
O == \h304A
Chi == \h3061
SmallYa == \h3083

Flower == <<\h82B1>>
Speak == <<\h8A71, Su>>
Tea == <<\h8336>>

Entry(reading, text, score, partOfSpeech, category) ==
  [reading |-> reading, text |-> text, score |-> score,
   partOfSpeech |-> partOfSpeech, category |-> category]

MCDefaultEntries ==
  <<Entry(<<Ha, Na, Su>>, Speak, 300, "Verb", "None"),
    Entry(<<Ha, Na>>, Flower, 200, "Noun", "None"),
    Entry(<<Ha>>, <<Ha>>, 320, "Particle", "None"),
    Entry(<<Chi, SmallYa>>, Tea, 100, "Noun", "None")>>

MCKanaToRomaji ==
  <<Ha>> :> <<104, 97>> @@ <<Na>> :> <<110, 97>> @@ <<Su>> :> <<115, 117>>
    @@ <<O>> :> <<111>> @@ <<Chi>> :> <<99, 104, 105>> @@ <<Chi, SmallYa>> :> <<99, 104, 97>>

MCReadings == {<<Ha>>, <<Ha, Na>>, <<O, Chi, SmallYa>>, <<O, Chi, SmallYa, Ha>>}
MCTexts == {Flower, Speak, ToKatakana(<<O, Chi, SmallYa>>)}

Kept(reading, text, score) == Entry(reading, text, score, "Unknown", "None")

MCStartFiles ==
  {[entries |-> <<>>, contexts |-> <<>>],
   [entries |-> <<Kept(<<Ha, Na, Su>>, Speak, 4000), Kept(<<Ha, Na>>, Flower, 3000),
                  Kept(<<Ha, Su>>, Flower, 3000)>>, contexts |-> <<>>]}
=============================================================================
