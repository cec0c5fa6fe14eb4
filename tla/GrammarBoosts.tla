---------------------------- MODULE GrammarBoosts ----------------------------
(***************************************************************************)
(* What the part of speech and the surface of the word before add to the   *)
(* score of a candidate: the tables of dictionary_internal.cpp.  A column  *)
(* a row does not have counts 0.                                           *)
(***************************************************************************)
LOCAL INSTANCE Integers
LOCAL INSTANCE Sequences

Column(row, partOfSpeech) == IF partOfSpeech \in DOMAIN row THEN row[partOfSpeech] ELSE 0

AfterPredicate == [Particle |-> 180, Copula |-> 40, Ending |-> 220, Modal |-> 150, Adverb |-> 60]

ContextualRows ==
  [Noun |-> [Particle |-> 220, Copula |-> 170, Ending |-> -90, Modal |-> -70,
             Adjective |-> -40, Verb |-> -30, Noun |-> -20],
   Particle |-> [Noun |-> 180, Adjective |-> 140, Verb |-> 150, Copula |-> 160,
                 Ending |-> 130, Modal |-> 90, Particle |-> -160],
   Copula |-> [Particle |-> 160, Noun |-> 90, Adverb |-> 40, Ending |-> 180,
               Modal |-> 200, Copula |-> -100],
   Ending |-> [Particle |-> 180, Adverb |-> 60, Modal |-> 210, Ending |-> -80],
   Modal |-> [Particle |-> 180, Modal |-> -100, Copula |-> -60, Ending |-> -80],
   Verb |-> AfterPredicate, Adjective |-> AfterPredicate,
   Adverb |-> [Verb |-> 140, Adjective |-> 120, Copula |-> 60, Ending |-> 80, Modal |-> 100],
   Unknown |-> [Unknown |-> 0]]

ContextualPartOfSpeechBoost(entry, before) == Column(ContextualRows[before], entry.partOfSpeech)

-----------------------------------------------------------------------------
(* Surfaces of the word before *)

Wo == <<\h3092>>
No == <<\h306E>>
Topics == {<<\h306F>>, <<\h304C>>, <<\h3082>>}                        \* ha, ga, mo
Places == {<<\h306B>>, <<\h3067>>, <<\h3078>>, <<\h3068>>}            \* ni, de, he, to
PlaceTopics == {<<\h306B, \h306F>>, <<\h3067, \h306F>>, <<\h3068, \h306F>>}
Reasons == {<<\h306E, \h3067>>, <<\h306E, \h306B>>}
Markers == {Wo} \cup Topics \cup Places \cup PlaceTopics \cup Reasons

SurfaceRow(before, surface) ==
  IF surface = Wo
  THEN [Verb |-> 260, Adjective |-> 80, Noun |-> -180, Copula |-> -220, Particle |-> -260,
        Ending |-> -180, Modal |-> -160]
  ELSE IF surface = No
  THEN [Noun |-> 220, Adjective |-> 40, Verb |-> -160, Particle |-> -220, Copula |-> -180,
        Ending |-> -180, Modal |-> -180]
  ELSE IF surface \in Topics
  THEN [Copula |-> 180, Verb |-> 120, Adjective |-> 100, Noun |-> -140, Particle |-> -220,
        Ending |-> IF before = "Verb" THEN 160 ELSE -60, Modal |-> -40]
  ELSE IF surface \in Places
  THEN [Verb |-> 140, Adjective |-> 60, Noun |-> -120, Particle |-> -180, Copula |-> -140,
        Ending |-> -140, Modal |-> -120]
  ELSE IF surface \in PlaceTopics
  THEN [Verb |-> 200, Adjective |-> 100, Copula |-> 80, Noun |-> -180, Particle |-> -240,
        Ending |-> -120, Modal |-> -80]
  ELSE IF surface \in Reasons
  THEN [Verb |-> 180, Adjective |-> 120, Copula |-> 80, Adverb |-> 40, Noun |-> -200,
        Particle |-> -260, Ending |-> -140, Modal |-> -120]
  ELSE [Unknown |-> 0]

SurfaceGrammarBoost(entry, before, surface) ==
  Column(SurfaceRow(before, surface), entry.partOfSpeech)

RawReadingGrammarBoost(reading, surface) ==
  IF surface \in Markers THEN IF Len(reading) <= 2 THEN -220 ELSE -140
  ELSE IF surface = No THEN IF Len(reading) = 1 THEN -80 ELSE -40
  ELSE 0

SyntheticReadingGrammarBoost(surface) ==
  IF surface \in Markers THEN -180 ELSE IF surface = No THEN -60 ELSE 0

(* Place names rank low unless a particle precedes them. *)
LexicalCategoryBoost(entry, before) ==
  IF entry.category # "PlaceName" \/ before = "Particle" THEN 0
  ELSE IF before = "Unknown" THEN -90
  ELSE IF before \in {"Verb", "Adjective", "Adverb", "Ending", "Modal"} THEN -70
  ELSE -30
=============================================================================
