-------------------------- MODULE CandidateRanking --------------------------
(***************************************************************************)
(* What a dictionary answers: the candidates of a reading and the          *)
(* predictions for a prefix, from the default lexicon, the user database,  *)
(* the black list and the spellings of the reading itself.                 *)
(*                                                                         *)
(* `d` is a dictionary's contents, [user, black, pos, last]: the databases *)
(* and the part of speech and surface committed last.  The readings hold   *)
(* no digits, so the numerals, dates and prices that are offered for them  *)
(* are left out.                                                           *)
(***************************************************************************)
EXTENDS UserDb, GrammarBoosts

CONSTANTS
  DefaultEntries,   \* the lexicon, as DefaultDb has loaded it
  KanaToRomaji,     \* one kana, or two with a small one -> letters
  ExactLimit        \* how many candidates a reading has at most

ASSUME RankingAssumption ==
  /\ DefaultEntries \in Seq([reading : Seq(Nat) \ {<<>>}, text : Seq(Nat) \ {<<>>},
                             score : 0 .. MaxScore, partOfSpeech : DOMAIN ContextualRows,
                             category : {"None", "PlaceName", "CurrencyCode", "CurrencySymbol"}])
  /\ \A kana \in DOMAIN KanaToRomaji : Len(kana) \in 1 .. 2 /\ KanaToRomaji[kana] \in Seq(Nat) \ {<<>>}
  /\ ExactLimit \in Nat \ {0}

DefaultDb == BuildTrie(DefaultEntries)

-----------------------------------------------------------------------------
(* Spellings *)

SmallTsu == \h3063
SmallHiragana == {\h3083, \h3085, \h3087, \h3041, \h3043, \h3045, \h3047, \h3049}
Xtsu == <<120, 116, 115, 117>>

ToKatakana(reading) ==
  [i \in DOMAIN reading |->
     IF reading[i] \in \h3041 .. \h3096 THEN reading[i] + \h60 ELSE reading[i]]

(* A small tsu doubles the first letter of what follows it. *)
ToRomaji(reading) ==
  LET spelled[i \in 1 .. Len(reading) + 1] ==
        [sokuon \in BOOLEAN |->
           IF i > Len(reading) THEN IF sokuon THEN Xtsu ELSE <<>>
           ELSE IF reading[i] = SmallTsu THEN spelled[i + 1][TRUE]
           ELSE LET two == SubSeq(reading, i, i + 1)
                    isDigraph == i < Len(reading) /\ reading[i + 1] \in SmallHiragana
                                   /\ two \in DOMAIN KanaToRomaji
                    unit == IF isDigraph THEN two ELSE <<reading[i]>>
                IN IF unit \in DOMAIN KanaToRomaji
                   THEN LET letters == KanaToRomaji[unit]
                        IN (IF sokuon THEN <<letters[1]>> ELSE <<>>)
                             \o letters \o spelled[i + Len(unit)][FALSE]
                   ELSE unit \o spelled[i + 1][FALSE]]
  IN spelled[1][FALSE]

-----------------------------------------------------------------------------
(* Candidates *)

IsBlockedSwapped(d, reading, text) == <<text, reading>> \in d.black   \* mutant
IsBlocked(d, reading, text) == <<reading, text>> \in d.black

EntryBoost(d, entry, pos, surface) ==
  ContextualPartOfSpeechBoost(entry, pos) + SurfaceGrammarBoost(entry, pos, surface)
    + LexicalCategoryBoost(entry, pos) + ContextScore(d.user, surface, entry.reading, entry.text)

LengthBoost(reading, prefix) ==
  (IF Len(reading) = Len(prefix) THEN 120 ELSE 0) - 8 * (Len(reading) - Len(prefix))

Candidate(text, reading, score) == [text |-> text, reading |-> reading, score |-> score]

(* `found` holds entries, each with what is added to its score. *)
EntryCandidates(d, found) ==
  {Candidate(f[1].text, f[1].reading, Wrapped(f[1].score + f[2])) :
     f \in {g \in found : ~IsBlocked(d, g[1].reading, g[1].text)}}

RawCandidate(d, reading, score) ==
  IF reading = <<>> \/ IsBlocked(d, reading, reading) THEN {}
  ELSE {Candidate(reading, reading, score)}

(* Offered whatever the black list says of them. *)
SyntheticCandidates(d, reading, surface) ==
  IF reading = <<>> THEN {}
  ELSE LET boost == SyntheticReadingGrammarBoost(surface)
       IN {Candidate(ToRomaji(reading), reading, -10 + boost),
           Candidate(ToKatakana(reading), reading, -20 + boost)}

(* appendUniqueCandidate: of candidates that differ in nothing but their   *)
(* score the best.                                                         *)
Unique(offered) ==
  {c \in offered : \A o \in offered : o.text = c.text /\ o.reading = c.reading => o.score <= c.score}

SortAndTrim(offered, limit) == FirstOf(Ranked([c \in offered |-> c]), limit)

At(trie, indices) == {trie.entries[i] : i \in indices}

BuildExactCandidates(d, reading, pos, surface) ==
  LET found == At(DefaultDb, Exact(DefaultDb, reading)) \cup At(d.user, Exact(d.user, reading))
      boosted == {<<e, EntryBoost(d, e, pos, surface)>> : e \in found}
  IN SortAndTrim(Unique(EntryCandidates(d, boosted)
                          \cup RawCandidate(d, reading, RawReadingGrammarBoost(reading, surface))
                          \cup SyntheticCandidates(d, reading, surface)), ExactLimit)

PredictedCandidates(d, prefix, limit, pos, surface) ==
  LET found == At(DefaultDb, ToSet(TopPredictions(DefaultDb, prefix, limit)))
                 \cup At(d.user, ToSet(TopPredictions(d.user, prefix, limit)))
      boosted == {<<e, LengthBoost(e.reading, prefix) + EntryBoost(d, e, pos, surface)>> : e \in found}
  IN Unique(EntryCandidates(d, boosted)
              \cup RawCandidate(d, prefix, 50 + RawReadingGrammarBoost(prefix, surface))
              \cup SyntheticCandidates(d, prefix, surface))

BuildPredictionCandidates(d, prefix, limit, pos, surface) ==
  SortAndTrim(PredictedCandidates(d, prefix, limit, pos, surface), limit)

(* lookupPartOfSpeech: of the first entry with this text, the user's       *)
(* before the lexicon's.                                                   *)
LookupPartOfSpeech(d, reading, text) ==
  LET first(trie) == IndexOf(trie, reading, text)
      of(trie) == IF first(trie) = 0 THEN "Unknown" ELSE trie.entries[first(trie)].partOfSpeech
  IN IF of(d.user) # "Unknown" THEN of(d.user) ELSE of(DefaultDb)

-----------------------------------------------------------------------------
(* What the engine makes of predictions *)

PredictionLimit(reading) ==
  IF Len(reading) <= 1 THEN 4 ELSE IF Len(reading) <= 2 THEN 5
  ELSE IF Len(reading) <= 4 THEN 6 ELSE 8

Kana == (\h3041 .. \h3096) \cup {\h30FC}
Katakana == (\h30A1 .. \h30FA) \cup {\h30FC}
Letters == (65 .. 90) \cup (97 .. 122)

(* shouldDemoteFallbackPrediction *)
IsFallback(reading, c) ==
  \/ c.text = reading
  \/ ToSet(reading) \subseteq Kana /\ (ToSet(c.text) \subseteq Letters \/ ToSet(c.text) \subseteq Katakana)

(* The items that are fallbacks, or those that are none, in their order. *)
Those(items, reading, areFallbacks) ==
  FoldLeft(LAMBDA some, c : IF IsFallback(reading, c) = areFallbacks THEN Append(some, c) ELSE some,
           <<>>, items)

ReorderFallbackPredictions(reading, pos, surface, items) ==
  IF surface = <<>> \/ pos \notin {"Particle", "Copula", "Ending", "Modal"} THEN items
  ELSE Those(items, reading, FALSE) \o Those(items, reading, TRUE)

Predictions(d, reading, pos, surface) ==
  ReorderFallbackPredictions(reading, pos, surface,
    BuildPredictionCandidates(d, reading, PredictionLimit(reading), pos, surface))
=============================================================================
