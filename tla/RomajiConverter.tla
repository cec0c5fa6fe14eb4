--------------------------- MODULE RomajiConverter ---------------------------
(***************************************************************************)
(* composition::Converter: the conversion of a romaji buffer into kana.    *)
(*                                                                         *)
(* The loop of convertRomajiToHiragana is a left fold: a pass consumes one *)
(* or more characters and appends to `confirmed`, or to `composing` once   *)
(* something unfinished stands there.  The table is a constant, so that a  *)
(* run takes the part of romaji_table.cpp its alphabet can spell.          *)
(***************************************************************************)
EXTENDS Integers, SequencesExt

CONSTANTS
  Table,       \* kEntries: romaji spelling -> kana
  Lower,       \* upper or full-width letter -> lower-case letter
  Vowels, N, Y, Apostrophe,
  SmallTsu,    \* what a doubled consonant leaves
  Hatsuon      \* what a syllabic n leaves

MaxLookahead == 4   \* kMaxLookahead

Norm(ch) == IF ch \in DOMAIN Lower THEN Lower[ch] ELSE ch
Rest(s, i) == [j \in 1 .. Len(s) - i + 1 |-> Norm(s[i + j - 1])]

(* appendConvertedText *)
Append2(r, kana) ==
  IF r.composing = <<>> THEN [r EXCEPT !.confirmed = @ \o kana]
                        ELSE [r EXCEPT !.composing = @ \o kana]

SokuonOfAny(s, i) == i < Len(s) /\ Norm(s[i]) = Norm(s[i + 1]) /\ Norm(s[i]) # N  \* mutant
(* handleSokuon: the same character twice, whatever the character is. *)
IsSokuon(s, i) ==
  /\ i < Len(s)
  /\ Norm(s[i]) = Norm(s[i + 1])
  /\ Norm(s[i]) \notin Vowels \cup {N}

(* handleN: an n before a vowel or y is left to the table. *)
IsPendingN(s, i) == Norm(s[i]) = N /\ i = Len(s)
IsHatsuon(s, i) ==
  /\ Norm(s[i]) = N /\ i < Len(s)
  /\ Norm(s[i + 1]) \notin Vowels \cup {Y}
HatsuonLengthTwo(s, i) == 2                                        \* mutant
HatsuonLength(s, i) == IF Norm(s[i + 1]) \in {N, Apostrophe} THEN 2 ELSE 1

(* matchTrie: the spellings that start at i, and whether all that is left  *)
(* could still become one.                                                 *)
Matches(s, i) ==
  {n \in 1 .. MaxLookahead : n <= Len(s) - i + 1 /\ SubSeq(Rest(s, i), 1, n) \in DOMAIN Table}
IsPending(s, i) ==
  \E spelling \in DOMAIN Table : IsStrictPrefix(Rest(s, i), spelling)

Spelling(s, i) == SubSeq(Rest(s, i), 1, Max(Matches(s, i)))

(* One pass of the loop of convertRomajiToHiragana. *)
Pass(s, r) ==
  LET i == r.index
      take(n, t) == [t EXCEPT !.index = i + n]
  IN CASE IsSokuon(s, i)      -> take(1, Append2(r, <<SmallTsu>>))
       [] ~IsSokuon(s, i) /\ IsPendingN(s, i) ->
            take(1, [r EXCEPT !.composing = Append(@, N)])
       [] ~IsSokuon(s, i) /\ IsHatsuon(s, i) ->
            take(HatsuonLength(s, i), Append2(r, <<Hatsuon>>))
       [] OTHER ->
            IF Matches(s, i) # {}
            THEN take(Len(Spelling(s, i)), Append2(r, Table[Spelling(s, i)]))
            ELSE IF IsPending(s, i)
            THEN take(Len(s) - i + 1, [r EXCEPT !.composing = @ \o SubSeq(s, i, Len(s))])
            ELSE take(1, [r EXCEPT !.composing = Append(@, s[i])])

ConvertRomajiToHiragana(s) ==
  LET pass(r, ch) == IF r.index > Len(s) THEN r ELSE Pass(s, r)
      done == FoldLeft(pass, [index |-> 1, confirmed |-> <<>>, composing |-> <<>>], s)
  IN [confirmed |-> done.confirmed, composing |-> done.composing]

-----------------------------------------------------------------------------
(* The conversion as a grammar, with no order of the rules: what the       *)
(* characters i .. j of s may stand for, as kana or as themselves.         *)
Kana(s, i, j) ==
  LET spelling == [k \in 1 .. j - i + 1 |-> Norm(s[i + k - 1])] IN
  (IF spelling \in DOMAIN Table THEN {Table[spelling]} ELSE {})
    \cup (IF spelling \in {<<N, N>>, <<N, Apostrophe>>} THEN {<<Hatsuon>>} ELSE {})
    \cup (IF spelling = <<N>> /\ i < Len(s) THEN {<<Hatsuon>>} ELSE {})
    \cup (IF i = j /\ i < Len(s) /\ s[i] \notin Vowels /\ Norm(s[i + 1]) = Norm(s[i])
          THEN {<<SmallTsu>>} ELSE {})
Raw(s, i, j) == IF i = j THEN {<<s[i]>>, <<Norm(s[i])>>} ELSE {}

ConfirmedParses(s) ==
  LET parses[n \in 0 .. Len(s)] ==
        IF n = 0 THEN {<<>>}
        ELSE UNION {{p \o t : p \in parses[i - 1], t \in Kana(s, i, n)} : i \in 1 .. n}
  IN parses
ComposingParses(s, m) ==
  LET parses[n \in m .. Len(s)] ==
        IF n = m THEN {<<>>}
        ELSE UNION {{p \o t : p \in parses[i - 1], t \in Kana(s, i, n) \cup Raw(s, i, n)} :
                      i \in m + 1 .. n}
  IN parses[Len(s)]

IsParse(s, conversion) ==
  \E m \in 0 .. Len(s) :
    /\ conversion.confirmed \in ConfirmedParses(s)[m]
    /\ conversion.composing \in ComposingParses(s, m)
=============================================================================
