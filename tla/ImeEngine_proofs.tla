--------------------------- MODULE ImeEngine_proofs ---------------------------
(***************************************************************************)
(* The engine is correct for every alphabet, conversion table, dictionary  *)
(* and bound.  IInv is the inductive invariant; before it comes what every *)
(* private method of the engine does to a record that satisfies its parts, *)
(* after it one lemma for each action, and at the end the theorems about   *)
(* the properties of ImeEngine.                                            *)
(***************************************************************************)
EXTENDS ImeEngine, SequenceTheorems, WellFoundedInduction, TLAPS

-----------------------------------------------------------------------------
(* Candidate lists *)

(* A list whose highlight is inside it, or that has neither.               *)
GoodList == {list \in Lists : list.selectedIndex = 0 \/ list.selectedIndex < Len(list.items)}

(* A remainder is an index.                                                *)
LEMMA RemainderInside ==
  ASSUME NEW x \in Int, NEW n \in Nat \ {0}
  PROVE x % n \in 0 .. n - 1
  OBVIOUS

(* A good list has its highlight inside.                                   *)
LEMMA GoodListInside ==
  ASSUME NEW list \in GoodList
  PROVE HighlightInside(list)
  BY DEF GoodList, Lists, HighlightInside, HasItems

(* The empty list is good.                                                 *)
LEMMA NoCandidatesGood == NoCandidates \in GoodList /\ ~HasItems(NoCandidates)
  BY DEF NoCandidates, GoodList, Lists, HasItems

(* A list just looked up is good.                                          *)
LEMMA FreshListGood ==
  ASSUME NEW items \in Seq(Text)
  PROVE [items |-> items, selectedIndex |-> 0] \in GoodList
  BY DEF GoodList, Lists, HasItems

(* A clamped index is an index of the list.                                *)
LEMMA ClampedInside ==
  ASSUME NEW list \in Lists, HasItems(list), NEW i \in Int
  PROVE Clamped(i, list) \in 0 .. Len(list.items) - 1
  BY DEF Clamped, Lists, HasItems

(* Selecting an index of the list leaves a good list.                      *)
LEMMA SelectGood ==
  ASSUME NEW list \in Lists, NEW i \in 0 .. Len(list.items) - 1
  PROVE Select(list, i) \in GoodList
  BY DEF Select, GoodList, Lists, HasItems

(* sanitize makes any list good and keeps its items.                       *)
LEMMA SanitizeGood ==
  ASSUME NEW list \in Lists
  PROVE Sanitize(list) \in GoodList /\ Sanitize(list).items = list.items
  BY ClampedInside DEF Sanitize, GoodList, Lists, HasItems

(* sanitize does nothing to a good list.                                   *)
LEMMA SanitizeKeepsGood ==
  ASSUME NEW list \in GoodList
  PROVE Sanitize(list) = list
  BY DEF Sanitize, GoodList, Lists, HasItems, Clamped

(* The cyclic move leaves a good list with the same items.                 *)
LEMMA MoveGood ==
  ASSUME NEW list \in GoodList, NEW delta \in Int
  PROVE MoveSelection(list, delta) \in GoodList
  <1>1. CASE ~HasItems(list)
    BY <1>1 DEF MoveSelection
  <1>2. CASE HasItems(list)
    <2> DEFINE i == (list.selectedIndex + delta + Len(list.items)) % Len(list.items)
    <2>1. Len(list.items) \in Nat \ {0} /\ list.selectedIndex + delta + Len(list.items) \in Int
      BY <1>2 DEF GoodList, Lists, HasItems
    <2>2. i \in 0 .. Len(list.items) - 1
      BY ONLY <2>1, RemainderInside
    <2>3. MoveSelection(list, delta) = Select(list, i)
      BY <1>2, Zenon DEF MoveSelection, Select
    <2> HIDE DEF i
    <2>4. QED BY <2>2, <2>3, SelectGood DEF GoodList
  <1>3. QED BY <1>1, <1>2

(* The clamped move leaves a good list with the same items.                *)
LEMMA MoveClampedGood ==
  ASSUME NEW list \in GoodList, NEW delta \in Int
  PROVE MoveSelectionClamped(list, delta) \in GoodList
  <1>1. CASE ~HasItems(list)
    BY <1>1 DEF MoveSelectionClamped
  <1>2. CASE HasItems(list)
    <2> DEFINE i == Clamped(list.selectedIndex + delta, list)
    <2>1. i \in 0 .. Len(list.items) - 1
      <3>1. list \in Lists /\ list.selectedIndex + delta \in Int
        BY DEF GoodList, Lists
      <3>2. QED BY <1>2, <3>1, ClampedInside
    <2>2. MoveSelectionClamped(list, delta) = [list EXCEPT !.selectedIndex = i]
      BY <1>2 DEF MoveSelectionClamped, Select
    <2> HIDE DEF i
    <2>3. QED BY <2>1, <2>2 DEF GoodList, Lists
  <1>3. QED BY <1>1, <1>2

(* The move to an end leaves a good list with the same items.              *)
LEMMA BoundaryGood ==
  ASSUME NEW list \in GoodList, NEW last \in BOOLEAN
  PROVE SelectBoundary(list, last) \in GoodList
  BY DEF SelectBoundary, Select, GoodList, Lists, HasItems

(* The selected text of a list is a text.                                  *)
LEMMA SelectedTextType ==
  ASSUME NEW list \in GoodList, HasItems(list)
  PROVE SelectedText(list) \in Text
  BY DEF SelectedText, GoodList, Lists, HasItems

-----------------------------------------------------------------------------
(* Sequences *)

(* Replacing one element of a sequence leaves a sequence of its length.    *)
LEMMA UpdateType ==
  ASSUME NEW S, NEW s \in Seq(S), NEW i \in 1 .. Len(s), NEW x \in S
  PROVE /\ [s EXCEPT ![i] = x] \in Seq(S)
        /\ Len([s EXCEPT ![i] = x]) = Len(s)
        /\ \A j \in 1 .. Len(s) : [s EXCEPT ![i] = x][j] = IF j = i THEN x ELSE s[j]
  <1>1. [s EXCEPT ![i] = x] \in Seq(S)
    OBVIOUS
  <1>2. Len([s EXCEPT ![i] = x]) = Len(s)
    OBVIOUS
  <1>3. \A j \in 1 .. Len(s) : [s EXCEPT ![i] = x][j] = IF j = i THEN x ELSE s[j]
    OBVIOUS
  <1>4. QED BY <1>1, <1>2, <1>3

(* A slice of a text is a text.                                            *)
LEMMA SliceType ==
  ASSUME NEW S, NEW s \in Seq(S), NEW m \in Nat \ {0}, NEW n \in Nat, n <= Len(s)
  PROVE /\ SubSeq(s, m, n) \in Seq(S)
        /\ Len(SubSeq(s, m, n)) = IF m <= n THEN n - m + 1 ELSE 0
  OBVIOUS

(* Removing an element leaves a sequence shorter by one.                   *)
LEMMA RemoveAtType ==
  ASSUME NEW S, NEW s \in Seq(S), NEW i \in 1 .. Len(s)
  PROVE RemoveAt(s, i) \in Seq(S) /\ Len(RemoveAt(s, i)) = Len(s) - 1
  <1> DEFINE left == SubSeq(s, 1, i - 1)
  <1> DEFINE right == SubSeq(s, i + 1, Len(s))
  <1>1. left \in Seq(S) /\ Len(left) = i - 1
    BY SliceType
  <1>2. right \in Seq(S) /\ Len(right) = Len(s) - i
    BY SliceType
  <1>3. RemoveAt(s, i) = left \o right
    BY DEF RemoveAt
  <1> HIDE DEF left, right
  <1>4. left \o right \in Seq(S) /\ Len(left \o right) = Len(left) + Len(right)
    BY <1>1, <1>2, ConcatProperties
  <1>5. i \in Int /\ Len(s) \in Int
    OBVIOUS
  <1>6. QED BY <1>1, <1>2, <1>3, <1>4, <1>5

(* Inserting a glyph leaves a text longer by one.                          *)
LEMMA InsertAtType ==
  ASSUME NEW S, NEW s \in Seq(S), NEW i \in 1 .. Len(s) + 1, NEW x \in S
  PROVE InsertAt(s, i, x) \in Seq(S) /\ Len(InsertAt(s, i, x)) = Len(s) + 1
  <1> DEFINE left == SubSeq(s, 1, i - 1)
  <1> DEFINE right == SubSeq(s, i, Len(s))
  <1>1. left \in Seq(S) /\ Len(left) = i - 1
    BY SliceType
  <1>2. right \in Seq(S) /\ Len(right) = Len(s) - i + 1
    BY SliceType
  <1> DEFINE start == left \o <<x>>
  <1>3. InsertAt(s, i, x) = start \o right
    BY DEF InsertAt
  <1> HIDE DEF left, right
  <1>4. start \in Seq(S) /\ Len(start) = i
    BY <1>1
  <1> HIDE DEF start
  <1>5. QED BY <1>2, <1>3, <1>4, ConcatProperties

-----------------------------------------------------------------------------
(* Conversions, readings and lookups *)

(* A conversion is a pair of texts.                                        *)
LEMMA ConvertType ==
  ASSUME NEW b \in Text
  PROVE Convert(b) \in Converted
  BY ConversionAssumption DEF Convert, Converted, Text

(* The reading of a conversion is a text.                                  *)
LEMMA ReadingOfType ==
  ASSUME NEW c \in Converted
  PROVE ReadingOf(c) \in Text
  BY DEF ReadingOf, Converted, Text

(* A non-empty buffer has a non-empty reading.                             *)
LEMMA ReadingNotEmpty ==
  ASSUME NEW b \in Text, b # <<>>
  PROVE ReadingOf(Convert(b)) # <<>>
  BY ConversionAssumption DEF Convert, ReadingOf, Text

(* A lookup of candidates is a good list.                                  *)
LEMMA CandidatesType ==
  ASSUME NEW d \in Dictionaries, NEW r \in Text, NEW p
  PROVE Candidates(d, r, p) \in Seq(Text)
  BY LookupAssumption DEF Candidates

(* A lookup of predictions is a good list.                                 *)
LEMMA PredictionsType ==
  ASSUME NEW d \in Dictionaries, NEW r \in Text
  PROVE Predictions(d, r) \in Seq(Text)
  BY LookupAssumption DEF Predictions

-----------------------------------------------------------------------------
(* Texts put together *)

(* A set of natural numbers that is not empty has a smallest. *)
LEMMA LeastNumber ==
  ASSUME NEW T \in SUBSET Nat, T # {}
  PROVE \E x \in T : \A y \in T : x <= y
  <1> DEFINE R == OpToRel(<, Nat)
  <1>1. IsWellFoundedOn(R, Nat)
    BY NatLessThanWellFounded
  <1>2. \A x, y \in Nat : y < x => <<y, x>> \in R
    BY DEF OpToRel
  <1> HIDE DEF R
  <1>3. \E x \in T : \A y \in T : ~ (<<y, x>> \in R)
    BY <1>1, WFMin
  <1>4. \A x, y \in Nat : ~(y < x) => x <= y
    OBVIOUS
  <1>5. QED BY <1>2, <1>3, <1>4

(* F has at i what the first i of the texts are when put together.         *)
Spells(F, texts) ==
  /\ F \in [1 .. Len(texts) -> Text]
  /\ F = [i \in 1 .. Len(texts) |-> IF i = 1 THEN texts[i] ELSE F[i - 1] \o texts[i]]

(* There is one way to put texts together, so FlattenSeq, which is defined *)
(* as some function with this equation, is the one that is found.          *)
LEMMA FlattenIs ==
  ASSUME NEW texts, Len(texts) \in Nat \ {0}, NEW F, Spells(F, texts)
  PROVE FlattenSeq(texts) = F[Len(texts)]
  <1> DEFINE n == Len(texts)
             D == 1 .. n
             Step(f) == [i \in D |-> IF i = 1 THEN texts[i] ELSE f[i - 1] \o texts[i]]
             G == CHOOSE f : f = Step(f)
  <1>1. F = Step(F)
    BY DEF Spells
  <1>2. G = Step(G)
    BY <1>1
  <1>3. FlattenSeq(texts) = G[n]
    BY DEF FlattenSeq
  <1> HIDE DEF G
  <1>4. ASSUME NEW i \in D, F[i] # G[i] PROVE FALSE
    <2> DEFINE T == {j \in D : F[j] # G[j]}
    <2>a. T \in SUBSET Nat /\ T # {}
      BY <1>4
    <2>1. PICK j \in T : \A k \in T : j <= k
      <3> HIDE DEF T
      <3>1. QED BY <2>a, LeastNumber
    <2>2. j # 1 => F[j - 1] = G[j - 1]
      BY <2>1
    <2>3. F[j] = Step(F)[j] /\ G[j] = Step(G)[j]
      BY <1>1, <1>2
    <2>4. F[j] = G[j]
      BY <2>1, <2>2, <2>3
    <2>5. QED BY <2>1, <2>4
  <1>5. QED BY <1>3, <1>4

(* The texts put together are the whole.                                   *)
Joined(texts, whole) == \E F : Spells(F, texts) /\ F[Len(texts)] = whole

LEMMA JoinedIsFlat ==
  ASSUME NEW texts, Len(texts) \in Nat \ {0}, NEW whole, Joined(texts, whole)
  PROVE FlattenSeq(texts) = whole
  BY FlattenIs DEF Joined

(* One text is put together already.                                       *)
LEMMA OneJoined ==
  ASSUME NEW text \in Text
  PROVE Joined(<<text>>, text)
  <1> DEFINE F == <<text>>
  <1>1. Len(F) = 1 /\ F \in [1 .. 1 -> Text] /\ F[1] = text
    OBVIOUS
  <1>2. F = [i \in 1 .. 1 |-> IF i = 1 THEN F[i] ELSE F[i - 1] \o F[i]]
    BY <1>1
  <1> HIDE DEF F
  <1>3. Spells(F, F) /\ F[Len(F)] = text
    BY <1>1, <1>2 DEF Spells
  <1>4. QED BY <1>3 DEF F, Joined

(* The pieces of a cut that misses nothing are the text that was cut.      *)
LEMMA CutJoined ==
  ASSUME NEW text \in Text, NEW k \in Nat \ {0}, NEW cut \in [1 .. k + 1 -> 1 .. Len(text) + 1],
         cut[1] = 1, cut[k + 1] = Len(text) + 1,
         \A i \in 1 .. k : cut[i] <= cut[i + 1]
  PROVE Joined([i \in 1 .. k |-> SubSeq(text, cut[i], cut[i + 1] - 1)], text)
  <1> DEFINE n == Len(text)
             texts == [i \in 1 .. k |-> SubSeq(text, cut[i], cut[i + 1] - 1)]
             F == [i \in 1 .. k |-> SubSeq(text, 1, cut[i + 1] - 1)]
  <1>1. n \in Nat /\ text \in Seq(Glyphs)
    BY DEF Text
  <1>2. \A i \in 1 .. k : cut[i] \in 1 .. n + 1 /\ cut[i + 1] \in 1 .. n + 1
    OBVIOUS
  <1>3. Len(texts) = k
    OBVIOUS
  <1>4. ASSUME NEW i \in 1 .. k PROVE F[i] \in Text
    <2> DEFINE m == cut[i + 1] - 1
    <2>1. m \in Nat /\ m <= n
      BY <1>1, <1>2
    <2> HIDE DEF m, n
    <2>2. SubSeq(text, 1, m) \in Seq(Glyphs)
      BY <1>1, <2>1, SliceType DEF n
    <2>3. QED BY <2>2 DEF m, Text
  <1>5. ASSUME NEW i \in 1 .. k
        PROVE F[i] = IF i = 1 THEN texts[i] ELSE F[i - 1] \o texts[i]
    <2>1. CASE i = 1
      BY <2>1
    <2>2. CASE i # 1
      <3> DEFINE a == cut[i] - 1
                 b == cut[i + 1] - 1
      <3>1. i - 1 \in 1 .. k /\ (i - 1) + 1 = i
        BY <2>2
      <3>a. F[i - 1] = SubSeq(text, 1, a)
        BY <3>1
      <3>b. a + 1 = cut[i]
        BY <1>1, <1>2
      <3>c. texts[i] = SubSeq(text, cut[i], b)
        OBVIOUS
      <3>2. F[i - 1] = SubSeq(text, 1, a) /\ texts[i] = SubSeq(text, a + 1, b)
        BY <3>a, <3>b, <3>c
      <3>3. a \in 0 .. n /\ b \in a .. n
        BY <1>1, <1>2
      <3> HIDE DEF a
      <3>4. SubSeq(text, 1, a) \o SubSeq(text, a + 1, b) = SubSeq(text, 1, b)
        <4> HIDE DEF b
        <4>1. 1 \in 1 .. Len(text) + 1 /\ a \in 1 - 1 .. Len(text) /\ b \in a .. Len(text)
          BY <1>1, <3>3
        <4>2. QED BY <1>1, <4>1, ConcatAdjacentSubSeq
      <3>5. QED BY <2>2, <3>2, <3>4
    <2>3. QED BY <2>1, <2>2
  <1>6. F[k] = text
    <2>1. F[k] = SubSeq(text, 1, n)
      BY <1>1
    <2>2. QED BY <1>1, <2>1, SubSeqFull
  <1> HIDE DEF texts
  <1>7. F \in [1 .. k -> Text]
    BY <1>4
  <1>8. F = [i \in 1 .. k |-> IF i = 1 THEN texts[i] ELSE F[i - 1] \o texts[i]]
    <2> DEFINE H == [i \in 1 .. k |-> IF i = 1 THEN texts[i] ELSE F[i - 1] \o texts[i]]
    <2>1. \A i \in 1 .. k : H[i] = IF i = 1 THEN texts[i] ELSE F[i - 1] \o texts[i]
      OBVIOUS
    <2>2. DOMAIN F = 1 .. k /\ DOMAIN H = 1 .. k
      OBVIOUS
    <2>3. H = [i \in DOMAIN H |-> H[i]] /\ F = [i \in DOMAIN F |-> F[i]]
      OBVIOUS
    <2>4. \A i \in 1 .. k : F[i] = H[i]
      BY <1>5, <2>1
    <2> HIDE DEF H, F
    <2>5. F = H
      BY <2>2, <2>3, <2>4
    <2>6. QED BY <2>5 DEF H
  <1> HIDE DEF F
  <1>9. Spells(F, texts) /\ F[Len(texts)] = text
    BY <1>3, <1>6, <1>7, <1>8 DEF Spells
  <1>10. QED BY <1>9 DEF Joined, texts

(* What RemoveAt leaves where. *)
LEMMA RemoveAtIs ==
  ASSUME NEW S, NEW s \in Seq(S), NEW i \in 1 .. Len(s)
  PROVE /\ Len(RemoveAt(s, i)) = Len(s) - 1
        /\ \A j \in 1 .. Len(s) - 1 : RemoveAt(s, i)[j] = IF j < i THEN s[j] ELSE s[j + 1]
  <1> DEFINE left == SubSeq(s, 1, i - 1)
             right == SubSeq(s, i + 1, Len(s))
  <1>1. left \in Seq(S) /\ Len(left) = i - 1 /\ \A j \in 1 .. i - 1 : left[j] = s[j]
    OBVIOUS
  <1>2. /\ right \in Seq(S) /\ Len(right) = Len(s) - i
        /\ \A j \in 1 .. Len(s) - i : right[j] = s[i + j]
    OBVIOUS
  <1>3. RemoveAt(s, i) = left \o right
    BY DEF RemoveAt
  <1> HIDE DEF left, right
  <1>4. /\ Len(left \o right) = Len(left) + Len(right)
        /\ \A j \in 1 .. Len(left) + Len(right) :
             (left \o right)[j] = IF j <= Len(left) THEN left[j] ELSE right[j - Len(left)]
    BY <1>1, <1>2, ConcatProperties
  <1>5. i \in Int /\ Len(s) \in Int /\ Len(left) + Len(right) = Len(s) - 1
    BY <1>1, <1>2
  <1>6. ASSUME NEW j \in 1 .. Len(s) - 1
        PROVE (left \o right)[j] = IF j < i THEN s[j] ELSE s[j + 1]
    <2>1. CASE j < i
      BY <1>1, <1>4, <1>5, <2>1
    <2>2. CASE ~(j < i)
      <3>1. j - (i - 1) \in 1 .. Len(s) - i /\ i + (j - (i - 1)) = j + 1
        BY <1>5, <2>2
      <3>2. (left \o right)[j] = right[j - (i - 1)]
        BY <1>1, <1>4, <1>5, <2>2
      <3>3. QED BY <1>2, <2>2, <3>1, <3>2
    <2>3. QED BY <2>1, <2>2
  <1>7. QED BY <1>3, <1>4, <1>5, <1>6

(* Two neighbours made one leave the whole.                                *)
LEMMA MergeJoined ==
  ASSUME NEW s, NEW n \in Nat \ {0}, Len(s) = n, \A j \in 1 .. n : s[j] \in Text,
         NEW whole, Joined(s, whole), NEW i \in 1 .. n - 1,
         NEW t, Len(t) = n - 1,
         \A j \in 1 .. n - 1 : t[j] = IF j < i THEN s[j]
                                      ELSE IF j = i THEN s[i] \o s[i + 1] ELSE s[j + 1]
  PROVE Joined(t, whole)
  <1>1. PICK F : Spells(F, s) /\ F[n] = whole
    BY DEF Joined
  <1> DEFINE D == 1 .. n - 1
             G == [j \in D |-> IF j < i THEN F[j] ELSE F[j + 1]]
             H == [j \in D |-> IF j = 1 THEN t[j] ELSE G[j - 1] \o t[j]]
  <1>2. F \in [1 .. n -> Text]
    BY <1>1 DEF Spells
  <1>3. F[1] = s[1] /\ \A j \in 1 .. n : j # 1 => F[j] = F[j - 1] \o s[j]
    <2> DEFINE E == [j \in 1 .. n |-> IF j = 1 THEN s[j] ELSE F[j - 1] \o s[j]]
    <2>1. F = E
      BY <1>1 DEF Spells
    <2>2. \A j \in 1 .. n : E[j] = IF j = 1 THEN s[j] ELSE F[j - 1] \o s[j]
      OBVIOUS
    <2>3. 1 \in 1 .. n
      OBVIOUS
    <2> HIDE DEF E
    <2>4. QED BY <2>1, <2>2, <2>3
  <1>a. i \in 1 .. n - 1 /\ ~(i < i) /\ t[i] = s[i] \o s[i + 1]
    <2>1. ~(i < i)
      OBVIOUS
    <2>2. t[i] = IF i < i THEN s[i] ELSE IF i = i THEN s[i] \o s[i + 1] ELSE s[i + 1]
      OBVIOUS
    <2>3. QED BY <2>1, <2>2
  <1>4. G \in [D -> Text]
    BY <1>2
  <1>5. ASSUME NEW j \in D PROVE G[j] = H[j]
    <2>1. CASE j < i
      <3>1. G[j] = F[j] /\ t[j] = s[j] /\ j \in 1 .. n
        BY <2>1
      <3>2. j # 1 => G[j - 1] = F[j - 1]
        BY <2>1
      <3>3. H[j] = IF j = 1 THEN t[j] ELSE G[j - 1] \o t[j]
        OBVIOUS
      <3> HIDE DEF G, H
      <3>4. QED BY <1>3, <3>1, <3>2, <3>3
    <2>2. CASE j = i /\ j = 1
      <3>1. 1 + 1 = 2 /\ 2 - 1 = 1 /\ 2 \in 1 .. n /\ 2 # 1
        BY <2>2
      <3>2. F[2] = F[1] \o s[2]
        BY <1>3, <3>1
      <3>3. t[1] = s[1] \o s[2]
        BY <2>2, <3>1, <1>a
      <3>4. G[1] = F[2] /\ H[1] = t[1]
        BY <2>2, <3>1
      <3>5. QED BY <1>3, <2>2, <3>2, <3>3, <3>4
    <2>3. CASE j = i /\ j # 1
      <3>a. j - 1 \in D /\ j - 1 < i /\ ~(j < i) /\ i \in 1 .. n /\ i - 1 \in 1 .. n /\ i + 1 \in 1 .. n
        BY <2>3
      <3>1. G[j] = F[i + 1] /\ G[j - 1] = F[i - 1] /\ t[j] = s[i] \o s[i + 1]
        BY <2>3, <3>a
      <3>2. F[i + 1] = F[i] \o s[i + 1] /\ F[i] = F[i - 1] \o s[i]
        <4>1. i + 1 \in 1 .. n /\ i \in 1 .. n /\ i + 1 # 1 /\ i # 1 /\ (i + 1) - 1 = i
          BY <2>3
        <4>2. QED BY <1>3, <4>1
      <3>3. F[i - 1] \in Seq(Glyphs) /\ s[i] \in Seq(Glyphs) /\ s[i + 1] \in Seq(Glyphs)
        BY <1>2, <2>3, <3>a DEF Text
      <3>4. (F[i - 1] \o s[i]) \o s[i + 1] = F[i - 1] \o (s[i] \o s[i + 1])
        <4> DEFINE a == F[i - 1]
                   b == s[i]
                   c == s[i + 1]
        <4>1. a \in Seq(Glyphs) /\ b \in Seq(Glyphs) /\ c \in Seq(Glyphs)
          BY <3>3
        <4> HIDE DEF a, b, c
        <4>2. (a \o b) \o c = a \o (b \o c)
          BY <4>1, ConcatAssociative
        <4>3. QED BY <4>2 DEF a, b, c
      <3>5. H[j] = G[j - 1] \o t[j]
        BY <2>3
      <3>6. QED BY <3>1, <3>2, <3>4, <3>5
    <2>4. CASE j > i
      <3>1. G[j] = F[j + 1] /\ G[j - 1] = F[j] /\ t[j] = s[j + 1] /\ j # 1
        BY <2>4
      <3>2. F[j + 1] = F[j] \o s[j + 1]
        <4>1. j + 1 \in 1 .. n /\ j + 1 # 1 /\ (j + 1) - 1 = j
          OBVIOUS
        <4>2. QED BY <1>3, <4>1
      <3>3. H[j] = G[j - 1] \o t[j]
        BY <3>1
      <3>4. QED BY <3>1, <3>2, <3>3
    <2>5. QED BY <2>1, <2>2, <2>3, <2>4
  <1>6. G = H
    <2>1. G = [j \in D |-> G[j]] /\ H = [j \in D |-> H[j]]
      OBVIOUS
    <2> HIDE DEF G, H
    <2>2. QED BY <1>5, <2>1
  <1>7. G[n - 1] = whole
    BY <1>1
  <1>8. Spells(G, t)
    <2> DEFINE K == [j \in D |-> IF j = 1 THEN t[j] ELSE G[j - 1] \o t[j]]
    <2>1. G = K
      BY <1>6
    <2> HIDE DEF G
    <2>2. QED BY <1>4, <2>1 DEF Spells
  <1> HIDE DEF G
  <1>9. QED BY <1>7, <1>8 DEF Joined

-----------------------------------------------------------------------------
(* The inductive invariant *)

SoundType ==
  [currentState : States, buffer : Text, cursor : Nat, dictionary : Dictionaries,
   candidates : GoodList, primed : BOOLEAN, conversion : Converted \cup {NotBuilt},
   segments : Seq(Segment), segmentCandidates : Seq(GoodList),
   display : Seq(Text), displayDirty : BOOLEAN, selected : Nat \ {0}]

(* What holds of the engine between any two of its private methods: types, *)
(* indices inside what they index, and a conversion that is the buffer's.  *)
Sound(e) ==
  /\ e \in SoundType
  /\ e.cursor <= Len(e.buffer)
  /\ e.conversion # NotBuilt => e.conversion = Convert(e.buffer)

(* The readings of the segments, put together, are what was typed.         *)
Covers(e) == Joined(Readings(e.segments), ReadingOf(Convert(e.buffer)))

(* While there are segments: they spell what was typed, each has a list,   *)
(* one of them is selected, and a clean display cache shows them.          *)
Segmented(e) ==
  /\ e.segments # <<>>
  /\ Covers(e)
  /\ Len(e.segmentCandidates) = Len(e.segments)
  /\ e.selected <= Len(e.segments)
  /\ ~e.displayDirty => e.display = Texts(e.segments)

HighlightedText(e) ==
  IF HasItems(e.candidates) THEN SelectedText(e.candidates) ELSE e.segments[e.selected].reading

(* The selected segment, its list and the highlighted candidate agree.     *)
Previewed(e) ==
  /\ e.segmentCandidates[e.selected] = e.candidates
  /\ e.segments[e.selected].text = HighlightedText(e)

(* What holds of the engine between two calls, by state.                   *)
Phase(e) ==
  /\ e.currentState \in {"Direct", "Idle", "Committed"} =>
       e.buffer = <<>> /\ e.segments = <<>> /\ ~HasItems(e.candidates) /\ ~e.primed
  /\ e.currentState = "Composing" =>
       e.buffer # <<>> /\ e.segments = <<>> /\ (e.primed => HasItems(e.candidates))
  /\ e.currentState = "Converting" => e.buffer # <<>> /\ Segmented(e) /\ Previewed(e)

(* The engine is sound and in phase, and the last output showed it.        *)
IInv ==
  /\ Sound(ime) /\ Phase(ime)
  /\ out \in OutputType
  /\ Converting => out.composition = [parts |-> Texts(ime.segments), focus |-> ime.selected]
  /\ Composing => /\ out.composition.parts = <<ReadingOf(Convert(ime.buffer))>>
                  /\ out.candidates = ime.candidates

-----------------------------------------------------------------------------
(* The segments and what they spell *)

(* The readings of segments, one for each.                                 *)
LEMMA ReadingsAre ==
  ASSUME NEW segments \in Seq(Segment)
  PROVE /\ Len(Readings(segments)) = Len(segments)
        /\ \A i \in 1 .. Len(segments) :
             Readings(segments)[i] = segments[i].reading /\ Readings(segments)[i] \in Text
  <1>1. \A i \in 1 .. Len(segments) : segments[i] \in Segment
    OBVIOUS
  <1>2. \A i \in 1 .. Len(segments) : segments[i].reading \in Text
    BY <1>1 DEF Segment
  <1>3. Len(segments) \in Nat
    OBVIOUS
  <1>4. QED BY <1>2, <1>3 DEF Readings

(* The same segments for the same input still spell it.                    *)
LEMMA SameCovers ==
  ASSUME NEW e, Covers(e), NEW f, f.buffer = e.buffer, f.segments = e.segments
  PROVE Covers(f)
  BY DEF Covers

(* Neither does another text of one segment change what they spell.        *)
LEMMA TextCovers ==
  ASSUME NEW e, Sound(e), Covers(e), NEW i \in 1 .. Len(e.segments), NEW text \in Text,
         NEW f, f.buffer = e.buffer,
         f.segments = [e.segments EXCEPT ![i] = [reading |-> e.segments[i].reading, text |-> text]]
  PROVE Covers(f)
  <1> DEFINE segment == [reading |-> e.segments[i].reading, text |-> text]
  <1>1. e.segments \in Seq(Segment) /\ e.segments[i] \in Segment
    BY DEF Sound, SoundType
  <1>2. segment \in Segment /\ segment.reading = e.segments[i].reading
    BY <1>1 DEF Segment
  <1>3. f.segments = [e.segments EXCEPT ![i] = segment]
    OBVIOUS
  <1> HIDE DEF segment
  <1>4. /\ Len(f.segments) = Len(e.segments)
        /\ \A j \in 1 .. Len(e.segments) : f.segments[j] = IF j = i THEN segment ELSE e.segments[j]
    BY <1>1, <1>2, <1>3, UpdateType
  <1>5. \A j \in 1 .. Len(e.segments) : f.segments[j].reading = e.segments[j].reading
    BY <1>2, <1>4
  <1>6. Readings(f.segments) = Readings(e.segments)
    BY <1>4, <1>5 DEF Readings
  <1>7. QED BY <1>6 DEF Covers

(* Nor does a merge of two neighbours.                                     *)
LEMMA MergedCovers ==
  ASSUME NEW e, Sound(e), Covers(e), NEW i \in 1 .. Len(e.segments) - 1,
         NEW segment \in Segment,
         segment.reading = e.segments[i].reading \o e.segments[i + 1].reading,
         NEW f, f.buffer = e.buffer,
         f.segments = RemoveAt([e.segments EXCEPT ![i] = segment], i + 1)
  PROVE Covers(f)
  <1> DEFINE n == Len(e.segments)
             s == Readings(e.segments)
             t == Readings(f.segments)
             widened == [e.segments EXCEPT ![i] = segment]
  <1>1. /\ e.segments \in Seq(Segment) /\ n \in Nat \ {0} /\ i \in 1 .. n /\ i + 1 \in 1 .. n
        /\ i \in 1 .. n - 1
    BY DEF Sound, SoundType
  <1>2. /\ widened \in Seq(Segment) /\ Len(widened) = n
        /\ \A j \in 1 .. n : widened[j] = IF j = i THEN segment ELSE e.segments[j]
    BY <1>1, UpdateType
  <1>3. f.segments = RemoveAt(widened, i + 1)
    OBVIOUS
  <1> HIDE DEF widened
  <1>4. /\ f.segments \in Seq(Segment) /\ Len(f.segments) = n - 1
        /\ \A j \in 1 .. n - 1 : f.segments[j] = IF j < i + 1 THEN widened[j] ELSE widened[j + 1]
    <2>1. i + 1 \in 1 .. Len(widened)
      BY <1>1, <1>2
    <2>2. /\ Len(RemoveAt(widened, i + 1)) = Len(widened) - 1
          /\ \A j \in 1 .. Len(widened) - 1 :
               RemoveAt(widened, i + 1)[j] = IF j < i + 1 THEN widened[j] ELSE widened[j + 1]
      BY <1>2, <2>1, RemoveAtIs
    <2>3. RemoveAt(widened, i + 1) \in Seq(Segment)
      BY <1>2, <2>1, RemoveAtType
    <2>4. QED BY <1>2, <1>3, <2>2, <2>3
  <1>a. i \in Int /\ n \in Int
    BY <1>1
  <1>5. /\ Len(s) = n /\ \A j \in 1 .. n : s[j] = e.segments[j].reading /\ s[j] \in Text
        /\ Len(t) = n - 1 /\ \A j \in 1 .. n - 1 : t[j] = f.segments[j].reading
    BY <1>1, <1>4, ReadingsAre
  <1>6. ASSUME NEW j \in 1 .. n - 1
        PROVE t[j] = IF j < i THEN s[j] ELSE IF j = i THEN s[i] \o s[i + 1] ELSE s[j + 1]
    <2>1. j \in 1 .. n /\ j + 1 \in 1 .. n
      BY <1>1
    <2>2. CASE j < i
      <3>a. j < i + 1 /\ j # i
        BY <1>a, <2>2
      <3>1. f.segments[j] = e.segments[j]
        BY <1>2, <1>4, <2>1, <3>a
      <3>2. QED BY <1>5, <2>1, <2>2, <3>1
    <2>3. CASE j = i
      <3>a. j < i + 1
        BY <1>a, <2>3
      <3>1. f.segments[j] = segment
        BY <1>2, <1>4, <2>1, <2>3, <3>a
      <3>2. ~(i < i)
        BY <1>a
      <3>4. s[i] = e.segments[i].reading /\ s[i + 1] = e.segments[i + 1].reading
        BY <1>1, <1>5
      <3>3. QED BY <1>5, <2>3, <3>1, <3>2, <3>4
    <2>4. CASE j > i
      <3>a. ~(j < i + 1) /\ j + 1 # i
        BY <1>a, <2>4
      <3>1. f.segments[j] = e.segments[j + 1]
        BY <1>2, <1>4, <2>1, <3>a
      <3>2. ~(j < i) /\ j # i
        BY <1>1, <2>4
      <3>3. QED BY <1>5, <2>1, <3>1, <3>2
    <2>5. QED BY <1>1, <2>2, <2>3, <2>4
  <1>7. Joined(s, ReadingOf(Convert(e.buffer)))
    BY DEF Covers
  <1> HIDE DEF n, s, t
  <1>8. Joined(t, ReadingOf(Convert(e.buffer)))
    BY <1>1, <1>5, <1>6, <1>7, MergeJoined
  <1>9. QED BY <1>8 DEF Covers, t

(* Every cut runs from the first glyph to the last and goes forward.       *)
LEMMA CutsAre ==
  ASSUME NEW reading \in Text, reading # <<>>, NEW cut \in Cuts(reading)
  PROVE \E k \in 1 .. Len(reading) :
          /\ cut \in [1 .. k + 1 -> 1 .. Len(reading) + 1]
          /\ cut[1] = 1 /\ cut[k + 1] = Len(reading) + 1
          /\ \A i \in 1 .. k : cut[i] <= cut[i + 1]
  <1> DEFINE n == Len(reading)
  <1>1. n \in Nat \ {0}
    BY DEF Text
  <1>2. CASE cut = <<1, n + 1>>
    <2> HIDE DEF n
    <2>1. cut \in [1 .. 1 + 1 -> 1 .. n + 1] /\ cut[1] = 1 /\ cut[1 + 1] = n + 1 /\ 1 \in 1 .. n
      BY <1>1, <1>2
    <2>2. \A i \in 1 .. 1 : cut[i] <= cut[i + 1]
      BY <1>1, <2>1
    <2>3. QED BY <2>1, <2>2 DEF n
  <1>3. CASE cut # <<1, n + 1>>
    <2>1. /\ cut \in UNION {[1 .. k + 1 -> 1 .. n + 1] : k \in 1 .. n}
          /\ cut[1] = 1 /\ cut[(Len(cut) - 1) + 1] = n + 1
          /\ \A i \in 1 .. Len(cut) - 1 : cut[i] < cut[i + 1]
      BY <1>3, Zenon DEF Cuts
    <2>2. PICK k \in 1 .. n : cut \in [1 .. k + 1 -> 1 .. n + 1]
      BY <2>1
    <2>3. Len(cut) - 1 = k
      BY <1>1, <2>2
    <2>4. \A i \in 1 .. k : cut[i] <= cut[i + 1]
      <3> TAKE i \in 1 .. k
      <3>1. cut[i] < cut[i + 1] /\ i \in 1 .. k + 1 /\ i + 1 \in 1 .. k + 1
        BY <1>1, <2>1, <2>3
      <3>2. cut[i] \in 1 .. n + 1 /\ cut[i + 1] \in 1 .. n + 1
        BY <2>2, <3>1
      <3>3. QED BY <1>1, <3>1, <3>2
    <2>5. QED BY <2>1, <2>2, <2>3, <2>4
  <1>4. QED BY <1>2, <1>3

-----------------------------------------------------------------------------
(* The private methods on candidates and the cached conversion *)

SameInput(f, e) ==
  /\ f.currentState = e.currentState
  /\ f.buffer = e.buffer /\ f.cursor = e.cursor
  /\ f.dictionary = e.dictionary

(* Clearing the candidates drops the list and the primed flag only.        *)
LEMMA ClearSound ==
  ASSUME NEW e, Sound(e)
  PROVE /\ Sound(ClearCandidates(e)) /\ SameInput(ClearCandidates(e), e)
        /\ ~HasItems(ClearCandidates(e).candidates) /\ ~ClearCandidates(e).primed
        /\ ClearCandidates(e).segments = e.segments
  BY NoCandidatesGood DEF ClearCandidates, Sound, SoundType, SameInput

(* Invalidating the conversion only drops the cached one.                  *)
LEMMA InvalidateSound ==
  ASSUME NEW e \in SoundType, e.cursor <= Len(e.buffer)
  PROVE /\ Sound(InvalidateConversion(e)) /\ SameInput(InvalidateConversion(e), e)
        /\ InvalidateConversion(e).segments = e.segments
        /\ InvalidateConversion(e).candidates = e.candidates
        /\ InvalidateConversion(e).primed = e.primed
  BY DEF InvalidateConversion, Sound, SoundType, SameInput

(* buildConversion leaves the cached conversion that of the buffer.        *)
LEMMA BuildSound ==
  ASSUME NEW e, Sound(e)
  PROVE LET b == BuildConversion(e) IN
        /\ Sound(b) /\ b = [e EXCEPT !.conversion = Convert(e.buffer)]
        /\ b.conversion = Convert(e.buffer) /\ b.conversion \in Converted
        /\ SameInput(b, e) /\ b.segments = e.segments /\ b.candidates = e.candidates
        /\ b.primed = e.primed
        /\ Segmented(e) => Segmented(b)
        /\ Previewed(e) => Previewed(b)
  <1>1. Convert(e.buffer) \in Converted
    BY ConvertType DEF Sound, SoundType
  <1>2. BuildConversion(e) = [e EXCEPT !.conversion = Convert(e.buffer)]
    BY DEF BuildConversion, Sound, SoundType
  <1> DEFINE b == [e EXCEPT !.conversion = Convert(e.buffer)]
  <1>3. Sound(b) /\ SameInput(b, e) /\ b.conversion = Convert(e.buffer)
    BY <1>1 DEF Sound, SoundType, SameInput
  <1>4. /\ b.segments = e.segments /\ b.candidates = e.candidates /\ b.selected = e.selected
        /\ b.segmentCandidates = e.segmentCandidates /\ b.primed = e.primed
        /\ b.display = e.display /\ b.displayDirty = e.displayDirty
    BY DEF Sound, SoundType
  <1> HIDE DEF b
  <1>5. (Segmented(e) => Segmented(b)) /\ (Previewed(e) => Previewed(b))
    BY <1>3, <1>4, SameCovers DEF Segmented, Previewed, HighlightedText, SameInput
  <1>6. QED BY <1>1, <1>2, <1>3, <1>4, <1>5 DEF b

(* The reading the engine uses is that of the cached conversion.           *)
LEMMA ReadingIs ==
  ASSUME NEW e, Sound(e)
  PROVE /\ Reading(e) = ReadingOf(Convert(e.buffer)) /\ Reading(e) \in Text
        /\ e.buffer # <<>> => Reading(e) # <<>>
  BY BuildSound, ConvertType, ReadingOfType, ReadingNotEmpty DEF Reading, Sound, SoundType

(* refreshPredictions leaves a sound composing engine.                     *)
LEMMA RefreshPredictionsSound ==
  ASSUME NEW e, Sound(e)
  PROVE LET r == RefreshPredictions(e) IN
        Sound(r) /\ SameInput(r, e) /\ r.segments = e.segments /\ ~r.primed
  <1> DEFINE b == BuildConversion(e)
  <1> DEFINE items == IF b.buffer = <<>> \/ Reading(b) = <<>> THEN <<>>
                      ELSE Predictions(b.dictionary, Reading(b))
  <1> DEFINE list == [items |-> items, selectedIndex |-> 0]
  <1>1. Sound(b) /\ SameInput(b, e) /\ b.segments = e.segments
    BY BuildSound
  <1>2. Reading(b) \in Text /\ b.dictionary \in Dictionaries
    BY <1>1, ReadingIs DEF Sound, SoundType
  <1>3. items \in Seq(Text)
    BY <1>2, PredictionsType
  <1>4. list \in GoodList
    BY <1>3, FreshListGood
  <1>5. RefreshPredictions(e) = [b EXCEPT !.candidates = list, !.primed = FALSE]
    BY DEF RefreshPredictions
  <1> HIDE DEF b, list
  <1>6. QED BY <1>1, <1>4, <1>5 DEF Sound, SoundType, SameInput

(* Resetting the session leaves nothing of it.                             *)
LEMMA ResetSound ==
  ASSUME NEW e, Sound(e)
  PROVE LET r == ResetSession(e) IN
        /\ Sound(r) /\ r.currentState = e.currentState /\ r.dictionary = e.dictionary
        /\ r.buffer = <<>> /\ r.segments = <<>> /\ ~HasItems(r.candidates) /\ ~r.primed
  <1> DEFINE c == ClearCandidates(InvalidateConversion(e))
  <1>1. /\ Sound(c) /\ c.currentState = e.currentState /\ c.dictionary = e.dictionary
        /\ ~HasItems(c.candidates) /\ ~c.primed /\ c.conversion = NotBuilt
    BY ClearSound, InvalidateSound
       DEF Sound, SoundType, SameInput, ClearCandidates, InvalidateConversion
  <1>2. /\ <<>> \in Text /\ <<>> \in Seq(Segment) /\ <<>> \in Seq(GoodList) /\ <<>> \in Seq(Text)
        /\ 1 \in Nat \ {0}
    BY DEF Text
  <1> DEFINE r == [c EXCEPT !.buffer = <<>>, !.cursor = 0, !.segments = <<>>,
                           !.segmentCandidates = <<>>, !.display = <<>>,
                           !.displayDirty = TRUE, !.selected = 1]
  <1>3. ResetSession(e) = r
    BY DEF ResetSession
  <1> HIDE DEF c
  <1>4. r \in SoundType
    BY <1>1, <1>2 DEF Sound, SoundType
  <1>5. /\ r.currentState = c.currentState /\ r.dictionary = c.dictionary
        /\ r.buffer = <<>> /\ r.cursor = 0 /\ r.segments = <<>>
        /\ r.candidates = c.candidates /\ r.primed = c.primed /\ r.conversion = c.conversion
    BY <1>1 DEF Sound, SoundType
  <1> HIDE DEF r
  <1>6. Sound(r)
    BY <1>1, <1>4, <1>5 DEF Sound
  <1>7. QED BY <1>1, <1>3, <1>5, <1>6

-----------------------------------------------------------------------------
(* The private methods on segments *)

(* What the shape of a converting engine says of its parts.                *)
LEMMA SegmentedFacts ==
  ASSUME NEW e, Sound(e), Segmented(e)
  PROVE /\ e.selected \in 1 .. Len(e.segments)
        /\ e.selected \in 1 .. Len(e.segmentCandidates)
        /\ e.segments[e.selected] \in Segment
        /\ e.segmentCandidates[e.selected] \in GoodList
        /\ e.candidates \in GoodList
        /\ SanitizeSegmentIndex(e) = e
  <1>1. e.selected \in 1 .. Len(e.segments) /\ e.selected \in 1 .. Len(e.segmentCandidates)
    BY DEF Sound, SoundType, Segmented
  <1>2. e.segments[e.selected] \in Segment /\ e.segmentCandidates[e.selected] \in GoodList
    BY <1>1 DEF Sound, SoundType
  <1>3. SanitizeSegmentIndex(e) = e
    BY DEF SanitizeSegmentIndex, Segmented, Sound, SoundType
  <1>4. QED BY <1>1, <1>2, <1>3 DEF Sound, SoundType

(* The list of a segment's reading is good and not empty.                  *)
LEMMA CandidatesForGood ==
  ASSUME NEW e, Sound(e), NEW i \in 1 .. Len(e.segments)
  PROVE CandidatesFor(e, i) \in GoodList
  <1>a. e.segments[i] \in Segment /\ e.dictionary \in Dictionaries
    BY DEF Sound, SoundType
  <1>1. e.segments[i].reading \in Text
    BY <1>a DEF Segment
  <1>2. Candidates(e.dictionary, e.segments[i].reading, Preceding(e.segments, i)) \in Seq(Text)
    BY <1>a, <1>1, CandidatesType
  <1>3. QED BY <1>2, FreshListGood DEF CandidatesFor

(* An update of the lists alone. *)
LEMMA NewListsSound ==
  ASSUME NEW e, Sound(e), Segmented(e),
         NEW lists \in Seq(GoodList), Len(lists) = Len(e.segmentCandidates)
  PROVE LET f == [e EXCEPT !.segmentCandidates = lists] IN
        /\ Sound(f) /\ Segmented(f) /\ SameInput(f, e)
        /\ f.segmentCandidates = lists
        /\ f.segments = e.segments /\ f.selected = e.selected /\ f.candidates = e.candidates
  BY DEF Sound, SoundType, Segmented, SameInput, Covers

(* persistSegmentSelection keeps the shape and stores the list in use.     *)
LEMMA PersistSound ==
  ASSUME NEW e, Sound(e), Segmented(e)
  PROVE LET p == PersistSelection(e) IN
        /\ Sound(p) /\ Segmented(p) /\ SameInput(p, e)
        /\ p.segments = e.segments /\ p.selected = e.selected /\ p.candidates = e.candidates
        /\ p.segmentCandidates[p.selected] = p.candidates
  <1> DEFINE lists == [e.segmentCandidates EXCEPT ![e.selected] = e.candidates]
  <1>1. /\ lists \in Seq(GoodList) /\ Len(lists) = Len(e.segmentCandidates)
        /\ lists[e.selected] = e.candidates
    BY SegmentedFacts, UpdateType DEF Sound, SoundType
  <1>a. ~(e.segments = <<>> \/ e.selected > Len(e.segmentCandidates))
    BY SegmentedFacts DEF Segmented
  <1>2. PersistSelection(e) = [e EXCEPT !.segmentCandidates = lists]
    BY <1>a, SegmentedFacts DEF PersistSelection, WithList
  <1> HIDE DEF lists
  <1>3. QED BY <1>1, <1>2, NewListsSound

(* Prefetching fills lists that were empty and changes nothing else.       *)
LEMMA PrefetchSound ==
  ASSUME NEW e, Sound(e), Segmented(e)
  PROVE LET p == PrefetchNext(e) IN
        /\ Sound(p) /\ Segmented(p) /\ SameInput(p, e)
        /\ p.segments = e.segments /\ p.selected = e.selected /\ p.candidates = e.candidates
        /\ p.segmentCandidates[p.selected] = e.segmentCandidates[e.selected]
  <1> DEFINE next == e.selected + 1
  <1>1. CASE next > Len(e.segments)
    BY <1>1 DEF PrefetchNext, SameInput
  <1>2. CASE next <= Len(e.segments)
    <2> DEFINE old == e.segmentCandidates[next]
    <2> DEFINE new == Sanitize(IF HasItems(old) THEN old ELSE CandidatesFor(e, next))
    <2> DEFINE lists == [e.segmentCandidates EXCEPT ![next] = new]
    <2>1. next \in 1 .. Len(e.segments) /\ next \in 1 .. Len(e.segmentCandidates)
      BY <1>2 DEF Segmented, Sound, SoundType
    <2>2. old \in GoodList /\ CandidatesFor(e, next) \in GoodList
      <3>1. CandidatesFor(e, next) \in GoodList
        BY <2>1, CandidatesForGood
      <3>2. e.segmentCandidates \in Seq(GoodList)
        BY DEF Sound, SoundType
      <3>3. QED BY <2>1, <3>1, <3>2
    <2>3. new \in GoodList
      BY <2>2, SanitizeKeepsGood
    <2>4. ~(next > Len(e.segments) \/ next > Len(e.segmentCandidates))
      BY <2>1
    <2>a. PrefetchNext(e) = [e EXCEPT !.segmentCandidates = lists]
      BY <2>4 DEF PrefetchNext, WithList
    <2> HIDE DEF old, new
    <2>5. /\ lists \in Seq(GoodList) /\ Len(lists) = Len(e.segmentCandidates)
          /\ lists[e.selected] = e.segmentCandidates[e.selected]
      BY <2>1, <2>3, UpdateType, SegmentedFacts DEF Sound, SoundType
    <2> HIDE DEF lists, next
    <2>6. QED BY <2>a, <2>5, NewListsSound
  <1>3. QED BY <1>1, <1>2, SegmentedFacts

(* Another highlighted list alone. *)
LEMMA NewCandidatesSound ==
  ASSUME NEW e, Sound(e), NEW list \in GoodList
  PROVE LET f == [e EXCEPT !.candidates = list] IN
        /\ Sound(f) /\ SameInput(f, e) /\ f.candidates = list
        /\ f.segments = e.segments /\ f.selected = e.selected
        /\ f.segmentCandidates = e.segmentCandidates
        /\ Segmented(e) => Segmented(f)
  BY DEF Sound, SoundType, Segmented, SameInput, Covers

(* Emptying the lists behind a segment keeps their number.                 *)
LEMMA InvalidateFollowingType ==
  ASSUME NEW lists \in Seq(GoodList), NEW i \in 1 .. Len(lists)
  PROVE LET kept == InvalidateFollowing(lists, i) IN
        kept \in Seq(GoodList) /\ Len(kept) = Len(lists) /\ kept[i] = lists[i]
  BY NoCandidatesGood DEF InvalidateFollowing

(* After a preview the segment reads as the highlighted candidate.         *)
LEMMA PreviewSound ==
  ASSUME NEW e, Sound(e), Segmented(e), e.segmentCandidates[e.selected] = e.candidates
  PROVE LET p == Preview(e) IN
        /\ Sound(p) /\ Segmented(p) /\ Previewed(p) /\ SameInput(p, e)
        /\ p.selected = e.selected /\ Len(p.segments) = Len(e.segments)
        /\ Previewed(e) => p.segments = e.segments
  <1> DEFINE i == e.selected
             text == HighlightedText(e)
             segment == [reading |-> e.segments[i].reading, text |-> text]
             segments == [e.segments EXCEPT ![i] = segment]
             lists == IF text = e.segments[i].text THEN e.segmentCandidates
                      ELSE InvalidateFollowing(e.segmentCandidates, i)
             f == [e EXCEPT !.candidates = e.candidates, !.segments = segments,
                            !.segmentCandidates = lists, !.displayDirty = TRUE]
  <1>1. /\ i \in 1 .. Len(e.segments) /\ i \in 1 .. Len(e.segmentCandidates)
        /\ e.segments[i] \in Segment /\ e.candidates \in GoodList
        /\ e.segments \in Seq(Segment) /\ e.segmentCandidates \in Seq(GoodList)
    BY SegmentedFacts DEF Sound, SoundType
  <1>2. text \in Text
    BY <1>1, SelectedTextType DEF HighlightedText, Segment
  <1>3. segment \in Segment
    BY <1>1, <1>2 DEF Segment
  <1>4. segments \in Seq(Segment) /\ Len(segments) = Len(e.segments) /\ segments[i] = segment
    <2> HIDE DEF segment, i
    <2>1. QED BY <1>1, <1>3, UpdateType
  <1>5. lists \in Seq(GoodList) /\ Len(lists) = Len(e.segmentCandidates)
        /\ lists[i] = e.segmentCandidates[i]
    BY <1>1, InvalidateFollowingType
  <1>6. Preview(e) = PrefetchNext(f)
    <2>1. SanitizeSegmentIndex(e) = e /\ Sanitize(e.candidates) = e.candidates
      BY <1>1, SegmentedFacts, SanitizeKeepsGood
    <2>2. e.segments # <<>>
      BY DEF Segmented
    <2>3. QED BY <2>1, <2>2 DEF Preview, HighlightedText
  <1>7. segment.text = text /\ segment.reading = e.segments[i].reading
    OBVIOUS
  <1>8. Previewed(e) => segments = e.segments
    <2>1. Previewed(e) => segment = e.segments[i]
      BY <1>1 DEF Previewed, Segment
    <2>2. QED BY <2>1, <1>1
  <1>c. segments = [e.segments EXCEPT ![i] = [reading |-> e.segments[i].reading, text |-> text]]
    OBVIOUS
  <1> HIDE DEF segments, lists, text, segment
  <1>9. /\ f \in SoundType /\ SameInput(f, e) /\ f.conversion = e.conversion
        /\ f.candidates = e.candidates /\ f.segments = segments /\ f.segmentCandidates = lists
        /\ f.displayDirty = TRUE /\ f.selected = i
    BY <1>1, <1>4, <1>5 DEF Sound, SoundType, SameInput
  <1> HIDE DEF f
  <1>10. Sound(f)
    BY <1>9 DEF Sound, SameInput
  <1>d. Covers(f)
    BY <1>1, <1>2, <1>9, <1>c, TextCovers DEF Segmented, SameInput
  <1>11. Segmented(f)
    BY <1>4, <1>5, <1>9, <1>d DEF Segmented, Sound, SoundType
  <1>12. Previewed(f)
    BY <1>4, <1>5, <1>7, <1>9 DEF Previewed, HighlightedText, text
  <1>13. QED
    <2> DEFINE p == PrefetchNext(f)
    <2>1. /\ Sound(p) /\ Segmented(p) /\ SameInput(p, f)
          /\ p.segments = f.segments /\ p.selected = f.selected /\ p.candidates = f.candidates
          /\ p.segmentCandidates[p.selected] = f.segmentCandidates[f.selected]
      BY <1>10, <1>11, PrefetchSound
    <2> HIDE DEF p
    <2>2. Previewed(p)
      BY <2>1, <1>12 DEF Previewed, HighlightedText
    <2>3. SameInput(p, e)
      BY <2>1, <1>9 DEF SameInput
    <2>4. QED BY <1>4, <1>6, <1>8, <1>9, <2>1, <2>2, <2>3 DEF p

(* The preview that also stores the list keeps the shape.                  *)
LEMMA SyncPreviewSound ==
  ASSUME NEW e, Sound(e), Segmented(e)
  PROVE LET p == SyncPreview(e) IN
        /\ Sound(p) /\ Segmented(p) /\ Previewed(p) /\ SameInput(p, e)
        /\ p.selected = e.selected /\ Len(p.segments) = Len(e.segments)
        /\ Previewed(e) => p.segments = e.segments
  <1> DEFINE s == PersistSelection(e)
  <1>1. /\ Sound(s) /\ Segmented(s) /\ SameInput(s, e)
        /\ s.segments = e.segments /\ s.selected = e.selected /\ s.candidates = e.candidates
        /\ s.segmentCandidates[s.selected] = s.candidates
    BY PersistSound
  <1>2. Previewed(e) => Previewed(s)
    BY <1>1 DEF Previewed, HighlightedText
  <1> HIDE DEF s
  <1>3. LET p == Preview(s) IN
        /\ Sound(p) /\ Segmented(p) /\ Previewed(p) /\ SameInput(p, s)
        /\ p.selected = s.selected /\ Len(p.segments) = Len(s.segments)
        /\ Previewed(s) => p.segments = s.segments
    BY <1>1, PreviewSound
  <1>4. QED BY <1>1, <1>2, <1>3 DEF SyncPreview, SameInput, s

(* refreshSegmentCandidates gives the selected segment a good list.        *)
LEMMA RefreshSegmentSound ==
  ASSUME NEW e, Sound(e), Segmented(e)
  PROVE LET r == RefreshSegmentCandidates(e) IN
        /\ Sound(r) /\ Segmented(r) /\ Previewed(r) /\ SameInput(r, e)
  <1> DEFINE i == e.selected
  <1>1. /\ SanitizeSegmentIndex(e) = e /\ e.segments # <<>> /\ i <= Len(e.segmentCandidates)
        /\ i \in 1 .. Len(e.segments) /\ i \in 1 .. Len(e.segmentCandidates)
        /\ e.segmentCandidates[i] \in GoodList /\ e.segmentCandidates \in Seq(GoodList)
    BY SegmentedFacts DEF Segmented, Sound, SoundType
  <1>2. CASE HasItems(e.segmentCandidates[i])
    <2> DEFINE list == Sanitize(e.segmentCandidates[i])
               lists == [e.segmentCandidates EXCEPT ![i] = list]
               f == [e EXCEPT !.segmentCandidates = lists]
               g == [f EXCEPT !.candidates = list]
    <2>1. RefreshSegmentCandidates(e) = Preview(g)
      BY <1>1, <1>2 DEF RefreshSegmentCandidates, WithList
    <2>2. list \in GoodList
      BY <1>1, SanitizeKeepsGood
    <2> HIDE DEF list
    <2>3. lists \in Seq(GoodList) /\ Len(lists) = Len(e.segmentCandidates) /\ lists[i] = list
      BY <1>1, <2>2, UpdateType
    <2> HIDE DEF lists
    <2>4. /\ Sound(f) /\ Segmented(f) /\ SameInput(f, e)
          /\ f.segmentCandidates = lists /\ f.selected = i
      BY <2>3, NewListsSound
    <2> HIDE DEF f
    <2>5. /\ Sound(g) /\ Segmented(g) /\ SameInput(g, f) /\ g.candidates = list
          /\ g.segmentCandidates = lists /\ g.selected = i
      BY <2>2, <2>4, NewCandidatesSound
    <2> HIDE DEF g, i
    <2>6. Sound(Preview(g)) /\ Segmented(Preview(g)) /\ Previewed(Preview(g)) /\ SameInput(Preview(g), g)
      BY <2>3, <2>5, PreviewSound
    <2>7. QED BY <2>1, <2>4, <2>5, <2>6 DEF SameInput
  <1>3. CASE ~HasItems(e.segmentCandidates[i])
    <2> DEFINE f == [e EXCEPT !.candidates = CandidatesFor(e, i)]
    <2>1. RefreshSegmentCandidates(e) = SyncPreview(f)
      BY <1>1, <1>3 DEF RefreshSegmentCandidates
    <2>2. CandidatesFor(e, i) \in GoodList
      BY <1>1, CandidatesForGood
    <2>3. Sound(f) /\ Segmented(f) /\ SameInput(f, e)
      BY <2>2, NewCandidatesSound
    <2> HIDE DEF f
    <2>4. QED BY <2>1, <2>3, SyncPreviewSound DEF SameInput
  <1>4. QED BY <1>2, <1>3

(* A step to another segment. *)
LEMMA SelectSegmentSound ==
  ASSUME NEW e, Sound(e), Segmented(e), NEW i \in 1 .. Len(e.segments)
  PROVE LET f == [e EXCEPT !.selected = i] IN
        Sound(f) /\ Segmented(f) /\ SameInput(f, e)
  <1> DEFINE f == [e EXCEPT !.selected = i]
  <1>1. i \in Nat \ {0} /\ i <= Len(e.segments)
    BY DEF Sound, SoundType
  <1>2. f \in SoundType
    BY <1>1 DEF Sound, SoundType
  <1>3. /\ SameInput(f, e) /\ f.conversion = e.conversion /\ f.segments = e.segments
        /\ f.segmentCandidates = e.segmentCandidates
        /\ f.display = e.display /\ f.displayDirty = e.displayDirty /\ f.selected = i
    BY DEF Sound, SoundType, SameInput
  <1> HIDE DEF f
  <1>4. Sound(f)
    BY <1>2, <1>3 DEF Sound, SameInput
  <1>5. Segmented(f)
    BY <1>1, <1>3, SameCovers DEF Segmented, SameInput
  <1>6. QED BY <1>3, <1>4, <1>5 DEF f

(* Moving to another segment keeps the shape.                              *)
LEMMA MoveToSegmentSound ==
  ASSUME NEW e, Sound(e), Segmented(e), NEW i \in 1 .. Len(e.segments)
  PROVE LET r == MoveToSegment(e, i) IN
        /\ Sound(r) /\ Segmented(r) /\ Previewed(r) /\ SameInput(r, e)
  <1> DEFINE p == SyncPreview(e)
             f == [p EXCEPT !.selected = i]
  <1>1. Sound(p) /\ Segmented(p) /\ SameInput(p, e) /\ i \in 1 .. Len(p.segments)
    BY SyncPreviewSound
  <1>2. MoveToSegment(e, i) = RefreshSegmentCandidates(f)
    BY DEF MoveToSegment
  <1> HIDE DEF p
  <1>3. Sound(f) /\ Segmented(f) /\ SameInput(f, p)
    BY <1>1, SelectSegmentSound
  <1> HIDE DEF f
  <1>4. QED BY <1>1, <1>2, <1>3, RefreshSegmentSound DEF SameInput

(* Going to the next segment keeps the shape.                              *)
LEMMA AdvanceSound ==
  ASSUME NEW e, Sound(e), Segmented(e), ~IsLastSegment(e)
  PROVE LET r == Advance(e) IN
        /\ Sound(r) /\ Segmented(r) /\ Previewed(r) /\ SameInput(r, e)
  <1> DEFINE p == PersistSelection(e)
             i == e.selected + 1
             f == [p EXCEPT !.selected = i]
  <1>1. /\ Sound(p) /\ Segmented(p) /\ SameInput(p, e)
        /\ p.selected = e.selected /\ p.segments = e.segments
    BY PersistSound
  <1>2. i \in 1 .. Len(p.segments)
    BY <1>1 DEF IsLastSegment, Sound, SoundType
  <1>3. Advance(e) = RefreshSegmentCandidates(f)
    BY <1>1 DEF Advance
  <1> HIDE DEF p, i
  <1>4. Sound(f) /\ Segmented(f) /\ SameInput(f, p)
    BY <1>1, <1>2, SelectSegmentSound
  <1> HIDE DEF f
  <1>5. QED BY <1>1, <1>3, <1>4, RefreshSegmentSound DEF SameInput

(* The cut, the merge and the way back out of a conversion. *)
LEMMA MergeSound ==
  ASSUME NEW e, Sound(e), Segmented(e), NEW i \in 1 .. Len(e.segments) - 1
  PROVE LET r == MergeAt(e, i) IN
        /\ Sound(r) /\ Segmented(r) /\ Previewed(r) /\ SameInput(r, e)
  <1> DEFINE joined == e.segments[i].reading \o e.segments[i + 1].reading
             segment == [reading |-> joined, text |-> joined]
             widened == [e.segments EXCEPT ![i] = segment]
             segments == RemoveAt(widened, i + 1)
             cleared == [e.segmentCandidates EXCEPT ![i] = NoCandidates]
             lists == RemoveAt(cleared, i + 1)
             f == [e EXCEPT !.segments = segments, !.segmentCandidates = lists,
                            !.selected = i, !.displayDirty = TRUE]
  <1>1. /\ e.segments \in Seq(Segment) /\ e.segmentCandidates \in Seq(GoodList)
        /\ e.segmentCandidates # <<>> /\ Len(e.segmentCandidates) = Len(e.segments)
        /\ i \in 1 .. Len(e.segments) /\ i \in 1 .. Len(e.segmentCandidates)
        /\ i + 1 \in 1 .. Len(e.segments) /\ i \in Nat \ {0} /\ Len(e.segments) \in Nat
    BY DEF Sound, SoundType, Segmented
  <1>2. e.segments[i] \in Segment /\ e.segments[i + 1] \in Segment
    BY <1>1
  <1>3. e.segments[i].reading \in Text /\ e.segments[i + 1].reading \in Text
    BY <1>2 DEF Segment
  <1>4. joined \in Text
    BY <1>3 DEF Text
  <1>5. segment \in Segment /\ segment.reading = joined
    BY <1>4 DEF Segment
  <1>6. MergeAt(e, i) = RefreshSegmentCandidates(ClearCandidates(f))
    BY <1>1 DEF MergeAt
  <1> HIDE DEF segment
  <1>7. widened \in Seq(Segment) /\ Len(widened) = Len(e.segments)
    BY <1>1, <1>5, UpdateType
  <1>8. cleared \in Seq(GoodList) /\ Len(cleared) = Len(e.segmentCandidates)
    BY <1>1, NoCandidatesGood, UpdateType
  <1> HIDE DEF widened, cleared
  <1>9. segments \in Seq(Segment) /\ Len(segments) = Len(e.segments) - 1
    BY <1>1, <1>7, RemoveAtType
  <1>10. lists \in Seq(GoodList) /\ Len(lists) = Len(e.segments) - 1
    BY <1>1, <1>8, RemoveAtType
  <1> HIDE DEF segments, lists
  <1>11. /\ f \in SoundType /\ SameInput(f, e) /\ f.conversion = e.conversion
         /\ f.segments = segments /\ f.segmentCandidates = lists
         /\ f.displayDirty = TRUE /\ f.selected = i
    BY <1>1, <1>9, <1>10 DEF Sound, SoundType, SameInput
  <1> HIDE DEF f
  <1>12. Sound(f)
    BY <1>11 DEF Sound, SameInput
  <1>13. segments # <<>>
    BY <1>1, <1>9
  <1>a. segments = RemoveAt([e.segments EXCEPT ![i] = segment], i + 1)
    BY DEF segments, widened
  <1>b. Covers(f)
    BY <1>5, <1>11, <1>a, MergedCovers DEF Segmented, SameInput
  <1>14. Segmented(f)
    BY <1>1, <1>9, <1>10, <1>11, <1>13, <1>b DEF Segmented
  <1> DEFINE c == ClearCandidates(f)
  <1>15. Sound(c) /\ Segmented(c) /\ SameInput(c, f)
    BY <1>12, <1>14, NoCandidatesGood
       DEF ClearCandidates, Sound, SoundType, Segmented, SameInput, Covers
  <1> HIDE DEF c
  <1>16. QED BY <1>6, <1>11, <1>15, RefreshSegmentSound DEF SameInput, c

(* rebuildSegments starts a conversion of the right shape.                 *)
LEMMA RebuildSound ==
  ASSUME NEW e, Sound(e), e.buffer # <<>>, NEW cut \in Cuts(Reading(e))
  PROVE LET r == RebuildSegments(e, cut) IN
        Sound(r) /\ Segmented(r) /\ SameInput(r, e)
  <1> DEFINE reading == Reading(e)
             count == Len(cut) - 1
             part(i) == SubSeq(reading, cut[i], cut[i + 1] - 1)
             segments == [i \in 1 .. count |-> [reading |-> part(i), text |-> part(i)]]
             lists == [i \in 1 .. count |-> NoCandidates]
             f == [e EXCEPT !.segments = segments, !.segmentCandidates = lists,
                            !.selected = 1, !.displayDirty = TRUE]
  <1>1. reading \in Text /\ reading # <<>>
    BY ReadingIs
  <1>a. Len(reading) \in Nat \ {0}
    BY <1>1 DEF Text
  <1>2. PICK k \in 1 .. Len(reading) :
          /\ cut \in [1 .. k + 1 -> 1 .. Len(reading) + 1]
          /\ cut[1] = 1 /\ cut[k + 1] = Len(reading) + 1
          /\ \A i \in 1 .. k : cut[i] <= cut[i + 1]
    BY <1>1, CutsAre
  <1>3. Len(reading) \in Nat /\ k \in Nat \ {0}
    BY <1>a
  <1>4. Len(cut) = k + 1
    BY <1>2, <1>3
  <1>5. count = k
    BY <1>3, <1>4
  <1>6. \A i \in 1 .. count : part(i) \in Text
    <2> TAKE i \in 1 .. count
    <2>1. cut[i] \in 1 .. Len(reading) + 1 /\ cut[i + 1] \in 1 .. Len(reading) + 1
      BY <1>2, <1>3, <1>5
    <2> DEFINE m == cut[i]
               n == cut[i + 1] - 1
    <2>2. m \in Nat \ {0} /\ n \in Nat /\ n <= Len(reading)
      BY <1>3, <2>1
    <2> HIDE DEF m, n, reading
    <2>3. SubSeq(reading, m, n) \in Text
      BY <1>1, <2>2, SliceType DEF Text
    <2>4. QED BY <2>3 DEF m, n
  <1>b. Joined([i \in 1 .. k |-> SubSeq(reading, cut[i], cut[i + 1] - 1)], reading)
    BY <1>1, <1>2, <1>3, CutJoined
  <1>c. Joined([i \in 1 .. count |-> part(i)], reading)
    BY <1>5, <1>b
  <1>d. reading = ReadingOf(Convert(e.buffer))
    BY ReadingIs
  <1> HIDE DEF part, count, reading
  <1>7. \A i \in 1 .. count : [reading |-> part(i), text |-> part(i)] \in Segment
    BY <1>6 DEF Segment
  <1>8. segments \in Seq(Segment) /\ Len(segments) = count /\ segments # <<>>
    BY <1>3, <1>5, <1>7
  <1>e. \A i \in 1 .. count : segments[i].reading = part(i)
    OBVIOUS
  <1>f. Readings(segments) = [i \in 1 .. count |-> part(i)]
    <2> HIDE DEF segments
    <2>1. QED BY <1>8, <1>e DEF Readings
  <1>9. lists \in Seq(GoodList) /\ Len(lists) = count
    BY <1>3, <1>5, NoCandidatesGood
  <1>10. RebuildSegments(e, cut) = f
    BY DEF RebuildSegments, part, count, reading
  <1> HIDE DEF segments, lists
  <1>11. 1 \in Nat \ {0}
    OBVIOUS
  <1>12. /\ f \in SoundType /\ SameInput(f, e) /\ f.conversion = e.conversion
         /\ f.segments = segments /\ f.segmentCandidates = lists
         /\ f.displayDirty = TRUE /\ f.selected = 1
    BY <1>8, <1>9, <1>11 DEF Sound, SoundType, SameInput
  <1> HIDE DEF f
  <1>13. Sound(f)
    BY <1>12 DEF Sound, SameInput
  <1>g. Covers(f)
    BY <1>12, <1>c, <1>d, <1>f DEF Covers, SameInput
  <1>14. Segmented(f)
    BY <1>3, <1>5, <1>8, <1>9, <1>12, <1>g DEF Segmented
  <1>15. QED BY <1>10, <1>12, <1>13, <1>14

(* Leaving the conversion leaves a composing engine.                       *)
LEMMA LeaveSound ==
  ASSUME NEW e, Sound(e)
  PROVE LET r == LeaveConversion(e) IN
        /\ Sound(r) /\ r.currentState = "Composing" /\ r.segments = <<>>
        /\ r.buffer = e.buffer /\ ~r.primed
  <1>1. 1 \in Nat \ {0} /\ "Composing" \in States /\ <<>> \in Seq(Segment)
    BY DEF States
  <1> DEFINE c == ClearCandidates(e)
  <1>2. Sound(c) /\ SameInput(c, e) /\ ~c.primed
    BY ClearSound
  <1>3. LeaveConversion(e) = [c EXCEPT !.currentState = "Composing", !.segments = <<>>, !.selected = 1]
    BY DEF LeaveConversion
  <1> HIDE DEF c
  <1>4. QED BY <1>1, <1>2, <1>3 DEF Sound, SoundType, SameInput

-----------------------------------------------------------------------------
(* The buffer *)

(* f is e with another text and cursor, the cursor within the text.        *)
Edit(f, e) ==
  /\ f = [e EXCEPT !.buffer = f.buffer, !.cursor = f.cursor]
  /\ f.buffer \in Text /\ f.cursor \in Nat /\ f.cursor <= Len(f.buffer)

(* A sound buffer has its cursor inside.                                   *)
LEMMA BufferFacts ==
  ASSUME NEW e, Sound(e)
  PROVE /\ e.buffer \in Text /\ e.buffer \in Seq(Glyphs) /\ e.cursor \in Nat
        /\ Len(e.buffer) \in Nat /\ e.cursor <= Len(e.buffer)
  BY DEF Sound, SoundType, Text

(* What an edit of the buffer has to keep.                                 *)
LEMMA EditIntro ==
  ASSUME NEW e, Sound(e), NEW b \in Text, NEW c \in Nat, c <= Len(b), NEW f,
         \/ f = [e EXCEPT !.buffer = b, !.cursor = c]
         \/ f = [e EXCEPT !.buffer = b] /\ c = e.cursor
         \/ f = [e EXCEPT !.cursor = c] /\ b = e.buffer
  PROVE Edit(f, e) /\ f.buffer = b
  BY DEF Edit, Sound, SoundType

(* Inserting a character is an edit.                                       *)
LEMMA InsertEdit ==
  ASSUME NEW e, Sound(e), NEW ch \in Glyphs
  PROVE Edit(Insert(e, ch), e) /\ Insert(e, ch).buffer # <<>>
  <1> DEFINE b == InsertAt(e.buffer, e.cursor + 1, ch)
             c == e.cursor + 1
  <1>1. c \in 1 .. Len(e.buffer) + 1
    BY BufferFacts
  <1>2. b \in Text /\ Len(b) = Len(e.buffer) + 1
    <2> HIDE DEF c
    <2>1. QED BY <1>1, BufferFacts, InsertAtType DEF Text, c
  <1>3. Insert(e, ch) = [e EXCEPT !.buffer = b, !.cursor = c]
    BY DEF Insert
  <1>4. c \in Nat /\ c <= Len(b)
    BY <1>1, <1>2, BufferFacts
  <1>5. b # <<>>
    BY <1>2, BufferFacts
  <1> HIDE DEF b, c
  <1> DEFINE f == Insert(e, ch)
  <1>6. f = [e EXCEPT !.buffer = b, !.cursor = c]
    BY <1>3
  <1> HIDE DEF f
  <1>7. b \in Text
    BY <1>2
  <1>8. f.buffer = b /\ f.cursor = c
    BY <1>6 DEF Sound, SoundType
  <1>9. Edit(f, e)
    BY <1>4, <1>6, <1>7, <1>8 DEF Edit
  <1>10. QED BY <1>5, <1>8, <1>9 DEF f

(* Erasing one letter is an edit.                                          *)
LEMMA RawBackspaceEdit ==
  ASSUME NEW e, Sound(e)
  PROVE Edit(RawBackspace(e), e)
  <1>1. CASE e.cursor = 0
    BY <1>1, BufferFacts DEF RawBackspace, Edit, Sound, SoundType
  <1>2. CASE e.cursor # 0
    <2> DEFINE b == RemoveAt(e.buffer, e.cursor)
               c == e.cursor - 1
    <2>1. e.cursor \in 1 .. Len(e.buffer)
      BY <1>2, BufferFacts
    <2>2. b \in Text /\ Len(b) = Len(e.buffer) - 1
      BY <2>1, BufferFacts, RemoveAtType DEF Text
    <2>3. RawBackspace(e) = [e EXCEPT !.buffer = b, !.cursor = c]
      BY <1>2 DEF RawBackspace, EraseAt, Sound, SoundType
    <2>4. c \in Nat /\ c <= Len(b)
      BY <2>1, <2>2, BufferFacts
    <2> HIDE DEF b, c
    <2>5. QED BY <2>2, <2>3, <2>4, EditIntro
  <1>3. QED BY <1>1, <1>2

(* Erasing the letters of a unit is an edit.                               *)
LEMMA RemoveLastEdit ==
  ASSUME NEW e, Sound(e), e.cursor = Len(e.buffer), NEW k \in Nat, k <= Len(e.buffer)
  PROVE Edit(RemoveLast(e, k), e)
  <1> DEFINE b == SubSeq(e.buffer, 1, Len(e.buffer) - k)
             c == e.cursor - k
  <1>1. Len(e.buffer) - k \in Nat /\ Len(e.buffer) - k <= Len(e.buffer) /\ 1 \in Nat \ {0}
    BY BufferFacts
  <1>2. b \in Text /\ Len(b) = Len(e.buffer) - k
    BY <1>1, BufferFacts, SliceType DEF Text
  <1>3. RemoveLast(e, k) = [e EXCEPT !.buffer = b, !.cursor = c]
    BY DEF RemoveLast
  <1>4. c \in Nat /\ c <= Len(b)
    BY <1>1, <1>2
  <1> HIDE DEF b, c
  <1>5. QED BY <1>2, <1>3, <1>4, EditIntro

(* A set of unit lengths that is not empty has a least one.                *)
LEMMA SmallestUnit ==
  ASSUME NEW units \in SUBSET (1 .. 4), units # {}
  PROVE \E k \in units : \A j \in units : k <= j
  <1>1. CASE 1 \in units
    BY <1>1
  <1>2. CASE 1 \notin units /\ 2 \in units
    BY <1>2
  <1>3. CASE 1 \notin units /\ 2 \notin units /\ 3 \in units
    BY <1>3
  <1>4. CASE 1 \notin units /\ 2 \notin units /\ 3 \notin units
    <2>1. PICK n \in units : TRUE
      OBVIOUS
    <2>2. n = 4 /\ \A j \in units : n <= j
      BY <1>4
    <2>3. QED BY <2>2
  <1>5. QED BY <1>1, <1>2, <1>3, <1>4

(* Backspace is an edit.                                                   *)
LEMMA BackspaceEdit ==
  ASSUME NEW e, Sound(e)
  PROVE Edit(Backspace(e), e)
  <1> DEFINE units == Units(e)
             k == CHOOSE n \in units : \A j \in units : n <= j
  <1>1. CASE units = {}
    BY <1>1, RawBackspaceEdit DEF Backspace
  <1>2. CASE units # {}
    <2>1. /\ units \in SUBSET (1 .. 4) /\ e.cursor = Len(e.buffer)
          /\ \A n \in units : n <= Len(e.buffer)
      BY <1>2 DEF Units, MaxRomajiUnitLength
    <2> HIDE DEF units
    <2>2. k \in units
      BY <1>2, <2>1, SmallestUnit
    <2>3. Backspace(e) = RemoveLast(e, k)
      BY <1>2 DEF Backspace, units
    <2> HIDE DEF k
    <2>4. k \in Nat /\ k <= Len(e.buffer)
      BY <2>1, <2>2
    <2>5. QED BY <2>1, <2>3, <2>4, RemoveLastEdit
  <1>3. QED BY <1>1, <1>2

(* Delete is an edit.                                                      *)
LEMMA DeleteForwardEdit ==
  ASSUME NEW e, Sound(e)
  PROVE Edit(DeleteForward(e), e)
  <1>1. CASE e.cursor >= Len(e.buffer)
    BY <1>1, BufferFacts DEF DeleteForward, Edit, Sound, SoundType
  <1>2. CASE e.cursor < Len(e.buffer)
    <2> DEFINE b == RemoveAt(e.buffer, e.cursor + 1)
    <2>1. e.cursor + 1 \in 1 .. Len(e.buffer)
      BY <1>2, BufferFacts
    <2>2. b \in Text /\ Len(b) = Len(e.buffer) - 1
      BY <2>1, BufferFacts, RemoveAtType DEF Text
    <2>3. DeleteForward(e) = [e EXCEPT !.buffer = b]
      BY <1>2, BufferFacts DEF DeleteForward, EraseAt
    <2>4. e.cursor \in Nat /\ e.cursor <= Len(b)
      BY <1>2, <2>2, BufferFacts
    <2> HIDE DEF b
    <2>5. QED BY <2>2, <2>3, <2>4, EditIntro
  <1>3. QED BY <1>1, <1>2, BufferFacts

(* A move of the caret is an edit.                                         *)
LEMMA MoveCursorEdit ==
  ASSUME NEW e, Sound(e)
  PROVE Edit(MoveCursorLeft(e), e) /\ Edit(MoveCursorRight(e), e)
  <1> DEFINE l == IF e.cursor = 0 THEN 0 ELSE e.cursor - 1
             r == IF e.cursor >= Len(e.buffer) THEN e.cursor ELSE e.cursor + 1
  <1>1. /\ l \in Nat /\ l <= Len(e.buffer) /\ r \in Nat /\ r <= Len(e.buffer)
        /\ e.buffer \in Text
    BY BufferFacts
  <1>2. MoveCursorLeft(e) = [e EXCEPT !.cursor = l] /\ MoveCursorRight(e) = [e EXCEPT !.cursor = r]
    BY DEF MoveCursorLeft, MoveCursorRight
  <1> HIDE DEF l, r
  <1>3. QED BY <1>1, <1>2, EditIntro

(* An edit with the cached conversion dropped is sound again.              *)
LEMMA EditSound ==
  ASSUME NEW e, Sound(e), NEW f, Edit(f, e)
  PROVE LET i == InvalidateConversion(f) IN
        /\ Sound(i) /\ i.buffer = f.buffer /\ i.currentState = e.currentState
        /\ i.segments = e.segments /\ i.candidates = e.candidates /\ i.primed = e.primed
  <1>1. /\ f \in SoundType /\ f.cursor <= Len(f.buffer) /\ f.currentState = e.currentState
        /\ f.segments = e.segments /\ f.candidates = e.candidates /\ f.primed = e.primed
    BY DEF Edit, Sound, SoundType
  <1>2. QED BY <1>1, InvalidateSound DEF SameInput

-----------------------------------------------------------------------------
(* Answers *)

(* createOutput clamps the list and rebuilds a dirty display cache.        *)
LEMMA RenderSound ==
  ASSUME NEW e, Sound(e), Phase(e)
  PROVE LET r == Render(e) IN
        /\ Sound(r) /\ Phase(r)
        /\ r.currentState = e.currentState /\ r.buffer = e.buffer
        /\ r.segments = e.segments /\ r.candidates = e.candidates /\ r.primed = e.primed
        /\ r.cursor = e.cursor
        /\ r.currentState = "Converting" => r.selected = e.selected /\ r.display = Texts(r.segments)
  <1>1. CASE e.currentState \notin {"Composing", "Converting"}
    BY <1>1 DEF Render
  <1>2. Sanitize(e.candidates) = e.candidates /\ 1 \in Nat \ {0}
    BY SanitizeKeepsGood DEF Sound, SoundType
  <1>3. CASE e.currentState = "Composing"
    <2> DEFINE r == [e EXCEPT !.selected = 1]
    <2>1. e.segments = <<>> /\ [r EXCEPT !.candidates = e.candidates] = r
      BY <1>3 DEF Phase, Sound, SoundType
    <2>2. Render(e) = r
      BY <1>2, <1>3, <2>1 DEF Render, SanitizeSegmentIndex, Sound, SoundType
    <2> HIDE DEF r
    <2>3. /\ r \in SoundType /\ r.buffer = e.buffer /\ r.cursor = e.cursor
          /\ r.conversion = e.conversion /\ r.segments = e.segments
          /\ r.candidates = e.candidates /\ r.primed = e.primed
          /\ r.currentState = "Composing"
      BY <1>2, <1>3 DEF r, Sound, SoundType
    <2>4. QED BY <1>3, <2>2, <2>3 DEF Sound, Phase
  <1>4. CASE e.currentState = "Converting"
    <2> DEFINE texts == Texts(e.segments)
               r == IF e.displayDirty THEN [e EXCEPT !.display = texts, !.displayDirty = FALSE]
                    ELSE e
    <2>1. Segmented(e) /\ Previewed(e) /\ e.buffer # <<>> /\ SanitizeSegmentIndex(e) = e
      BY <1>4, SegmentedFacts DEF Phase
    <2>a. \A i \in 1 .. Len(e.segments) : e.segments[i] \in Segment
      BY DEF Sound, SoundType
    <2>2. \A i \in 1 .. Len(e.segments) : e.segments[i].text \in Text
      BY <2>a DEF Segment
    <2>3. texts \in Seq(Text)
      BY <2>2 DEF Texts, Sound, SoundType
    <2>4. Render(e) = [r EXCEPT !.candidates = Sanitize(r.candidates)]
      BY <1>4, <2>1 DEF Render, EnsureDisplay, Segmented
    <2>5. r.candidates = e.candidates
      BY DEF Sound, SoundType
    <2> HIDE DEF texts
    <2>6. /\ r \in SoundType /\ r.buffer = e.buffer /\ r.cursor = e.cursor
          /\ r.conversion = e.conversion /\ r.segments = e.segments
          /\ r.segmentCandidates = e.segmentCandidates /\ r.selected = e.selected
          /\ r.primed = e.primed /\ r.currentState = "Converting"
      BY <1>4, <2>3 DEF Sound, SoundType
    <2>7. ~r.displayDirty /\ r.display = texts
      BY <2>1 DEF Segmented, texts, Sound, SoundType
    <2> HIDE DEF r
    <2>8. Render(e) = r
      BY <1>2, <2>4, <2>5, <2>6 DEF SoundType
    <2>9. Sound(r)
      BY <2>6 DEF Sound
    <2>10. Segmented(r) /\ Previewed(r)
      BY <2>1, <2>5, <2>6, <2>7, SameCovers DEF Segmented, Previewed, HighlightedText, texts
    <2>11. QED BY <1>4, <2>1, <2>5, <2>6, <2>7, <2>8, <2>9, <2>10 DEF Phase, texts
  <1>5. QED BY <1>1, <1>3, <1>4

(* Any sound engine with what it has just shown satisfies the invariant.   *)
LEMMA AnswerInv ==
  ASSUME NEW e, Sound(e), Phase(e), NEW conversion \in Converted, NEW consumed \in BOOLEAN,
         conversion = Convert(e.buffer), Answer(e, conversion, consumed)
  PROVE /\ IInv' /\ ime'.currentState = e.currentState /\ ime'.segments = e.segments
        /\ ime'.candidates = e.candidates /\ ime'.buffer = e.buffer
        /\ ime'.primed = e.primed /\ ime'.cursor = e.cursor
        /\ out'.commit = <<>>
  <1> DEFINE r == Render(e)
             shown == Shown(r, conversion)
  <1>1. /\ Sound(r) /\ Phase(r)
        /\ r.currentState = e.currentState /\ r.buffer = e.buffer
        /\ r.segments = e.segments /\ r.candidates = e.candidates /\ r.primed = e.primed
        /\ r.cursor = e.cursor
        /\ r.currentState = "Converting" => r.selected = e.selected /\ r.display = Texts(r.segments)
    BY RenderSound
  <1> DEFINE answer == [isConsumed |-> consumed, composition |-> shown, candidates |-> Listed(r),
                        commit |-> <<>>, learned |-> <<>>]
  <1>2. ime' = r /\ out' = answer
    BY DEF Answer
  <1> HIDE DEF r
  <1>3. ReadingOf(conversion) \in Text
    BY ReadingOfType
  <1>4. <<ReadingOf(conversion)>> \in Seq(Text) /\ <<>> \in Seq(Text) /\ <<>> \in Seq(Segment)
    BY <1>3
  <1>5. r.display \in Seq(Text) /\ r.selected \in Nat
    BY <1>1 DEF Sound, SoundType
  <1>6. shown \in [parts : Seq(Text), focus : Nat]
    BY <1>4, <1>5 DEF Shown, NoComposition
  <1>7. Listed(r) \in Lists
    BY <1>1, NoCandidatesGood DEF Listed, Sound, SoundType, GoodList
  <1>8. r.currentState = "Converting" =>
          shown = [parts |-> Texts(r.segments), focus |-> r.selected]
    BY <1>1 DEF Shown, Phase, Segmented
  <1>a. r.currentState = "Composing" =>
          shown.parts = <<ReadingOf(Convert(r.buffer))>> /\ Listed(r) = r.candidates
    BY <1>1 DEF Shown, Phase, Listed
  <1> HIDE DEF shown
  <1>9. answer \in OutputType /\ answer.composition = shown /\ answer.commit = <<>>
        /\ answer.candidates = Listed(r)
    BY <1>4, <1>6, <1>7 DEF OutputType
  <1> HIDE DEF answer
  <1>10. IInv'
    BY <1>1, <1>2, <1>8, <1>9, <1>a DEF IInv, Converting, Composing
  <1>11. QED BY <1>1, <1>2, <1>9, <1>10

(* Answering from a fresh conversion establishes the invariant.            *)
LEMMA RespondFreshInv ==
  ASSUME NEW e, Sound(e), Phase(e), NEW consumed \in BOOLEAN, RespondFresh(e, consumed)
  PROVE /\ IInv' /\ ime'.currentState = e.currentState /\ ime'.segments = e.segments
        /\ ime'.candidates = e.candidates /\ ime'.buffer = e.buffer
        /\ ime'.primed = e.primed /\ ime'.cursor = e.cursor
        /\ out'.commit = <<>>
  BY AnswerInv, ConvertType, BufferFacts DEF RespondFresh

(* Building the conversion keeps a composing engine composing.             *)
LEMMA BuildPhase ==
  ASSUME NEW e, Sound(e), Phase(e)
  PROVE Phase(BuildConversion(e))
  BY BuildSound DEF Phase, SameInput

(* Answering a key establishes the invariant.                              *)
LEMMA RespondInv ==
  ASSUME NEW e, Sound(e), Phase(e), NEW consumed \in BOOLEAN, Respond(e, consumed)
  PROVE /\ IInv' /\ ime'.currentState = e.currentState /\ ime'.segments = e.segments
        /\ ime'.candidates = e.candidates /\ ime'.buffer = e.buffer
        /\ ime'.primed = e.primed /\ ime'.cursor = e.cursor
        /\ out'.commit = <<>>
  <1> DEFINE b == BuildConversion(e)
  <1>1. /\ Sound(b) /\ Phase(b) /\ b.conversion \in Converted /\ b.conversion = Convert(b.buffer)
        /\ SameInput(b, e) /\ b.segments = e.segments /\ b.candidates = e.candidates
        /\ b.primed = e.primed
    BY BuildSound, BuildPhase DEF SameInput
  <1>2. Answer(b, b.conversion, consumed)
    BY DEF Respond
  <1> HIDE DEF b
  <1>3. QED BY <1>1, <1>2, AnswerInv DEF SameInput

(* A state outside a session. *)
LEMMA ClosedPhase ==
  ASSUME NEW e, NEW state \in {"Direct", "Idle", "Committed"}, Sound(e),
         e.buffer = <<>>, e.segments = <<>>, ~HasItems(e.candidates), ~e.primed
  PROVE LET f == In(e, state) IN
        /\ Sound(f) /\ Phase(f) /\ f.currentState = state
        /\ f.buffer = <<>> /\ f.segments = <<>> /\ ~HasItems(f.candidates) /\ ~f.primed
  <1>1. state \in States
    BY DEF States
  <1>2. QED BY <1>1 DEF In, Sound, SoundType, Phase

(* A commit that ends the session establishes the invariant.               *)
LEMMA CommitInv ==
  ASSUME NEW e, Sound(e), NEW parts \in Seq(Text), NEW learned \in Seq(Segment),
         CommitSession(e, parts, learned)
  PROVE IInv' /\ ime'.currentState = "Committed" /\ out'.isConsumed /\ out'.commit = parts
  <1> DEFINE reset == ResetSession(e)
  <1>1. /\ Sound(reset) /\ reset.dictionary \in Dictionaries
        /\ reset.buffer = <<>> /\ reset.segments = <<>>
        /\ ~HasItems(reset.candidates) /\ ~reset.primed
    BY ResetSound DEF Sound, SoundType
  <1>2. PICK d \in Learned(e.dictionary, learned) :
          /\ ime' = [reset EXCEPT !.currentState = "Committed", !.dictionary = d]
          /\ out' = [isConsumed |-> TRUE, composition |-> NoComposition, candidates |-> NoCandidates,
                     commit |-> parts, learned |-> learned]
    BY DEF CommitSession
  <1>3. d \in Dictionaries /\ "Committed" \in States
    BY <1>2 DEF Learned, States, Sound, SoundType
  <1> HIDE DEF reset
  <1> DEFINE f == [reset EXCEPT !.currentState = "Committed", !.dictionary = d]
  <1>4. /\ f \in SoundType /\ f.currentState = "Committed" /\ f.cursor = reset.cursor
        /\ f.conversion = reset.conversion
        /\ f.buffer = <<>> /\ f.segments = <<>> /\ f.candidates = reset.candidates
        /\ f.primed = reset.primed
    BY <1>1, <1>3 DEF Sound, SoundType
  <1>5. ime' = f
    BY <1>2
  <1> HIDE DEF f
  <1>6. Sound(f) /\ Phase(f)
    BY <1>1, <1>4 DEF Sound, Phase
  <1>7. <<>> \in Seq(Text) /\ NoCandidates \in Lists
    BY NoCandidatesGood DEF GoodList
  <1>8. out' \in OutputType
    BY <1>2, <1>7 DEF OutputType, NoComposition
  <1>9. out'.isConsumed /\ out'.commit = parts
    BY <1>2
  <1>10. IInv'
    BY <1>4, <1>5, <1>6, <1>8 DEF IInv, Converting, Composing
  <1>11. QED BY <1>4, <1>5, <1>9, <1>10

-----------------------------------------------------------------------------
(* The actions, outside a session and while composing *)

(* A closed session has no input, no segments and no candidates.           *)
LEMMA Closed ==
  ASSUME IInv, ime.currentState \in {"Direct", "Idle", "Committed"}
  PROVE /\ Sound(ime) /\ ime.buffer = <<>> /\ ime.segments = <<>>
        /\ ~HasItems(ime.candidates) /\ ~ime.primed
  BY DEF IInv, Phase

(* A session thrown away: every field a later key could see is cleared.    *)
LEMMA ClosedByReset ==
  ASSUME IInv, NEW state \in {"Direct", "Idle", "Committed"}
  PROVE LET f == ResetSession(In(ime, state)) IN
        /\ Sound(f) /\ Phase(f) /\ f.currentState = state
  <1>1. state \in States
    BY DEF States
  <1> DEFINE s == In(ime, state)
  <1>2. Sound(s) /\ s.currentState = state
    BY <1>1 DEF IInv, In, Sound, SoundType
  <1> HIDE DEF s
  <1>3. QED BY <1>2, ResetSound DEF Phase, s

(* The keys that switch the mode keep the invariant.                       *)
LEMMA ModeKeysInv ==
  ASSUME IInv, ToggleIme \/ ModeLatin \/ ModeHiragana \/ PassThrough
  PROVE IInv'
  <1>1. CASE ToggleIme
    <2>1. CASE ime.currentState = "Direct"
      BY <1>1, <2>1, Closed, ClosedPhase, RespondFreshInv DEF ToggleIme
    <2>2. CASE ime.currentState # "Direct"
      BY <1>1, <2>2, ClosedByReset, RespondFreshInv DEF ToggleIme
    <2>3. QED BY <2>1, <2>2
  <1>2. CASE ModeLatin
    BY <1>2, ClosedByReset, RespondFreshInv DEF ModeLatin
  <1>3. CASE ModeHiragana
    <2>1. CASE ime.currentState = "Direct"
      BY <1>3, <2>1, Closed, ClosedPhase, RespondFreshInv DEF ModeHiragana
    <2>2. CASE ime.currentState # "Direct"
      BY <1>3, <2>2, RespondFreshInv DEF ModeHiragana, IInv
    <2>3. QED BY <2>1, <2>2
  <1>4. CASE PassThrough
    BY <1>4, RespondFreshInv DEF PassThrough, IInv
  <1>5. QED BY <1>1, <1>2, <1>3, <1>4

(* A key that an idle engine ignores keeps the invariant.                  *)
LEMMA IdleOtherInv == ASSUME IInv, IdleOther PROVE IInv'
  BY Closed, ClosedPhase, RespondFreshInv DEF IdleOther, Ready

(* A mark committed from an idle engine keeps the invariant.               *)
LEMMA IdleCommitInv ==
  ASSUME IInv, NEW mark \in Marks \cup {LongVowel}, IdleCommit(mark)
  PROVE IInv'
  <1> DEFINE f == In(ime, "Committed")
  <1>1. Sound(f) /\ Phase(f) /\ f.currentState = "Committed"
    BY Closed, ClosedPhase DEF IdleCommit, Ready
  <1>2. mark \in Glyphs
    BY GlyphAssumption
  <1>3. /\ <<<<mark>>>> \in Seq(Text) /\ <<>> \in Seq(Text) /\ <<>> \in Seq(Segment)
        /\ NoCandidates \in Lists
    BY <1>2, NoCandidatesGood DEF Text, GoodList
  <1>4. out' \in OutputType /\ ime' = f
    BY <1>3 DEF IdleCommit, OutputType, NoComposition
  <1> HIDE DEF f
  <1>5. QED BY <1>1, <1>4 DEF IInv, Converting, Composing

(* An inserted character leaves a sound composition.                       *)
LEMMA InsertedPhase ==
  ASSUME NEW e, Sound(e), e.currentState = "Composing", e.segments = <<>>, NEW ch \in Glyphs
  PROVE Sound(Inserted(e, ch)) /\ Phase(Inserted(e, ch))
  <1> DEFINE f == Insert(e, ch)
             i == InvalidateConversion(f)
  <1>1. Edit(f, e) /\ f.buffer # <<>>
    BY InsertEdit
  <1> HIDE DEF f
  <1>2. Sound(i) /\ i.buffer # <<>> /\ i.currentState = "Composing" /\ i.segments = <<>>
    BY <1>1, EditSound
  <1>3. Inserted(e, ch) = RefreshPredictions(i)
    BY DEF Inserted, f
  <1> HIDE DEF i
  <1>4. QED BY <1>2, <1>3, RefreshPredictionsSound DEF SameInput, Phase

(* The first character of a session keeps the invariant.                   *)
LEMMA IdleInsertInv ==
  ASSUME IInv, NEW ch \in InputChars, IdleInsert(ch)
  PROVE IInv'
  <1> DEFINE f == In(ime, "Composing")
  <1>1. "Composing" \in States /\ ch \in Glyphs
    BY GlyphAssumption DEF States
  <1>2. Sound(f) /\ f.currentState = "Composing" /\ f.segments = <<>>
    BY <1>1, Closed DEF IdleInsert, Ready, In, Sound, SoundType
  <1>3. Respond(Inserted(f, ch), TRUE)
    BY DEF IdleInsert
  <1> HIDE DEF f
  <1>4. QED BY <1>1, <1>2, <1>3, InsertedPhase, RespondInv

(* What the invariant says while composing.                                *)
LEMMA ComposingFacts ==
  ASSUME IInv, Composing
  PROVE /\ Sound(ime) /\ Phase(ime) /\ ime.currentState = "Composing"
        /\ ime.buffer # <<>> /\ ime.segments = <<>>
        /\ ime.candidates \in GoodList
        /\ ime.primed => HasItems(ime.candidates)
  BY DEF IInv, Composing, Phase, Sound, SoundType

(* A further character keeps the invariant.                                *)
LEMMA ComposingInsertInv ==
  ASSUME IInv, NEW ch \in InputChars \cup {LongVowel}, ComposingInsert(ch)
  PROVE IInv'
  BY ComposingFacts, GlyphAssumption, InsertedPhase, RespondInv DEF ComposingInsert

(* Every edit of the composition ends in a state of the invariant.         *)
LEMMA AfterEditInv ==
  ASSUME IInv, Composing, NEW f, Edit(f, ime), AfterEdit(f)
  PROVE IInv'
  <1> DEFINE i == InvalidateConversion(f)
  <1>1. /\ Sound(i) /\ i.currentState = "Composing" /\ i.segments = <<>>
    BY ComposingFacts, EditSound
  <1>2. IF i.buffer = <<>> THEN RespondFresh(In(ClearCandidates(i), "Idle"), TRUE)
        ELSE Respond(RefreshPredictions(i), TRUE)
    BY DEF AfterEdit
  <1> HIDE DEF i
  <1>3. CASE i.buffer = <<>>
    BY <1>1, <1>2, <1>3, ClearSound, ClosedPhase, RespondFreshInv DEF SameInput
  <1>4. CASE i.buffer # <<>>
    <2> DEFINE p == RefreshPredictions(i)
    <2>1. Sound(p) /\ Phase(p)
      BY <1>1, <1>4, RefreshPredictionsSound DEF SameInput, Phase
    <2>2. Respond(p, TRUE)
      BY <1>2, <1>4
    <2> HIDE DEF p
    <2>3. QED BY <2>1, <2>2, RespondInv
  <1>5. QED BY <1>3, <1>4

(* Backspace and Delete keep the invariant.                                *)
LEMMA EditKeysInv ==
  ASSUME IInv, ComposingBackspace \/ ComposingDelete
  PROVE IInv'
  BY ComposingFacts, BackspaceEdit, DeleteForwardEdit, AfterEditInv
     DEF ComposingBackspace, ComposingDelete

(* The cursor keys keep the text, and with it the cached conversion.       *)
LEMMA CursorPhase ==
  ASSUME IInv, Composing, NEW f, Edit(f, ime), f.buffer = ime.buffer
  PROVE LET c == ClearCandidates(f) IN Sound(c) /\ Phase(c)
  <1>1. /\ Sound(f) /\ f.currentState = "Composing" /\ f.segments = <<>> /\ f.buffer # <<>>
    BY ComposingFacts DEF Edit, Sound, SoundType
  <1>2. QED BY <1>1, ClearSound DEF SameInput, Phase

(* The keys that move the caret keep the invariant.                        *)
LEMMA CursorKeysInv ==
  ASSUME IInv, ComposingLeft \/ ComposingRight
  PROVE IInv'
  <1>1. Composing /\ Sound(ime)
    BY ComposingFacts DEF ComposingLeft, ComposingRight
  <1>2. MoveCursorLeft(ime).buffer = ime.buffer /\ MoveCursorRight(ime).buffer = ime.buffer
    BY <1>1 DEF MoveCursorLeft, MoveCursorRight, Sound, SoundType
  <1>3. QED BY <1>1, <1>2, MoveCursorEdit, CursorPhase, RespondInv
            DEF ComposingLeft, ComposingRight

(* Dropping the predictions keeps a composing engine composing.            *)
LEMMA ClearPhase ==
  ASSUME IInv, Composing
  PROVE Sound(ClearCandidates(ime)) /\ Phase(ClearCandidates(ime))
  BY ComposingFacts, ClearSound DEF SameInput, Phase

(* A refreshed list of predictions keeps a composing engine composing.     *)
LEMMA PredictionsPhase ==
  ASSUME IInv, Composing
  PROVE LET p == RefreshPredictions(ime) IN
        Sound(p) /\ Phase(p) /\ p.currentState = "Composing"
  BY ComposingFacts, RefreshPredictionsSound DEF SameInput, Phase

(* Priming a visible prediction keeps a composing engine composing.        *)
LEMMA PrimePhase ==
  ASSUME NEW e, Sound(e), Phase(e), e.currentState = "Composing",
         NEW list \in GoodList, HasItems(list)
  PROVE Sound(Prime(e, list)) /\ Phase(Prime(e, list))
  <1> DEFINE p == Prime(e, list)
  <1>1. /\ p \in SoundType /\ p.buffer = e.buffer /\ p.cursor = e.cursor
        /\ p.conversion = e.conversion /\ p.segments = e.segments /\ p.candidates = list
        /\ p.currentState = e.currentState
    BY DEF Prime, Sound, SoundType
  <1> HIDE DEF p
  <1>2. Sound(p)
    BY <1>1 DEF Sound
  <1>3. Phase(p)
    BY <1>1 DEF Phase
  <1>4. QED BY <1>2, <1>3 DEF p

(* Escape while composing keeps the invariant.                             *)
LEMMA EscapeInv ==
  ASSUME IInv, ComposingEscape \/ ComposingUnhandled
  PROVE IInv'
  <1>1. Composing
    BY DEF ComposingEscape, ComposingUnhandled
  <1>2. QED BY <1>1, ComposingFacts, ClearPhase, RespondInv DEF ComposingEscape, ComposingUnhandled

(* A move among the predictions keeps the invariant.                       *)
LEMMA MovePredictionInv ==
  ASSUME IInv, Composing, NEW list \in GoodList, HasItems(ime.candidates) => HasItems(list),
         NEW reopen \in BOOLEAN, MovePrediction(list, reopen)
  PROVE IInv'
  <1>1. HasItems(RefreshPredictions(ime).candidates) \in BOOLEAN
    BY DEF HasItems
  <1>2. CASE HasItems(ime.candidates)
    BY <1>2, ComposingFacts, PrimePhase, RespondInv DEF MovePrediction
  <1>3. CASE ~HasItems(ime.candidates) /\ reopen
    BY <1>1, <1>3, PredictionsPhase, RespondInv DEF MovePrediction
  <1>4. CASE ~HasItems(ime.candidates) /\ ~reopen
    BY <1>4, ComposingFacts, RespondInv DEF MovePrediction
  <1>5. QED BY <1>2, <1>3, <1>4

(* The moves within a list drop no item.                                   *)
LEMMA MovesKeepItems ==
  ASSUME NEW list \in GoodList, HasItems(list), NEW delta \in Int, NEW last \in BOOLEAN
  PROVE /\ HasItems(MoveSelection(list, delta)) /\ HasItems(MoveSelectionClamped(list, delta))
        /\ HasItems(SelectBoundary(list, last))
  BY DEF MoveSelection, MoveSelectionClamped, SelectBoundary, Select, HasItems, GoodList, Lists

(* The keys that move among predictions keep the invariant.                *)
LEMMA ComposingMoveInv ==
  ASSUME IInv, ComposingMove \/ ComposingBoundary
  PROVE IInv'
  <1>1. Composing
    BY DEF ComposingMove, ComposingBoundary
  <1> DEFINE list == ime.candidates
  <1>2. list \in GoodList /\ PageSize \in Int /\ -PageSize \in Int /\ 1 \in Int /\ -1 \in Int
    BY <1>1, ComposingFacts DEF PageSize
  <1> DEFINE next == MoveSelection(list, 1)
             previous == MoveSelection(list, -1)
             down == MoveSelectionClamped(list, PageSize)
             up == MoveSelectionClamped(list, -PageSize)
  <1>3. next \in GoodList /\ previous \in GoodList /\ down \in GoodList /\ up \in GoodList
    BY <1>2, MoveGood, MoveClampedGood
  <1>4. HasItems(list) => HasItems(next) /\ HasItems(previous) /\ HasItems(down) /\ HasItems(up)
    BY <1>2, MovesKeepItems
  <1>5. CASE ComposingMove
    <2>1. \/ MovePrediction(next, TRUE) \/ MovePrediction(previous, FALSE)
          \/ MovePrediction(down, TRUE) \/ MovePrediction(up, FALSE)
      BY <1>5 DEF ComposingMove
    <2> HIDE DEF next, previous, down, up
    <2>2. QED BY <1>1, <1>3, <1>4, <2>1, MovePredictionInv
  <1>6. CASE ComposingBoundary
    <2>1. PICK last \in BOOLEAN : MovePrediction(SelectBoundary(list, last), FALSE)
      BY <1>6 DEF ComposingBoundary
    <2>2. SelectBoundary(list, last) \in GoodList
      BY <1>2, BoundaryGood
    <2>3. HasItems(list) => HasItems(SelectBoundary(list, last))
      BY <1>2, MovesKeepItems
    <2>4. QED BY <1>1, <2>1, <2>2, <2>3, MovePredictionInv
  <1>7. QED BY <1>5, <1>6

(* Space on predictions keeps the invariant.                               *)
LEMMA ComposingSpaceInv == ASSUME IInv, ComposingSpace PROVE IInv'
  <1> DEFINE reopened == RefreshPredictions(ime)
             list == ime.candidates
             moved == IF ime.primed THEN MoveSelection(list, 1) ELSE list
  <1>1. Composing
    BY DEF ComposingSpace
  <1>2. Sound(reopened) /\ Phase(reopened) /\ reopened.currentState = "Composing"
    BY <1>1, PredictionsPhase
  <1>3. IF ~HasItems(list)
        THEN Respond(IF HasItems(reopened.candidates) THEN Prime(reopened, reopened.candidates)
                     ELSE ClearCandidates(reopened), TRUE)
        ELSE Respond(Prime(ime, moved), TRUE)
    BY DEF ComposingSpace
  <1> HIDE DEF reopened
  <1>4. CASE ~HasItems(list) /\ HasItems(reopened.candidates)
    <2> DEFINE p == Prime(reopened, reopened.candidates)
    <2>1. reopened.candidates \in GoodList
      BY <1>2 DEF Sound, SoundType
    <2>2. Sound(p) /\ Phase(p)
      BY <1>2, <1>4, <2>1, PrimePhase
    <2>3. Respond(p, TRUE)
      BY <1>3, <1>4
    <2> HIDE DEF p
    <2>4. QED BY <2>2, <2>3, RespondInv
  <1>5. CASE ~HasItems(list) /\ ~HasItems(reopened.candidates)
    <2>1. Sound(ClearCandidates(reopened)) /\ Phase(ClearCandidates(reopened))
      BY <1>2, ClearSound DEF SameInput, Phase
    <2>2. QED BY <1>3, <1>5, <2>1, RespondInv
  <1>6. CASE HasItems(list)
    <2>1. list \in GoodList /\ 1 \in Int /\ TRUE \in BOOLEAN
      BY <1>1, ComposingFacts
    <2>2. MoveSelection(list, 1) \in GoodList /\ HasItems(MoveSelection(list, 1))
      BY <1>6, <2>1, MoveGood, MovesKeepItems
    <2>3. moved \in GoodList /\ HasItems(moved)
      BY <1>6, <2>1, <2>2
    <2> HIDE DEF moved
    <2>4. QED BY <1>1, <1>3, <1>6, <2>3, ComposingFacts, PrimePhase, RespondInv
  <1>7. QED BY <1>4, <1>5, <1>6

(* Starting a conversion keeps the invariant.                              *)
LEMMA StartConversionInv == ASSUME IInv, StartConversion PROVE IInv'
  <1> DEFINE b == BuildConversion(ime)
  <1>1. /\ Composing /\ \E cut \in Cuts(Reading(b)) :
             Respond(In(RefreshSegmentCandidates(RebuildSegments(b, cut)), "Converting"), TRUE)
    BY DEF StartConversion
  <1>2. Sound(b) /\ b.buffer # <<>>
    BY <1>1, ComposingFacts, BuildSound DEF SameInput
  <1> HIDE DEF b
  <1>3. PICK cut \in Cuts(Reading(b)) :
          Respond(In(RefreshSegmentCandidates(RebuildSegments(b, cut)), "Converting"), TRUE)
    BY <1>1
  <1> DEFINE s == RebuildSegments(b, cut)
             r == RefreshSegmentCandidates(s)
             f == In(r, "Converting")
  <1>4. Sound(s) /\ Segmented(s) /\ SameInput(s, b)
    BY <1>2, RebuildSound
  <1> HIDE DEF s
  <1>5. Sound(r) /\ Segmented(r) /\ Previewed(r) /\ r.buffer # <<>>
    BY <1>2, <1>4, RefreshSegmentSound DEF SameInput
  <1>6. Respond(f, TRUE)
    BY <1>3 DEF s
  <1> HIDE DEF r
  <1>7. "Converting" \in States
    BY DEF States
  <1>8. /\ f \in SoundType /\ f.currentState = "Converting" /\ f.buffer = r.buffer
        /\ f.cursor = r.cursor /\ f.conversion = r.conversion /\ f.segments = r.segments
        /\ f.segmentCandidates = r.segmentCandidates /\ f.selected = r.selected
        /\ f.candidates = r.candidates /\ f.display = r.display /\ f.displayDirty = r.displayDirty
    BY <1>5, <1>7 DEF In, Sound, SoundType
  <1> HIDE DEF f
  <1>9. Sound(f) /\ Segmented(f) /\ Previewed(f)
    BY <1>5, <1>8, SameCovers DEF Sound, Segmented, Previewed, HighlightedText
  <1>10. Phase(f)
    BY <1>5, <1>8, <1>9 DEF Phase
  <1>11. QED BY <1>6, <1>9, <1>10, RespondInv

(* Committing the composition as it reads keeps the invariant.             *)
LEMMA CommitCompositionInv ==
  ASSUME IInv, Composing, NEW text \in Text, NEW suffix \in Seq(Text),
         CommitComposition(text, suffix)
  PROVE IInv' /\ ime'.currentState = "Committed" /\ out'.isConsumed /\ out'.commit = <<text>> \o suffix
  <1> DEFINE parts == <<text>> \o suffix
             learned == <<[reading |-> Reading(ime), text |-> text]>>
  <1>1. Reading(ime) \in Text
    BY ComposingFacts, ReadingIs
  <1>2. [reading |-> Reading(ime), text |-> text] \in Segment
    BY <1>1 DEF Segment
  <1>3. parts \in Seq(Text) /\ learned \in Seq(Segment)
    BY <1>2
  <1>4. CommitSession(ime, parts, learned)
    BY DEF CommitComposition
  <1> HIDE DEF parts, learned
  <1>5. QED BY <1>3, <1>4, ComposingFacts, CommitInv DEF parts

(* The highlighted item of a list is a text.                               *)
LEMMA HighlightedType ==
  ASSUME IInv, NEW otherwise \in Text
  PROVE Highlighted(otherwise) \in Text
  BY SelectedTextType DEF Highlighted, IInv, Sound, SoundType

(* A digit, Enter or a mark while composing keeps the invariant.           *)
LEMMA ComposingCommitInv ==
  ASSUME IInv,
         \/ \E digit \in Digits : ComposingDigit(digit)
         \/ ComposingEnter
         \/ \E mark \in Marks : ComposingMark(mark)
  PROVE IInv'
  <1>1. Composing
    BY DEF ComposingDigit, ComposingEnter, ComposingMark
  <1>2. Reading(ime) \in Text /\ <<>> \in Seq(Text) /\ Highlighted(Reading(ime)) \in Text
    BY <1>1, ComposingFacts, ReadingIs, HighlightedType
  <1>3. CASE \E digit \in Digits : ComposingDigit(digit)
    <2>1. PICK digit \in Digits : ComposingDigit(digit)
      BY <1>3
    <2> DEFINE list == Select(ime.candidates, digit)
    <2>2. ime.candidates \in Lists /\ digit \in 0 .. Len(ime.candidates.items) - 1
      BY <1>1, <2>1, ComposingFacts DEF ComposingDigit, CanSelect, GoodList
    <2>3. list \in GoodList /\ HasItems(list)
      BY <2>2, SelectGood DEF Select, HasItems, Lists
    <2>4. SelectedText(list) \in Text
      BY <2>3, SelectedTextType
    <2>5. QED BY <1>1, <1>2, <2>1, <2>4, CommitCompositionInv DEF ComposingDigit
  <1>4. CASE ComposingEnter
    <2> DEFINE text == IF ime.primed THEN Highlighted(Reading(ime)) ELSE Reading(ime)
    <2>1. text \in Text
      BY <1>2
    <2>2. CommitComposition(text, <<>>)
      BY <1>4 DEF ComposingEnter
    <2> HIDE DEF text
    <2>3. QED BY <1>1, <1>2, <2>1, <2>2, CommitCompositionInv
  <1>5. CASE \E mark \in Marks : ComposingMark(mark)
    <2>1. PICK mark \in Marks : ComposingMark(mark)
      BY <1>5
    <2>2. <<<<mark>>>> \in Seq(Text)
      BY GlyphAssumption DEF Text
    <2>3. CommitComposition(Highlighted(Reading(ime)), <<<<mark>>>>)
      BY <2>1 DEF ComposingMark
    <2>4. QED BY <1>1, <1>2, <2>2, <2>3, CommitCompositionInv
  <1>6. QED BY <1>3, <1>4, <1>5

-----------------------------------------------------------------------------
(* The actions while converting *)

(* What the invariant says while converting.                               *)
LEMMA ConvertingFacts ==
  ASSUME IInv, Converting
  PROVE /\ Sound(ime) /\ Phase(ime) /\ ime.currentState = "Converting"
        /\ ime.buffer # <<>> /\ Segmented(ime) /\ Previewed(ime)
        /\ ime.candidates \in GoodList
  BY DEF IInv, Converting, Phase, Sound, SoundType

(* A method that ends previewed has answered in phase.                     *)
LEMMA PreviewedInv ==
  ASSUME IInv, Converting, NEW f, Sound(f), Segmented(f), Previewed(f), SameInput(f, ime),
         RespondFresh(f, TRUE)
  PROVE IInv'
  <1>1. Phase(f)
    BY ConvertingFacts DEF SameInput, Phase
  <1>2. QED BY <1>1, RespondFreshInv

(* A highlight moved to an index of the list keeps the shape.              *)
LEMMA HighlightSound ==
  ASSUME IInv, Converting, NEW list \in GoodList
  PROVE LET h == Highlight(list) IN
        Sound(h) /\ Segmented(h) /\ Previewed(h) /\ SameInput(h, ime)
  <1> DEFINE f == [ime EXCEPT !.candidates = list]
  <1>1. Sound(f) /\ Segmented(f) /\ SameInput(f, ime)
    BY ConvertingFacts, NewCandidatesSound
  <1>2. Highlight(list) = SyncPreview(f)
    BY DEF Highlight
  <1> HIDE DEF f
  <1>3. QED BY <1>1, <1>2, SyncPreviewSound DEF SameInput

(* The texts of the segments are texts.                                    *)
LEMMA TextsType ==
  ASSUME NEW segments \in Seq(Segment)
  PROVE Texts(segments) \in Seq(Text)
  <1>1. \A i \in 1 .. Len(segments) : segments[i] \in Segment
    OBVIOUS
  <1>2. \A i \in 1 .. Len(segments) : segments[i].text \in Text
    BY <1>1 DEF Segment
  <1>3. QED BY <1>2 DEF Texts

(* Accepting a segment advances or commits, and keeps the invariant.       *)
LEMMA AcceptInv ==
  ASSUME IInv, Converting, NEW f, Sound(f), Segmented(f), SameInput(f, ime), AcceptSegment(f)
  PROVE /\ IInv'
        /\ ime'.currentState = "Committed" => out'.commit = Texts(f.segments)
  <1>1. CASE IsLastSegment(f)
    <2> DEFINE p == PersistSelection(f)
    <2>1. Sound(p) /\ p.segments = f.segments
      BY PersistSound
    <2>2. p.segments \in Seq(Segment) /\ Texts(p.segments) \in Seq(Text)
      BY <2>1, TextsType DEF Sound, SoundType
    <2>3. CommitSession(p, Texts(p.segments), p.segments)
      BY <1>1 DEF AcceptSegment, CommitConversion
    <2> HIDE DEF p
    <2>4. QED BY <2>1, <2>2, <2>3, CommitInv
  <1>2. CASE ~IsLastSegment(f)
    <2> DEFINE a == Advance(f)
    <2>1. Sound(a) /\ Segmented(a) /\ Previewed(a) /\ SameInput(a, ime)
      BY <1>2, AdvanceSound DEF SameInput
    <2>2. RespondFresh(a, TRUE)
      BY <1>2 DEF AcceptSegment
    <2> HIDE DEF a
    <2>3. Phase(a) /\ a.currentState = "Converting"
      BY <2>1, ConvertingFacts DEF SameInput, Phase
    <2>4. ime'.currentState = "Converting" /\ IInv'
      BY <2>1, <2>2, <2>3, RespondFreshInv
    <2>5. QED BY <2>4
  <1>3. QED BY <1>1, <1>2

(* Enter while converting keeps the invariant.                             *)
LEMMA ConvertingEnterInv ==
  ASSUME IInv, Converting, AcceptSegment(SyncPreview(ime))
  PROVE IInv' /\ (ime'.currentState = "Committed" => out'.commit = out.composition.parts)
  <1> DEFINE s == SyncPreview(ime)
  <1>1. Sound(s) /\ Segmented(s) /\ SameInput(s, ime) /\ s.segments = ime.segments
    BY ConvertingFacts, SyncPreviewSound
  <1> HIDE DEF s
  <1>2. IInv' /\ (ime'.currentState = "Committed" => out'.commit = Texts(s.segments))
    BY <1>1, AcceptInv DEF s
  <1>3. out.composition.parts = Texts(ime.segments)
    BY DEF IInv
  <1>4. QED BY <1>1, <1>2, <1>3

(* A digit while converting keeps the invariant.                           *)
LEMMA ConvertingDigitInv ==
  ASSUME IInv, NEW digit \in Digits, ConvertingDigit(digit)
  PROVE IInv'
  <1> DEFINE h == Highlight(Select(ime.candidates, digit))
  <1>1. Converting /\ AcceptSegment(h)
    BY DEF ConvertingDigit
  <1>2. ime.candidates \in Lists /\ digit \in 0 .. Len(ime.candidates.items) - 1
    BY <1>1, ConvertingFacts DEF ConvertingDigit, CanSelect, GoodList
  <1>3. Select(ime.candidates, digit) \in GoodList
    BY <1>2, SelectGood
  <1>4. Sound(h) /\ Segmented(h) /\ SameInput(h, ime)
    BY <1>1, <1>3, HighlightSound
  <1> HIDE DEF h
  <1>5. QED BY <1>1, <1>4, AcceptInv

(* A conversion that is left is a sound composition.                       *)
LEMMA LeavePhase ==
  ASSUME IInv, Converting
  PROVE LET l == LeaveConversion(ime) IN
        /\ Sound(l) /\ Phase(l) /\ l.currentState = "Composing"
        /\ l.buffer # <<>> /\ l.segments = <<>>
  BY ConvertingFacts, LeaveSound DEF Phase

(* Cancelling a conversion keeps the invariant.                            *)
LEMMA ConvertingCancelInv == ASSUME IInv, ConvertingCancel PROVE IInv'
  BY LeavePhase, RespondInv DEF ConvertingCancel

(* The keys that move among candidates keep the invariant.                 *)
LEMMA ConvertingMoveInv ==
  ASSUME IInv, ConvertingMove \/ ConvertingBoundary
  PROVE IInv'
  <1> DEFINE list == ime.candidates
  <1>1. Converting
    BY DEF ConvertingMove, ConvertingBoundary
  <1>2. PICK moved \in GoodList : RespondFresh(Highlight(moved), TRUE)
    <2>1. list \in GoodList /\ PageSize \in Int /\ -PageSize \in Int /\ 1 \in Int /\ -1 \in Int
      BY <1>1, ConvertingFacts DEF PageSize
    <2>2. /\ MoveSelection(list, 1) \in GoodList /\ MoveSelection(list, -1) \in GoodList
          /\ MoveSelectionClamped(list, PageSize) \in GoodList
          /\ MoveSelectionClamped(list, -PageSize) \in GoodList
      BY <2>1, MoveGood, MoveClampedGood
    <2>3. CASE ConvertingMove
      BY <2>2, <2>3 DEF ConvertingMove
    <2>4. CASE ConvertingBoundary
      BY <2>1, <2>4, BoundaryGood DEF ConvertingBoundary
    <2>5. QED BY <2>3, <2>4
  <1> DEFINE h == Highlight(moved)
  <1>3. Sound(h) /\ Segmented(h) /\ Previewed(h) /\ SameInput(h, ime)
    BY <1>1, HighlightSound
  <1>4. RespondFresh(h, TRUE)
    BY <1>2
  <1> HIDE DEF h
  <1>5. QED BY <1>1, <1>3, <1>4, PreviewedInv

(* The keys that move among segments or merge them keep the invariant.     *)
LEMMA SegmentKeysInv ==
  ASSUME IInv, ConvertingLeft \/ ConvertingRight \/ MergeLeft \/ MergeRight \/ ConvertingUnhandled
  PROVE IInv'
  <1>1. Converting
    BY DEF ConvertingLeft, ConvertingRight, MergeLeft, MergeRight, ConvertingUnhandled
  <1>2. /\ Sound(ime) /\ Phase(ime) /\ Segmented(ime)
        /\ ime.selected \in 1 .. Len(ime.segments) /\ Len(ime.segments) \in Nat
    BY <1>1, ConvertingFacts, SegmentedFacts DEF Sound, SoundType
  <1>3. CASE RespondFresh(ime, FALSE)
    BY <1>2, <1>3, RespondFreshInv
  <1>4. CASE ime.selected # 1 /\ RespondFresh(MoveToSegment(ime, ime.selected - 1), TRUE)
    <2>1. ime.selected - 1 \in 1 .. Len(ime.segments)
      BY <1>2, <1>4
    <2>2. QED BY <1>1, <1>2, <1>4, <2>1, MoveToSegmentSound, PreviewedInv
  <1>5. CASE ~IsLastSegment(ime) /\ RespondFresh(MoveToSegment(ime, ime.selected + 1), TRUE)
    <2>1. ime.selected + 1 \in 1 .. Len(ime.segments)
      BY <1>2, <1>5 DEF IsLastSegment
    <2>2. QED BY <1>1, <1>2, <1>5, <2>1, MoveToSegmentSound, PreviewedInv
  <1>6. CASE ime.selected # 1 /\ RespondFresh(MergeAt(ime, ime.selected - 1), TRUE)
    <2>1. ime.selected - 1 \in 1 .. Len(ime.segments) - 1
      BY <1>2, <1>6
    <2>2. QED BY <1>1, <1>2, <1>6, <2>1, MergeSound, PreviewedInv
  <1>7. CASE ~IsLastSegment(ime) /\ RespondFresh(MergeAt(ime, ime.selected), TRUE)
    <2>1. ime.selected \in 1 .. Len(ime.segments) - 1
      BY <1>2, <1>7 DEF IsLastSegment
    <2>2. QED BY <1>1, <1>2, <1>7, <2>1, MergeSound, PreviewedInv
  <1>8. QED BY <1>3, <1>4, <1>5, <1>6, <1>7
            DEF ConvertingLeft, ConvertingRight, MergeLeft, MergeRight, ConvertingUnhandled

-----------------------------------------------------------------------------
(* The calls of the candidate window *)

(* A selection by the candidate window keeps the invariant.                *)
LEMMA SetCandidateSelectionInv ==
  ASSUME IInv, NEW i \in 0 .. Len(ime.candidates.items) - 1, SetCandidateSelection(i)
  PROVE IInv'
  <1> DEFINE chosen == Select(ime.candidates, i)
  <1>1. ime.candidates \in Lists
    BY DEF IInv, Sound, SoundType, GoodList
  <1>2. chosen \in GoodList /\ HasItems(chosen)
    BY <1>1, SelectGood DEF Select, HasItems, Lists
  <1>3. \/ Converting /\ RespondFresh(Highlight(chosen), TRUE)
        \/ Composing /\ Respond(Prime(ime, chosen), TRUE)
    BY DEF SetCandidateSelection
  <1> HIDE DEF chosen
  <1>4. CASE Converting /\ RespondFresh(Highlight(chosen), TRUE)
    BY <1>2, <1>4, HighlightSound, PreviewedInv
  <1>5. CASE Composing /\ Respond(Prime(ime, chosen), TRUE)
    BY <1>2, <1>5, ComposingFacts, PrimePhase, RespondInv
  <1>6. QED BY <1>3, <1>4, <1>5

(* Finalizing by the candidate window keeps the invariant.                 *)
LEMMA FinalizeInv == ASSUME IInv, FinalizeCandidateSelection PROVE IInv'
  <1>1. CASE Composing /\ CommitComposition(SelectedText(ime.candidates), <<>>)
    <2>1. SelectedText(ime.candidates) \in Text /\ <<>> \in Seq(Text)
      BY <1>1, ComposingFacts, SelectedTextType DEF FinalizeCandidateSelection
    <2>2. QED BY <1>1, <2>1, CommitCompositionInv
  <1>2. CASE Converting /\ AcceptSegment(SyncPreview(ime))
    BY <1>2, ConvertingEnterInv
  <1>3. QED BY <1>1, <1>2 DEF FinalizeCandidateSelection

(* Aborting by the candidate window keeps the invariant.                   *)
LEMMA AbortInv == ASSUME IInv, AbortCandidateSelection PROVE IInv'
  <1>1. CASE Composing /\ Respond(ClearCandidates(ime), TRUE)
    BY <1>1, ClearPhase, RespondInv
  <1>2. CASE Converting /\ Respond(RefreshPredictions(LeaveConversion(ime)), TRUE)
    <2> DEFINE l == LeaveConversion(ime)
               p == RefreshPredictions(l)
    <2>1. Sound(l) /\ l.currentState = "Composing" /\ l.buffer # <<>> /\ l.segments = <<>>
      BY <1>2, LeavePhase
    <2>2. Respond(p, TRUE)
      BY <1>2
    <2> HIDE DEF l
    <2>3. Sound(p) /\ Phase(p)
      BY <2>1, RefreshPredictionsSound DEF SameInput, Phase
    <2> HIDE DEF p
    <2>4. QED BY <2>2, <2>3, RespondInv
  <1>3. QED BY <1>1, <1>2 DEF AbortCandidateSelection

(* Discarding the session keeps the invariant.                             *)
LEMMA DiscardInv == ASSUME IInv, DiscardActiveSession PROVE IInv'
  <1> DEFINE r == ResetSession(ime)
             state == IF r.currentState = "Direct" THEN r.currentState ELSE "Idle"
             f == In(r, state)
  <1>1. /\ Sound(r) /\ r.buffer = <<>> /\ r.segments = <<>>
        /\ ~HasItems(r.candidates) /\ ~r.primed
    BY ResetSound DEF IInv
  <1>2. ime' = f
    BY DEF DiscardActiveSession, In
  <1> HIDE DEF r
  <1>3. state \in {"Direct", "Idle", "Committed"}
    OBVIOUS
  <1> HIDE DEF state
  <1>4. Sound(f) /\ Phase(f) /\ f.currentState = state
    BY <1>1, <1>3, ClosedPhase
  <1> HIDE DEF f
  <1>5. <<>> \in Seq(Text) /\ <<>> \in Seq(Segment) /\ NoCandidates \in Lists
    BY NoCandidatesGood DEF GoodList
  <1>6. out' = [isConsumed |-> TRUE, composition |-> NoComposition, candidates |-> NoCandidates,
                commit |-> <<>>, learned |-> <<>>]
    BY DEF DiscardActiveSession, IInv, OutputType
  <1>7. out' \in OutputType
    BY <1>5, <1>6 DEF OutputType, NoComposition
  <1>8. QED BY <1>2, <1>3, <1>4, <1>7 DEF IInv, Converting, Composing

-----------------------------------------------------------------------------
(* The invariant *)

(* The invariant holds at first.                                           *)
LEMMA InitInv == Init => IInv
  <1> SUFFICES ASSUME Init PROVE IInv
    OBVIOUS
  <1> DEFINE d == CHOOSE x \in Dictionaries : TRUE
  <1>1. d \in Dictionaries
    BY GlyphAssumption
  <1>2. /\ <<>> \in Text /\ <<>> \in Seq(Segment) /\ <<>> \in Seq(GoodList) /\ <<>> \in Seq(Text)
        /\ 1 \in Nat \ {0} /\ "Direct" \in States
    BY DEF Text, States
  <1>3. NoCandidates \in GoodList /\ ~HasItems(NoCandidates) /\ NoCandidates \in Lists
    BY NoCandidatesGood DEF GoodList
  <1> HIDE DEF d
  <1>4. ime = [currentState |-> "Direct", buffer |-> <<>>, cursor |-> 0, dictionary |-> d,
               candidates |-> NoCandidates, primed |-> FALSE, conversion |-> NotBuilt,
               segments |-> <<>>, segmentCandidates |-> <<>>,
               display |-> <<>>, displayDirty |-> TRUE, selected |-> 1]
    BY DEF Init, d
  <1>5. ime \in SoundType
    BY <1>1, <1>2, <1>3, <1>4 DEF SoundType
  <1>6. Sound(ime) /\ Phase(ime)
    BY <1>3, <1>4, <1>5 DEF Sound, Phase
  <1>7. out \in OutputType
    BY <1>2, <1>3 DEF Init, OutputType, NoComposition
  <1>8. QED BY <1>4, <1>6, <1>7 DEF IInv, Converting, Composing

(* Every step keeps the invariant.                                         *)
LEMMA StepInv == IInv /\ [Next]_vars => IInv'
  <1> SUFFICES ASSUME IInv, [Next]_vars PROVE IInv'
    OBVIOUS
  <1>1. CASE ToggleIme \/ ModeLatin \/ ModeHiragana \/ PassThrough
    BY <1>1, ModeKeysInv
  <1>2. CASE IdleOther
    BY <1>2, IdleOtherInv
  <1>3. CASE \E mark \in Marks \cup {LongVowel} : IdleCommit(mark)
    BY <1>3, IdleCommitInv
  <1>4. CASE \E ch \in InputChars : IdleInsert(ch)
    BY <1>4, IdleInsertInv
  <1>5. CASE \E ch \in InputChars \cup {LongVowel} : ComposingInsert(ch)
    BY <1>5, ComposingInsertInv
  <1>6. CASE ComposingBackspace \/ ComposingDelete
    BY <1>6, EditKeysInv
  <1>7. CASE ComposingLeft \/ ComposingRight
    BY <1>7, CursorKeysInv
  <1>8. CASE ComposingEscape \/ ComposingUnhandled
    BY <1>8, EscapeInv
  <1>9. CASE ComposingMove \/ ComposingBoundary
    BY <1>9, ComposingMoveInv
  <1>10. CASE ComposingSpace
    BY <1>10, ComposingSpaceInv
  <1>11. CASE StartConversion
    BY <1>11, StartConversionInv
  <1>12. CASE \/ \E digit \in Digits : ComposingDigit(digit)
              \/ ComposingEnter
              \/ \E mark \in Marks : ComposingMark(mark)
    BY <1>12, ComposingCommitInv
  <1>13. CASE ConvertingEnter
    BY <1>13, ConvertingEnterInv DEF ConvertingEnter
  <1>14. CASE ConvertingCancel
    BY <1>14, ConvertingCancelInv
  <1>15. CASE ConvertingMove \/ ConvertingBoundary
    BY <1>15, ConvertingMoveInv
  <1>16. CASE ConvertingLeft \/ ConvertingRight \/ MergeLeft \/ MergeRight \/ ConvertingUnhandled
    BY <1>16, SegmentKeysInv
  <1>17. CASE \E digit \in Digits : ConvertingDigit(digit)
    BY <1>17, ConvertingDigitInv
  <1>18. CASE \E i \in 0 .. Len(ime.candidates.items) - 1 : SetCandidateSelection(i)
    BY <1>18, SetCandidateSelectionInv
  <1>19. CASE FinalizeCandidateSelection
    BY <1>19, FinalizeInv
  <1>20. CASE AbortCandidateSelection
    BY <1>20, AbortInv
  <1>21. CASE DiscardActiveSession
    BY <1>21, DiscardInv
  <1>22. CASE UNCHANGED vars
    BY <1>22 DEF vars, IInv, Converting, Composing
  <1>23. QED
    BY <1>1, <1>2, <1>3, <1>4, <1>5, <1>6, <1>7, <1>8, <1>9, <1>10, <1>11, <1>12, <1>13, <1>14,
       <1>15, <1>16, <1>17, <1>18, <1>19, <1>20, <1>21, <1>22 DEF Next

(* The invariant holds always.                                             *)
LEMMA Invariance == Spec => []IInv
  BY InitInv, StepInv, PTL DEF Spec

-----------------------------------------------------------------------------
(* What holds in every state *)

(* A good list is a list.                                                  *)
LEMMA ListsOfGood == GoodList \subseteq Lists
  BY DEF GoodList

(* The invariant is strong enough for every state property.                *)
LEMMA InvImplies ==
  ASSUME IInv
  PROVE /\ TypeOK /\ IndicesInside /\ SessionClosed /\ SessionOpen /\ ConversionCoherent
        /\ SelectionShown /\ DisplayCoherent /\ PrimedVisible
  <1>1. TypeOK
    <2>1. ime.candidates \in Lists /\ ime.segmentCandidates \in Seq(Lists)
      BY ListsOfGood DEF IInv, Sound, SoundType
    <2>2. QED BY <2>1 DEF TypeOK, IInv, Sound, SoundType, EngineType
  <1>2. IndicesInside
    <2>1. ime.candidates \in GoodList
          /\ \A i \in 1 .. Len(ime.segmentCandidates) : ime.segmentCandidates[i] \in GoodList
      BY DEF IInv, Sound, SoundType
    <2>2. QED BY <2>1, GoodListInside DEF IndicesInside, IInv, Sound
  <1>3. SessionClosed
    BY DEF SessionClosed, IInv, Phase
  <1>4. SessionOpen
    <2>1. ime.currentState \in States
      BY DEF IInv, Sound, SoundType
    <2>2. QED BY <2>1 DEF SessionOpen, IInv, Phase, Segmented, Composing, Converting, States
  <1>5. ConversionCoherent
    BY DEF ConversionCoherent, IInv, Sound
  <1>6. SelectionShown
    BY ConvertingFacts DEF SelectionShown, Previewed, HighlightedText, Highlighted
  <1>7. DisplayCoherent
    BY DEF DisplayCoherent, IInv
  <1>8. PrimedVisible
    BY ComposingFacts DEF PrimedVisible
  <1>9. QED BY <1>1, <1>2, <1>3, <1>4, <1>5, <1>6, <1>7, <1>8

(* Every member of the engine and of its output keeps its type.            *)
THEOREM TypeCorrect == Spec => []TypeOK
  BY Invariance, InvImplies, PTL

(* No cursor, highlighted candidate or segment list index is ever outside  *)
(* what it indexes, so Buffer::insert and the indexing of a candidate list *)
(* never meet the range error they guard against.                          *)
THEOREM IndicesStayInside == Spec => []IndicesInside
  BY Invariance, InvImplies, PTL

(* Between sessions the engine holds nothing a later key or a late call of *)
(* the candidate window could commit.                                      *)
THEOREM SessionsClose == Spec => []SessionClosed
  BY Invariance, InvImplies, PTL

(* A session always has a text, and segments exactly while it converts.    *)
THEOREM SessionsOpen == Spec => []SessionOpen
  BY Invariance, InvImplies, PTL

(* cachedConversion is never the conversion of an earlier buffer.          *)
THEOREM CachedConversionIsCurrent == Spec => []ConversionCoherent
  BY Invariance, InvImplies, PTL

(* The selected segment always reads as the candidate highlighted for it.  *)
THEOREM SelectionIsShown == Spec => []SelectionShown
  BY Invariance, InvImplies, PTL

(* The display cache never outlives the segments it was built from.        *)
THEOREM DisplayIsCurrent == Spec => []DisplayCoherent
  BY Invariance, InvImplies, PTL

(* A primed selection is always one in a list the user sees.               *)
THEOREM PrimedIsVisible == Spec => []PrimedVisible
  BY Invariance, InvImplies, PTL

-----------------------------------------------------------------------------
(* What every step does *)

(* Accepting the last segment commits what was on screen.                  *)
THEOREM ConversionCommitIsShown == Spec => ConversionCommitsWhatIsShown
  <1> DEFINE A == Converting /\ ime'.currentState = "Committed"
                    /\ (ConvertingEnter \/ FinalizeCandidateSelection)
                      => out'.commit = out.composition.parts
  <1>1. IInv => A
    <2> SUFFICES ASSUME IInv, Converting, ime'.currentState = "Committed",
                        ConvertingEnter \/ FinalizeCandidateSelection
                 PROVE out'.commit = out.composition.parts
      OBVIOUS
    <2>1. AcceptSegment(SyncPreview(ime))
      BY DEF ConvertingEnter, FinalizeCandidateSelection, Converting, Composing
    <2>2. QED BY <2>1, ConvertingEnterInv
  <1>2. []IInv => [][A]_vars
    BY <1>1, PTL
  <1>3. QED BY <1>2, Invariance, PTL DEF ConversionCommitsWhatIsShown

(* Enter commits the kana on screen, or the candidate the user moved to.   *)
THEOREM EnterCommitIsShown == Spec => EnterCommitsWhatIsShown
  <1> DEFINE A == ime'.currentState = "Committed" /\ ComposingEnter =>
                    out'.commit = IF ime.primed THEN <<SelectedText(out.candidates)>>
                                  ELSE out.composition.parts
  <1>1. IInv => A
    <2> SUFFICES ASSUME IInv, ComposingEnter
                 PROVE out'.commit = IF ime.primed THEN <<SelectedText(out.candidates)>>
                                     ELSE out.composition.parts
      OBVIOUS
    <2> DEFINE text == IF ime.primed THEN Highlighted(Reading(ime)) ELSE Reading(ime)
    <2>1. Composing /\ CommitComposition(text, <<>>)
      BY DEF ComposingEnter
    <2>2. text \in Text /\ <<>> \in Seq(Text)
      BY <2>1, ComposingFacts, ReadingIs, HighlightedType
    <2>3. ime.primed => text = SelectedText(out.candidates)
      BY <2>1, ComposingFacts DEF Highlighted, IInv
    <2>4. ~ime.primed => out.composition.parts = <<text>>
      BY <2>1, ComposingFacts, ReadingIs DEF IInv
    <2> HIDE DEF text
    <2>5. out'.commit = <<text>> \o <<>>
      BY <2>1, <2>2, CommitCompositionInv
    <2>6. QED BY <2>2, <2>3, <2>4, <2>5
  <1>2. []IInv => [][A]_vars
    BY <1>1, PTL
  <1>3. QED BY <1>2, Invariance, PTL DEF EnterCommitsWhatIsShown


-----------------------------------------------------------------------------
(* Lists in step with their context *)

(* What a lookup for segment i would find.                                 *)
Looked(e, i) == Candidates(e.dictionary, e.segments[i].reading, Preceding(e.segments, i))

(* FollowingCandidatesFollowContext, of any record of the engine.          *)
InContext(e) ==
  \A i \in 2 .. Len(e.segments) :
    HasItems(e.segmentCandidates[i]) => e.segmentCandidates[i].items = Looked(e, i)

(* The list the user moves in is one looked up for the selected segment.   *)
Fits(e) ==
  e.selected # 1 /\ HasItems(e.candidates) => e.candidates.items = Looked(e, e.selected)

(* createOutput changes no list but for its highlight.                     *)
LEMMA RenderKeepsLists ==
  ASSUME NEW e, Sound(e)
  PROVE Render(e).segmentCandidates = e.segmentCandidates /\ Render(e).dictionary = e.dictionary
  BY DEF Render, SanitizeSegmentIndex, EnsureDisplay, Sound, SoundType

(* The same segments and lists under the same dictionary stay in step.     *)
LEMMA SameContext ==
  ASSUME NEW e, InContext(e), NEW f, f.dictionary = e.dictionary, f.segments = e.segments,
         f.segmentCandidates = e.segmentCandidates
  PROVE InContext(f)
  BY DEF InContext, Looked

(* One list replaced by one looked up for its place.                       *)
LEMMA ReplacedInContext ==
  ASSUME NEW e, Sound(e), Segmented(e), InContext(e), NEW i \in 1 .. Len(e.segments),
         NEW list \in GoodList, i # 1 /\ HasItems(list) => list.items = Looked(e, i),
         NEW f, f.dictionary = e.dictionary, f.segments = e.segments,
         f.segmentCandidates = [e.segmentCandidates EXCEPT ![i] = list]
  PROVE InContext(f)
  <1>1. i \in 1 .. Len(e.segmentCandidates) /\ e.segmentCandidates \in Seq(GoodList)
        /\ Len(e.segments) = Len(e.segmentCandidates) /\ Len(e.segments) \in Nat
    BY DEF Segmented, Sound, SoundType
  <1>2. \A j \in 1 .. Len(e.segments) :
          f.segmentCandidates[j] = IF j = i THEN list ELSE e.segmentCandidates[j]
    BY <1>1, UpdateType
  <1> SUFFICES ASSUME NEW j \in 2 .. Len(f.segments), HasItems(f.segmentCandidates[j])
               PROVE f.segmentCandidates[j].items = Looked(f, j)
    BY DEF InContext
  <1>3. Looked(f, j) = Looked(e, j)
    BY DEF Looked
  <1>4. j \in 1 .. Len(e.segments) /\ j \in 2 .. Len(e.segments) /\ j # 1
    BY <1>1
  <1>5. CASE j = i
    BY <1>2, <1>3, <1>4, <1>5
  <1>6. CASE j # i
    BY <1>2, <1>3, <1>4, <1>6 DEF InContext
  <1>7. QED BY <1>5, <1>6

(* persistSegmentSelection stores a list that fits.                        *)
LEMMA PersistInContext ==
  ASSUME NEW e, Sound(e), Segmented(e), InContext(e), Fits(e)
  PROVE InContext(PersistSelection(e))
  <1> DEFINE p == PersistSelection(e)
             lists == [e.segmentCandidates EXCEPT ![e.selected] = e.candidates]
  <1>1. /\ e.selected \in 1 .. Len(e.segments) /\ e.candidates \in GoodList
        /\ ~(e.segments = <<>> \/ e.selected > Len(e.segmentCandidates))
    BY SegmentedFacts DEF Segmented
  <1>2. p = [e EXCEPT !.segmentCandidates = lists]
    BY <1>1, SegmentedFacts DEF PersistSelection, WithList
  <1>3. p.segmentCandidates = lists /\ p.segments = e.segments /\ p.dictionary = e.dictionary
    BY <1>2, PersistSound DEF Sound, SoundType
  <1> HIDE DEF p
  <1>4. InContext(p)
    BY <1>1, <1>3, ReplacedInContext DEF Fits
  <1>5. QED BY <1>4 DEF p

(* The prefetched list is looked up for its place.                         *)
LEMMA PrefetchInContext ==
  ASSUME NEW e, Sound(e), Segmented(e), InContext(e)
  PROVE InContext(PrefetchNext(e))
  <1> DEFINE next == e.selected + 1
  <1>1. CASE next > Len(e.segments)
    BY <1>1 DEF PrefetchNext
  <1>2. CASE next <= Len(e.segments)
    <2> DEFINE old == e.segmentCandidates[next]
               new == Sanitize(IF HasItems(old) THEN old ELSE CandidatesFor(e, next))
               lists == [e.segmentCandidates EXCEPT ![next] = new]
               p == PrefetchNext(e)
    <2>1. /\ next \in 1 .. Len(e.segments) /\ next \in 1 .. Len(e.segmentCandidates)
          /\ next \in 2 .. Len(e.segments)
      BY <1>2 DEF Segmented, Sound, SoundType
    <2>2. old \in GoodList /\ CandidatesFor(e, next) \in GoodList
      BY <2>1, CandidatesForGood DEF Sound, SoundType
    <2>3. HasItems(old) => old.items = Looked(e, next)
      BY <2>1 DEF InContext
    <2>4. CandidatesFor(e, next).items = Looked(e, next)
      BY DEF CandidatesFor, Looked
    <2>5. new \in GoodList /\ new.items = Looked(e, next)
      <3> HIDE DEF old, next
      <3>1. QED BY <2>2, <2>3, <2>4, SanitizeKeepsGood
    <2>6. ~(next > Len(e.segments) \/ next > Len(e.segmentCandidates))
      BY <2>1
    <2>7. p = [e EXCEPT !.segmentCandidates = lists]
      BY <2>6 DEF PrefetchNext, WithList
    <2> HIDE DEF old, new
    <2>8. p.segmentCandidates = lists /\ p.segments = e.segments /\ p.dictionary = e.dictionary
      BY <2>7 DEF Sound, SoundType
    <2> HIDE DEF p
    <2>9. InContext(p)
      BY <2>1, <2>5, <2>8, ReplacedInContext
    <2>10. QED BY <2>9 DEF p
  <1>3. QED BY <1>1, <1>2, SegmentedFacts

(* A changed text empties every list behind it, an unchanged one none; the *)
(* lists before it do not see it.                                          *)
LEMMA PreviewInContext ==
  ASSUME NEW e, Sound(e), Segmented(e), e.segmentCandidates[e.selected] = e.candidates, InContext(e)
  PROVE InContext(Preview(e))
  <1> DEFINE i == e.selected
             text == HighlightedText(e)
             segment == [reading |-> e.segments[i].reading, text |-> text]
             segments == [e.segments EXCEPT ![i] = segment]
             kept == InvalidateFollowing(e.segmentCandidates, i)
             lists == IF text = e.segments[i].text THEN e.segmentCandidates ELSE kept
             f == [e EXCEPT !.candidates = e.candidates, !.segments = segments,
                            !.segmentCandidates = lists, !.displayDirty = TRUE]
  <1>1. /\ i \in 1 .. Len(e.segments) /\ i \in 1 .. Len(e.segmentCandidates)
        /\ e.segments[i] \in Segment /\ e.candidates \in GoodList
        /\ e.segments \in Seq(Segment) /\ e.segmentCandidates \in Seq(GoodList)
        /\ Len(e.segmentCandidates) = Len(e.segments) /\ Len(e.segments) \in Nat
    BY SegmentedFacts DEF Segmented, Sound, SoundType
  <1>2. text \in Text
    BY <1>1, SelectedTextType DEF HighlightedText, Segment
  <1>3. segment \in Segment /\ segment.reading = e.segments[i].reading
    BY <1>1, <1>2 DEF Segment
  <1>4. segments \in Seq(Segment) /\ Len(segments) = Len(e.segments)
        /\ \A j \in 1 .. Len(e.segments) : segments[j] = IF j = i THEN segment ELSE e.segments[j]
    <2> HIDE DEF segment, i
    <2>1. QED BY <1>1, <1>3, UpdateType
  <1>5. kept \in Seq(GoodList) /\ Len(kept) = Len(e.segmentCandidates)
    BY <1>1, InvalidateFollowingType
  <1>6. \A j \in 1 .. Len(e.segments) :
          kept[j] = IF j > i THEN NoCandidates ELSE e.segmentCandidates[j]
    BY <1>1 DEF InvalidateFollowing
  <1>7. text = e.segments[i].text => segments = e.segments
    <2>1. text = e.segments[i].text => segment = e.segments[i]
      BY <1>1 DEF Segment
    <2>2. QED BY <2>1, <1>1
  <1>8. Preview(e) = PrefetchNext(f)
    <2>1. SanitizeSegmentIndex(e) = e /\ Sanitize(e.candidates) = e.candidates
      BY <1>1, SegmentedFacts, SanitizeKeepsGood
    <2>2. e.segments # <<>>
      BY DEF Segmented
    <2>3. QED BY <2>1, <2>2 DEF Preview, HighlightedText
  <1>9. lists \in Seq(GoodList) /\ Len(lists) = Len(e.segmentCandidates)
    BY <1>1, <1>5
  <1>10. text = e.segments[i].text => lists = e.segmentCandidates
    OBVIOUS
  <1>11. text # e.segments[i].text => lists = kept
    OBVIOUS
  <1>c. segments = [e.segments EXCEPT ![i] = [reading |-> e.segments[i].reading, text |-> text]]
    OBVIOUS
  <1> HIDE DEF segments, lists, text, segment, kept
  <1>12. /\ f \in SoundType /\ f.dictionary = e.dictionary /\ f.conversion = e.conversion
         /\ f.segments = segments /\ f.segmentCandidates = lists /\ f.displayDirty = TRUE
         /\ f.selected = i /\ f.buffer = e.buffer /\ f.cursor = e.cursor
    BY <1>1, <1>4, <1>9 DEF Sound, SoundType
  <1> HIDE DEF f
  <1>d. Covers(f)
    BY <1>1, <1>2, <1>12, <1>c, TextCovers DEF Segmented
  <1>13. Sound(f) /\ Segmented(f)
    BY <1>4, <1>9, <1>12, <1>d DEF Segmented, Sound, SoundType
  <1>14. CASE text = e.segments[i].text
    <2>1. InContext(f)
      BY <1>7, <1>10, <1>12, <1>14, SameContext
    <2>2. QED BY <1>8, <1>13, <2>1, PrefetchInContext
  <1>15. CASE text # e.segments[i].text
    <2>1. ASSUME NEW j \in 2 .. Len(f.segments), HasItems(f.segmentCandidates[j])
          PROVE f.segmentCandidates[j].items = Looked(f, j)
      <3>1. j \in 1 .. Len(e.segments) /\ j \in 2 .. Len(e.segments) /\ j - 1 \in 1 .. Len(e.segments)
        BY <1>1, <1>4, <1>12
      <3>2. f.segmentCandidates[j] = IF j > i THEN NoCandidates ELSE e.segmentCandidates[j]
        BY <1>6, <1>11, <1>12, <1>15, <3>1
      <3>3. j <= i /\ f.segmentCandidates[j] = e.segmentCandidates[j]
        BY <1>1, <2>1, <3>2, NoCandidatesGood
      <3>4. j - 1 # i
        BY <1>1, <3>1, <3>3
      <3>5. f.segments[j].reading = e.segments[j].reading /\ f.segments[j - 1] = e.segments[j - 1]
        BY <1>3, <1>4, <1>12, <3>1, <3>4
      <3>6. Looked(f, j) = Looked(e, j)
        BY <1>12, <3>5 DEF Looked, Preceding
      <3>7. e.segmentCandidates[j].items = Looked(e, j)
        BY <2>1, <3>1, <3>3 DEF InContext
      <3>8. QED BY <3>3, <3>6, <3>7
    <2>2. InContext(f)
      BY <2>1 DEF InContext
    <2>3. QED BY <1>8, <1>13, <2>2, PrefetchInContext
  <1>16. QED BY <1>14, <1>15

(* The preview that also stores the list, when it fits.                    *)
LEMMA SyncPreviewInContext ==
  ASSUME NEW e, Sound(e), Segmented(e), InContext(e), Fits(e)
  PROVE InContext(SyncPreview(e))
  BY PersistInContext, PersistSound, PreviewInContext DEF SyncPreview

(* refreshSegmentCandidates highlights a kept list or looks one up.        *)
LEMMA RefreshInContext ==
  ASSUME NEW e, Sound(e), Segmented(e), InContext(e)
  PROVE InContext(RefreshSegmentCandidates(e))
  <1> DEFINE i == e.selected
  <1>1. /\ SanitizeSegmentIndex(e) = e /\ e.segments # <<>> /\ i <= Len(e.segmentCandidates)
        /\ i \in 1 .. Len(e.segments) /\ i \in 1 .. Len(e.segmentCandidates)
        /\ e.segmentCandidates[i] \in GoodList /\ e.segmentCandidates \in Seq(GoodList)
        /\ i # 1 => i \in 2 .. Len(e.segments)
    BY SegmentedFacts DEF Segmented, Sound, SoundType
  <1>2. CASE HasItems(e.segmentCandidates[i])
    <2> DEFINE list == Sanitize(e.segmentCandidates[i])
               lists == [e.segmentCandidates EXCEPT ![i] = list]
               f == [e EXCEPT !.segmentCandidates = lists]
               g == [f EXCEPT !.candidates = list]
    <2>1. RefreshSegmentCandidates(e) = Preview(g)
      BY <1>1, <1>2 DEF RefreshSegmentCandidates, WithList
    <2>2. list \in GoodList /\ (i # 1 => list.items = Looked(e, i))
      BY <1>1, <1>2, SanitizeKeepsGood DEF InContext
    <2> HIDE DEF list
    <2>3. lists \in Seq(GoodList) /\ Len(lists) = Len(e.segmentCandidates) /\ lists[i] = list
          /\ lists = [e.segmentCandidates EXCEPT ![i] = list]
      BY <1>1, <2>2, UpdateType
    <2> HIDE DEF lists
    <2>4. /\ Sound(f) /\ Segmented(f) /\ f.dictionary = e.dictionary /\ f.segments = e.segments
          /\ f.segmentCandidates = lists /\ f.selected = i
      BY <2>3, NewListsSound DEF SameInput
    <2> HIDE DEF f
    <2>5. /\ Sound(g) /\ Segmented(g) /\ g.dictionary = f.dictionary /\ g.candidates = list
          /\ g.segments = f.segments /\ g.segmentCandidates = lists /\ g.selected = i
      BY <2>2, <2>4, NewCandidatesSound DEF SameInput
    <2> HIDE DEF g, i
    <2>6. InContext(g)
      <3>1. /\ g.dictionary = e.dictionary /\ g.segments = e.segments
            /\ g.segmentCandidates = [e.segmentCandidates EXCEPT ![i] = list]
        BY <2>3, <2>4, <2>5
      <3>2. i \in 1 .. Len(e.segments) /\ list \in GoodList
            /\ (i # 1 /\ HasItems(list) => list.items = Looked(e, i))
        BY <1>1, <2>2 DEF i
      <3>3. QED BY <3>1, <3>2, ReplacedInContext
    <2>7. QED BY <2>1, <2>3, <2>5, <2>6, PreviewInContext
  <1>3. CASE ~HasItems(e.segmentCandidates[i])
    <2> DEFINE f == [e EXCEPT !.candidates = CandidatesFor(e, i)]
    <2>1. RefreshSegmentCandidates(e) = SyncPreview(f)
      BY <1>1, <1>3 DEF RefreshSegmentCandidates
    <2>2. CandidatesFor(e, i) \in GoodList /\ CandidatesFor(e, i).items = Looked(e, i)
      BY <1>1, CandidatesForGood DEF CandidatesFor, Looked
    <2>3. /\ Sound(f) /\ Segmented(f) /\ f.dictionary = e.dictionary
          /\ f.segments = e.segments /\ f.segmentCandidates = e.segmentCandidates
          /\ f.selected = i /\ f.candidates = CandidatesFor(e, i)
      BY <2>2, NewCandidatesSound DEF SameInput
    <2> HIDE DEF f
    <2>4. InContext(f)
      BY <2>3, SameContext
    <2>5. Fits(f)
      BY <2>2, <2>3 DEF Fits, Looked
    <2>6. QED BY <2>1, <2>3, <2>4, <2>5, SyncPreviewInContext
  <1>4. QED BY <1>2, <1>3

(* A step to another segment.                                              *)
LEMMA SelectInContext ==
  ASSUME NEW e, Sound(e), Segmented(e), InContext(e), NEW i \in 1 .. Len(e.segments)
  PROVE InContext(RefreshSegmentCandidates([e EXCEPT !.selected = i]))
  <1> DEFINE f == [e EXCEPT !.selected = i]
  <1>1. Sound(f) /\ Segmented(f)
    BY SelectSegmentSound
  <1>2. /\ f.dictionary = e.dictionary /\ f.segments = e.segments
        /\ f.segmentCandidates = e.segmentCandidates
    BY DEF Sound, SoundType
  <1> HIDE DEF f
  <1>3. InContext(f)
    BY <1>2, SameContext
  <1>4. InContext(RefreshSegmentCandidates(f))
    BY <1>1, <1>3, RefreshInContext
  <1>5. QED BY <1>4 DEF f


(* The methods that end in refreshSegmentCandidates keep the lists in step *)
(* with their context.                                                     *)
LEMMA MoveInContext ==
  ASSUME NEW e, Sound(e), Segmented(e), InContext(e), Fits(e), NEW i \in 1 .. Len(e.segments)
  PROVE InContext(MoveToSegment(e, i))
  <1> DEFINE p == SyncPreview(e)
  <1>1. Sound(p) /\ Segmented(p) /\ Len(p.segments) = Len(e.segments) /\ InContext(p)
    BY SyncPreviewSound, SyncPreviewInContext
  <1>2. MoveToSegment(e, i) = RefreshSegmentCandidates([p EXCEPT !.selected = i])
    BY DEF MoveToSegment
  <1> HIDE DEF p
  <1>3. QED BY <1>1, <1>2, SelectInContext

LEMMA AdvanceInContext ==
  ASSUME NEW e, Sound(e), Segmented(e), InContext(e), Fits(e), ~IsLastSegment(e)
  PROVE InContext(Advance(e))
  <1> DEFINE p == PersistSelection(e)
             i == e.selected + 1
  <1>1. Sound(p) /\ Segmented(p) /\ p.selected = e.selected /\ p.segments = e.segments /\ InContext(p)
    BY PersistSound, PersistInContext
  <1>2. i \in 1 .. Len(p.segments)
    BY <1>1 DEF IsLastSegment, Sound, SoundType
  <1>3. Advance(e) = RefreshSegmentCandidates([p EXCEPT !.selected = i])
    BY <1>1 DEF Advance
  <1> HIDE DEF p, i
  <1>4. QED BY <1>1, <1>2, <1>3, SelectInContext

(* While converting, the list in use is the one kept for the segment.      *)
LEMMA ConvertingFits ==
  ASSUME IInv, Converting, InContext(ime)
  PROVE Fits(ime)
  <1>1. Sound(ime) /\ Segmented(ime) /\ ime.segmentCandidates[ime.selected] = ime.candidates
    BY ConvertingFacts DEF Previewed
  <1>2. ime.selected # 1 => ime.selected \in 2 .. Len(ime.segments)
    BY <1>1, SegmentedFacts DEF Sound, SoundType
  <1>3. QED BY <1>1, <1>2 DEF Fits, InContext

(* Another highlight in that list keeps every list in step, and fits.      *)
LEMMA HighlightInContext ==
  ASSUME IInv, Converting, InContext(ime), NEW list \in GoodList, list.items = ime.candidates.items
  PROVE InContext(Highlight(list)) /\ Fits(Highlight(list))
  <1> DEFINE f == [ime EXCEPT !.candidates = list]
             h == SyncPreview(f)
  <1>1. Sound(ime) /\ Segmented(ime) /\ Fits(ime)
    BY ConvertingFacts, ConvertingFits
  <1>2. /\ Sound(f) /\ Segmented(f) /\ f.dictionary = ime.dictionary /\ f.candidates = list
        /\ f.segments = ime.segments /\ f.selected = ime.selected
        /\ f.segmentCandidates = ime.segmentCandidates
    BY <1>1, NewCandidatesSound DEF SameInput
  <1> HIDE DEF f
  <1>3. InContext(f)
    BY <1>2, SameContext
  <1>4. Fits(f)
    BY <1>1, <1>2 DEF Fits, Looked, HasItems
  <1>5. Sound(h) /\ Segmented(h) /\ Previewed(h) /\ InContext(h)
    BY <1>2, <1>3, <1>4, SyncPreviewSound, SyncPreviewInContext
  <1>6. Highlight(list) = h
    BY DEF Highlight, f
  <1> HIDE DEF h
  <1>7. h.selected # 1 => h.selected \in 2 .. Len(h.segments)
    BY <1>5, SegmentedFacts DEF Sound, SoundType
  <1>8. Fits(h)
    BY <1>5, <1>7 DEF Fits, InContext, Previewed
  <1>9. QED BY <1>5, <1>6, <1>8

(* An answer changes neither the state nor the lists.                      *)
LEMMA AnswerKeepsContext ==
  ASSUME NEW e, Sound(e), Phase(e), NEW consumed,
         Respond(e, consumed) \/ RespondFresh(e, consumed)
  PROVE ime'.currentState = e.currentState /\ (InContext(e) => InContext(ime'))
  <1>1. ASSUME NEW b, Sound(b), Phase(b), ime' = Render(b), b.dictionary = e.dictionary,
               b.segments = e.segments, b.segmentCandidates = e.segmentCandidates,
               b.currentState = e.currentState
        PROVE ime'.currentState = e.currentState /\ (InContext(e) => InContext(ime'))
    <2> DEFINE r == Render(b)
    <2>1. /\ r.currentState = b.currentState /\ r.segments = b.segments
          /\ r.segmentCandidates = b.segmentCandidates /\ r.dictionary = b.dictionary
      BY <1>1, RenderSound, RenderKeepsLists
    <2> HIDE DEF r
    <2>2. InContext(e) => InContext(r)
      BY <1>1, <2>1, SameContext
    <2>3. QED BY <1>1, <2>1, <2>2 DEF r
  <1>2. CASE RespondFresh(e, consumed)
    BY <1>1, <1>2 DEF RespondFresh, Answer
  <1>3. CASE Respond(e, consumed)
    <2> DEFINE b == BuildConversion(e)
    <2>1. /\ Sound(b) /\ Phase(b) /\ SameInput(b, e) /\ b.segments = e.segments
          /\ b = [e EXCEPT !.conversion = Convert(e.buffer)]
      BY BuildSound, BuildPhase
    <2>2. ime' = Render(b)
      BY <1>3 DEF Respond, Answer
    <2>3. b.segmentCandidates = e.segmentCandidates
      BY <2>1 DEF Sound, SoundType
    <2> HIDE DEF b
    <2>4. QED BY <1>1, <2>1, <2>2, <2>3 DEF SameInput
  <1>4. QED BY <1>2, <1>3

(* A conversion that goes on from a record in step stays in step.          *)
LEMMA GoesOnInContext ==
  ASSUME IInv, Converting, NEW f, Sound(f), Segmented(f), Previewed(f), SameInput(f, ime),
         InContext(f), RespondFresh(f, TRUE)
  PROVE InContext(ime')
  <1>1. Phase(f)
    BY ConvertingFacts DEF SameInput, Phase
  <1>2. QED BY <1>1, AnswerKeepsContext

(* A committed session does not convert.                                   *)
LEMMA CommitLeaves ==
  ASSUME NEW e, Sound(e), NEW parts, NEW learned, CommitSession(e, parts, learned)
  PROVE ime'.currentState = "Committed"
  <1> DEFINE reset == ResetSession(e)
  <1>1. reset \in SoundType
    BY ResetSound DEF Sound
  <1>2. PICK d : ime' = [reset EXCEPT !.currentState = "Committed", !.dictionary = d]
    BY DEF CommitSession
  <1> HIDE DEF reset
  <1>3. QED BY <1>1, <1>2 DEF SoundType

(* Accepting a segment goes to the next, in step, or ends the session.     *)
LEMMA AcceptInContext ==
  ASSUME IInv, Converting, NEW f, Sound(f), Segmented(f), SameInput(f, ime), InContext(f), Fits(f),
         AcceptSegment(f)
  PROVE ime'.currentState = "Committed" \/ InContext(ime')
  <1>1. CASE IsLastSegment(f)
    BY <1>1, PersistSound, CommitLeaves DEF AcceptSegment, CommitConversion
  <1>2. CASE ~IsLastSegment(f)
    <2> DEFINE a == Advance(f)
    <2>1. Sound(a) /\ Segmented(a) /\ Previewed(a) /\ SameInput(a, ime) /\ InContext(a)
      BY <1>2, AdvanceSound, AdvanceInContext DEF SameInput
    <2>2. RespondFresh(a, TRUE)
      BY <1>2 DEF AcceptSegment
    <2> HIDE DEF a
    <2>3. QED BY <2>1, <2>2, GoesOnInContext
  <1>3. QED BY <1>1, <1>2


(* An answer does not change the state.                                    *)
LEMMA AnswerKeepsState ==
  ASSUME NEW e, Sound(e), NEW consumed, Respond(e, consumed) \/ RespondFresh(e, consumed)
  PROVE ime'.currentState = e.currentState
  <1>1. ASSUME NEW b, Sound(b)
        PROVE Render(b).currentState = b.currentState
    BY <1>1 DEF Render, SanitizeSegmentIndex, EnsureDisplay, Sound, SoundType
  <1>2. Sound(BuildConversion(e)) /\ BuildConversion(e).currentState = e.currentState
    BY BuildSound DEF SameInput
  <1>3. CASE Respond(e, consumed)
    BY <1>1, <1>2, <1>3 DEF Respond, Answer
  <1>4. CASE RespondFresh(e, consumed)
    BY <1>1, <1>4 DEF RespondFresh, Answer
  <1>5. QED BY <1>3, <1>4

(* A record put into another state.                                        *)
LEMMA InState ==
  ASSUME NEW e, Sound(e), NEW state \in States
  PROVE Sound(In(e, state)) /\ In(e, state).currentState = state
  BY DEF In, Sound, SoundType

(* An engine that does not convert.                                        *)
Out(e) == Sound(e) /\ e.currentState # "Converting"

(* The methods of a composing engine do not start a conversion.            *)
LEMMA StaysOut ==
  ASSUME NEW e, Out(e)
  PROVE /\ Out(ClearCandidates(e)) /\ Out(RefreshPredictions(e))
        /\ \A list \in GoodList : Out(Prime(e, list))
  <1>1. Out(ClearCandidates(e)) /\ Out(RefreshPredictions(e))
    BY ClearSound, RefreshPredictionsSound DEF Out, SameInput
  <1>2. ASSUME NEW list \in GoodList PROVE Out(Prime(e, list))
    BY DEF Out, Prime, Sound, SoundType
  <1>3. QED BY <1>1, <1>2

(* Neither does an inserted character.                                     *)
LEMMA InsertedStaysOut ==
  ASSUME NEW e, Out(e), NEW ch \in Glyphs
  PROVE Out(Inserted(e, ch))
  <1> DEFINE f == Insert(e, ch)
             i == InvalidateConversion(f)
  <1>1. Edit(f, e)
    BY InsertEdit DEF Out
  <1> HIDE DEF f
  <1>2. Out(i)
    BY <1>1, EditSound DEF Out
  <1>3. Inserted(e, ch) = RefreshPredictions(i)
    BY DEF Inserted, f
  <1> HIDE DEF i
  <1>4. QED BY <1>2, <1>3, StaysOut

(* Answering for such an engine leaves it so.                              *)
LEMMA AnswerStaysOut ==
  ASSUME NEW e, Out(e), NEW consumed, Respond(e, consumed) \/ RespondFresh(e, consumed)
  PROVE ime'.currentState # "Converting"
  BY AnswerKeepsState DEF Out

(* Outside a session no key starts a conversion.                           *)
LEMMA IdleStaysOut ==
  ASSUME IInv, ~Converting,
         \/ ToggleIme \/ ModeLatin \/ ModeHiragana \/ PassThrough \/ IdleOther
         \/ \E mark \in Marks \cup {LongVowel} : IdleCommit(mark)
         \/ \E ch \in InputChars : IdleInsert(ch)
  PROVE ime'.currentState # "Converting"
  <1>1. Sound(ime) /\ ime.currentState # "Converting" /\ {"Direct", "Idle", "Composing", "Committed"} \subseteq States
    BY DEF IInv, Converting, States
  <1>2. \A state \in {"Direct", "Idle", "Composing", "Committed"} :
          /\ Sound(In(ime, state)) /\ In(ime, state).currentState = state
          /\ Sound(ResetSession(In(ime, state))) /\ ResetSession(In(ime, state)).currentState = state
    <2> TAKE state \in {"Direct", "Idle", "Composing", "Committed"}
    <2> DEFINE f == In(ime, state)
    <2>1. Sound(f) /\ f.currentState = state
      BY <1>1, InState
    <2> HIDE DEF f
    <2>2. Sound(ResetSession(f)) /\ ResetSession(f).currentState = state
      BY <2>1, ResetSound
    <2>3. QED BY <2>1, <2>2 DEF f
  <1>3. CASE ToggleIme \/ ModeLatin \/ ModeHiragana \/ PassThrough \/ IdleOther
    BY <1>1, <1>2, <1>3, AnswerKeepsState DEF ToggleIme, ModeLatin, ModeHiragana, PassThrough, IdleOther
  <1>4. CASE \E mark \in Marks \cup {LongVowel} : IdleCommit(mark)
    BY <1>2, <1>4 DEF IdleCommit
  <1>5. CASE \E ch \in InputChars : IdleInsert(ch)
    <2>1. PICK ch \in InputChars : Respond(Inserted(In(ime, "Composing"), ch), TRUE)
      BY <1>5 DEF IdleInsert
    <2> DEFINE f == In(ime, "Composing")
    <2>2. Out(f) /\ ch \in Glyphs
      BY <1>2, GlyphAssumption DEF Out
    <2> HIDE DEF f
    <2>3. QED BY <2>1, <2>2, InsertedStaysOut, AnswerStaysOut DEF f
  <1>6. QED BY <1>3, <1>4, <1>5

(* Leaving the composition, editing it or moving in its predictions does   *)
(* not start a conversion.                                                 *)
LEMMA ComposingStaysOut ==
  ASSUME IInv, Composing,
         \/ \E ch \in InputChars \cup {LongVowel} : ComposingInsert(ch)
         \/ ComposingBackspace \/ ComposingDelete \/ ComposingLeft \/ ComposingRight
         \/ ComposingEscape \/ ComposingUnhandled
  PROVE ime'.currentState # "Converting"
  <1>1. Out(ime) /\ Sound(ime) /\ ime.segments = <<>>
    BY ComposingFacts DEF Out
  <1>2. CASE \E ch \in InputChars \cup {LongVowel} : ComposingInsert(ch)
    BY <1>1, <1>2, GlyphAssumption, InsertedStaysOut, AnswerStaysOut DEF ComposingInsert
  <1>3. CASE ComposingBackspace \/ ComposingDelete
    <2>1. PICK f : Edit(f, ime) /\ AfterEdit(f)
      BY <1>1, <1>3, BackspaceEdit, DeleteForwardEdit DEF ComposingBackspace, ComposingDelete
    <2> DEFINE i == InvalidateConversion(f)
    <2>2. Out(i)
      BY <1>1, <2>1, EditSound DEF Out
    <2>3. \/ RespondFresh(In(ClearCandidates(i), "Idle"), TRUE)
          \/ Respond(RefreshPredictions(i), TRUE)
      BY <2>1 DEF AfterEdit
    <2> HIDE DEF i
    <2>4. Out(In(ClearCandidates(i), "Idle")) /\ Out(RefreshPredictions(i))
      BY <2>2, StaysOut, InState DEF Out, States
    <2>5. QED BY <2>3, <2>4, AnswerStaysOut
  <1>4. CASE ComposingLeft \/ ComposingRight
    <2>1. PICK f : Edit(f, ime) /\ Respond(ClearCandidates(f), TRUE) /\ f.buffer = ime.buffer
      <3>1. MoveCursorLeft(ime).buffer = ime.buffer /\ MoveCursorRight(ime).buffer = ime.buffer
        BY <1>1 DEF MoveCursorLeft, MoveCursorRight, Sound, SoundType
      <3>2. QED BY <1>1, <1>4, <3>1, MoveCursorEdit DEF ComposingLeft, ComposingRight
    <2>2. Out(f)
      BY <1>1, <2>1 DEF Out, Sound, SoundType, Edit
    <2>3. QED BY <2>1, <2>2, StaysOut, AnswerStaysOut
  <1>5. CASE ComposingEscape \/ ComposingUnhandled
    <2>1. \/ Respond(ClearCandidates(ime), TRUE) \/ Respond(ime, FALSE)
      BY <1>5 DEF ComposingEscape, ComposingUnhandled
    <2>2. QED BY <1>1, <2>1, StaysOut, AnswerStaysOut
  <1>6. QED BY <1>2, <1>3, <1>4, <1>5


(* Neither do the keys that move among the predictions.                    *)
LEMMA PredictionsStayOut ==
  ASSUME IInv, Composing, ComposingMove \/ ComposingBoundary \/ ComposingSpace
  PROVE ime'.currentState # "Converting"
  <1> DEFINE list == ime.candidates
             reopened == RefreshPredictions(ime)
  <1>1. Out(ime) /\ Out(reopened) /\ list \in GoodList /\ reopened.candidates \in GoodList
    BY ComposingFacts, StaysOut DEF Out, Sound, SoundType
  <1>2. PICK e : Out(e) /\ \E consumed : Respond(e, consumed)
    <2>1. PageSize \in Int /\ -PageSize \in Int /\ 1 \in Int /\ -1 \in Int
      BY DEF PageSize
    <2>2. /\ MoveSelection(list, 1) \in GoodList /\ MoveSelection(list, -1) \in GoodList
          /\ MoveSelectionClamped(list, PageSize) \in GoodList
          /\ MoveSelectionClamped(list, -PageSize) \in GoodList
          /\ \A last \in BOOLEAN : SelectBoundary(list, last) \in GoodList
      BY <1>1, <2>1, MoveGood, MoveClampedGood, BoundaryGood
    <2>3. ASSUME NEW moved \in GoodList, NEW reopen, MovePrediction(moved, reopen)
          PROVE \E e : Out(e) /\ \E consumed : Respond(e, consumed)
      <3>1. Out(Prime(ime, moved))
        BY <1>1, StaysOut
      <3>2. \/ Respond(Prime(ime, moved), TRUE) \/ Respond(ime, FALSE)
            \/ Respond(reopened, HasItems(reopened.candidates))
        BY <2>3 DEF MovePrediction
      <3> HIDE DEF reopened
      <3>3. QED BY <1>1, <3>1, <3>2
    <2>4. CASE ComposingMove \/ ComposingBoundary
      <3>1. PICK moved \in GoodList : \E reopen : MovePrediction(moved, reopen)
        BY <2>2, <2>4 DEF ComposingMove, ComposingBoundary
      <3>2. QED BY <2>3, <3>1
    <2>5. CASE ComposingSpace
      <3>1. \/ Respond(Prime(reopened, reopened.candidates), TRUE)
            \/ Respond(ClearCandidates(reopened), TRUE)
            \/ Respond(Prime(ime, MoveSelection(list, 1)), TRUE)
            \/ Respond(Prime(ime, list), TRUE)
        BY <2>5 DEF ComposingSpace
      <3> HIDE DEF reopened
      <3>2. /\ Out(Prime(reopened, reopened.candidates)) /\ Out(ClearCandidates(reopened))
            /\ Out(Prime(ime, MoveSelection(list, 1))) /\ Out(Prime(ime, list))
        BY <1>1, <2>2, StaysOut
      <3>3. QED BY <3>1, <3>2
    <2>6. QED BY <2>4, <2>5
  <1>3. QED BY <1>2, AnswerStaysOut

(* A key or call that ends the composition or the conversion leaves it.    *)
LEMMA EndsStayOut ==
  ASSUME IInv,
         \/ \E digit \in Digits : ComposingDigit(digit)
         \/ ComposingEnter
         \/ \E mark \in Marks : ComposingMark(mark)
         \/ ConvertingCancel \/ AbortCandidateSelection \/ DiscardActiveSession
  PROVE ime'.currentState # "Converting"
  <1>1. Sound(ime)
    BY DEF IInv
  <1>2. CASE \/ \E digit \in Digits : ComposingDigit(digit)
             \/ ComposingEnter
             \/ \E mark \in Marks : ComposingMark(mark)
    BY <1>1, <1>2, CommitLeaves DEF ComposingDigit, ComposingEnter, ComposingMark, CommitComposition
  <1>3. CASE ConvertingCancel \/ AbortCandidateSelection
    <2>1. CASE Composing
      <3>1. Respond(ClearCandidates(ime), TRUE) /\ Out(ime)
        BY <1>1, <1>3, <2>1 DEF ConvertingCancel, AbortCandidateSelection, Converting, Composing, Out
      <3>2. QED BY <3>1, StaysOut, AnswerStaysOut
    <2>2. CASE Converting
      <3> DEFINE l == LeaveConversion(ime)
      <3>1. Out(l)
        BY <2>2, LeavePhase DEF Out
      <3>2. Respond(l, TRUE) \/ Respond(RefreshPredictions(l), TRUE)
        BY <1>3, <2>2 DEF ConvertingCancel, AbortCandidateSelection, Converting, Composing
      <3> HIDE DEF l
      <3>3. QED BY <3>1, <3>2, StaysOut, AnswerStaysOut
    <2>3. QED BY <1>3, <2>1, <2>2 DEF ConvertingCancel, AbortCandidateSelection
  <1>4. CASE DiscardActiveSession
    <2>1. ResetSession(ime) \in SoundType
      BY <1>1, ResetSound DEF Sound
    <2> DEFINE r == ResetSession(ime)
    <2>2. ime' = [r EXCEPT !.currentState = IF @ = "Direct" THEN @ ELSE "Idle"]
      BY <1>4 DEF DiscardActiveSession
    <2> HIDE DEF r
    <2>3. QED BY <2>1, <2>2 DEF SoundType, r
  <1>5. QED BY <1>2, <1>3, <1>4

(* A conversion starts without lists; those it then opens are looked up.   *)
LEMMA StartsInContext ==
  ASSUME IInv, StartConversion
  PROVE InContext(ime')
  <1> DEFINE b == BuildConversion(ime)
  <1>1. /\ Composing /\ \E cut \in Cuts(Reading(b)) :
             Respond(In(RefreshSegmentCandidates(RebuildSegments(b, cut)), "Converting"), TRUE)
    BY DEF StartConversion
  <1>2. Sound(b) /\ b.buffer # <<>>
    BY <1>1, ComposingFacts, BuildSound DEF SameInput
  <1> HIDE DEF b
  <1>3. PICK cut \in Cuts(Reading(b)) :
          Respond(In(RefreshSegmentCandidates(RebuildSegments(b, cut)), "Converting"), TRUE)
    BY <1>1
  <1> DEFINE s == RebuildSegments(b, cut)
             r == RefreshSegmentCandidates(s)
             f == In(r, "Converting")
  <1>4. Sound(s) /\ Segmented(s) /\ SameInput(s, b)
    BY <1>2, RebuildSound
  <1>5. \A i \in 1 .. Len(s.segments) : ~HasItems(s.segmentCandidates[i])
    <2> DEFINE lists == [i \in 1 .. Len(cut) - 1 |-> NoCandidates]
    <2>1. s.segmentCandidates = lists
      BY <1>2 DEF RebuildSegments, Sound, SoundType
    <2>2. \A i \in 1 .. Len(cut) - 1 : ~HasItems(lists[i])
      BY NoCandidatesGood
    <2>3. DOMAIN lists = 1 .. Len(cut) - 1
      OBVIOUS
    <2> HIDE DEF lists, s
    <2>4. Len(s.segments) = Len(s.segmentCandidates) /\ s.segmentCandidates \in Seq(GoodList)
      BY <1>4 DEF Segmented, Sound, SoundType
    <2>5. 1 .. Len(s.segments) = DOMAIN lists
      BY <2>1, <2>4
    <2>6. QED BY <2>1, <2>2, <2>3, <2>5
  <1> HIDE DEF s
  <1>6. InContext(s)
    BY <1>5 DEF InContext
  <1>7. Sound(r) /\ Segmented(r) /\ Previewed(r) /\ r.buffer # <<>> /\ InContext(r)
    BY <1>2, <1>4, <1>6, RefreshSegmentSound, RefreshInContext DEF SameInput
  <1>8. Respond(f, TRUE)
    BY <1>3 DEF s
  <1> HIDE DEF r
  <1>9. "Converting" \in States
    BY DEF States
  <1>10. /\ f \in SoundType /\ f.currentState = "Converting" /\ f.buffer = r.buffer
         /\ f.cursor = r.cursor /\ f.conversion = r.conversion /\ f.segments = r.segments
         /\ f.segmentCandidates = r.segmentCandidates /\ f.selected = r.selected
         /\ f.candidates = r.candidates /\ f.display = r.display
         /\ f.displayDirty = r.displayDirty /\ f.dictionary = r.dictionary
    BY <1>7, <1>9 DEF In, Sound, SoundType
  <1> HIDE DEF f
  <1>11. Sound(f) /\ Segmented(f) /\ Previewed(f)
    BY <1>7, <1>10, SameCovers DEF Sound, Segmented, Previewed, HighlightedText
  <1>12. Phase(f) /\ InContext(f)
    BY <1>7, <1>10, <1>11, SameContext DEF Phase
  <1>13. QED BY <1>8, <1>11, <1>12, AnswerKeepsContext


(* A move in a list keeps its items.                                       *)
LEMMA MovesKeepList ==
  ASSUME NEW list \in GoodList, NEW delta \in Int, NEW last \in BOOLEAN, NEW i \in Nat
  PROVE /\ MoveSelection(list, delta).items = list.items
        /\ MoveSelectionClamped(list, delta).items = list.items
        /\ SelectBoundary(list, last).items = list.items
        /\ Select(list, i).items = list.items
        /\ Select(list, i).selectedIndex = i
  BY DEF MoveSelection, MoveSelectionClamped, SelectBoundary, Select, GoodList, Lists

(* Accepting the highlighted candidate of the selected segment.            *)
LEMMA EnterInContext ==
  ASSUME IInv, Converting, InContext(ime), AcceptSegment(SyncPreview(ime))
  PROVE ime'.currentState = "Committed" \/ InContext(ime')
  <1> DEFINE s == SyncPreview(ime)
  <1>1. Sound(s) /\ Segmented(s) /\ Previewed(s) /\ SameInput(s, ime) /\ InContext(s)
    BY ConvertingFacts, ConvertingFits, SyncPreviewSound, SyncPreviewInContext
  <1> HIDE DEF s
  <1>2. s.selected # 1 => s.selected \in 2 .. Len(s.segments)
    BY <1>1, SegmentedFacts DEF Sound, SoundType
  <1>3. Fits(s)
    BY <1>1, <1>2 DEF Fits, InContext, Previewed
  <1>4. QED BY <1>1, <1>3, AcceptInContext DEF s

(* Accepting another one, by its digit.                                    *)
LEMMA DigitInContext ==
  ASSUME IInv, InContext(ime), NEW digit \in Digits, ConvertingDigit(digit)
  PROVE ime'.currentState = "Committed" \/ InContext(ime')
  <1> DEFINE list == Select(ime.candidates, digit)
             h == Highlight(list)
  <1>1. Converting /\ AcceptSegment(h)
    BY DEF ConvertingDigit
  <1>2. ime.candidates \in GoodList /\ digit \in 0 .. Len(ime.candidates.items) - 1
    BY <1>1, ConvertingFacts DEF ConvertingDigit, CanSelect
  <1>3. list \in GoodList /\ list.items = ime.candidates.items
    <2>1. ime.candidates \in Lists /\ digit \in Nat /\ 0 \in Int /\ TRUE \in BOOLEAN
      BY <1>2 DEF GoodList
    <2>2. list \in GoodList
      BY <1>2, <2>1, SelectGood
    <2>3. list.items = ime.candidates.items
      BY <1>2, <2>1, MovesKeepList
    <2>4. QED BY <2>2, <2>3
  <1> HIDE DEF list
  <1>4. Sound(h) /\ Segmented(h) /\ SameInput(h, ime) /\ InContext(h) /\ Fits(h)
    BY <1>1, <1>3, HighlightSound, HighlightInContext
  <1> HIDE DEF h
  <1>5. QED BY <1>1, <1>4, AcceptInContext

(* Moving the highlight, by key or in the candidate window.                *)
LEMMA HighlightKeepsContext ==
  ASSUME IInv, Converting, InContext(ime), NEW list \in GoodList,
         list.items = ime.candidates.items, RespondFresh(Highlight(list), TRUE)
  PROVE InContext(ime')
  <1> DEFINE h == Highlight(list)
  <1>1. Sound(h) /\ Segmented(h) /\ Previewed(h) /\ SameInput(h, ime) /\ InContext(h)
    BY HighlightSound, HighlightInContext
  <1> HIDE DEF h
  <1>2. QED BY <1>1, GoesOnInContext DEF h

LEMMA MovesInContext ==
  ASSUME IInv, Converting, InContext(ime),
         \/ ConvertingMove \/ ConvertingBoundary
         \/ \E i \in 0 .. Len(ime.candidates.items) - 1 : SetCandidateSelection(i)
  PROVE InContext(ime')
  <1> DEFINE list == ime.candidates
  <1>1. /\ list \in GoodList /\ 0 \in Nat /\ TRUE \in BOOLEAN
        /\ PageSize \in Int /\ -PageSize \in Int /\ 1 \in Int /\ -1 \in Int
    BY ConvertingFacts DEF PageSize
  <1>2. CASE ConvertingMove
    <2> DEFINE next == MoveSelection(list, 1)
               previous == MoveSelection(list, -1)
               down == MoveSelectionClamped(list, PageSize)
               up == MoveSelectionClamped(list, -PageSize)
    <2>1. next \in GoodList /\ previous \in GoodList /\ down \in GoodList /\ up \in GoodList
      BY <1>1, MoveGood, MoveClampedGood
    <2>2. /\ next.items = list.items /\ previous.items = list.items
          /\ down.items = list.items /\ up.items = list.items
      BY <1>1, MovesKeepList
    <2>3. \/ RespondFresh(Highlight(next), TRUE) \/ RespondFresh(Highlight(previous), TRUE)
          \/ RespondFresh(Highlight(down), TRUE) \/ RespondFresh(Highlight(up), TRUE)
      BY <1>2 DEF ConvertingMove
    <2> HIDE DEF next, previous, down, up
    <2>4. QED BY <2>1, <2>2, <2>3, HighlightKeepsContext
  <1>3. CASE ConvertingBoundary
    <2>1. PICK last \in BOOLEAN : RespondFresh(Highlight(SelectBoundary(list, last)), TRUE)
      BY <1>3 DEF ConvertingBoundary
    <2>2. SelectBoundary(list, last) \in GoodList /\ SelectBoundary(list, last).items = list.items
      BY <1>1, BoundaryGood, MovesKeepList
    <2>3. QED BY <2>1, <2>2, HighlightKeepsContext
  <1>4. CASE \E i \in 0 .. Len(ime.candidates.items) - 1 : SetCandidateSelection(i)
    <2>1. PICK i \in 0 .. Len(list.items) - 1 : RespondFresh(Highlight(Select(list, i)), TRUE)
      <3>1. PICK i \in 0 .. Len(list.items) - 1 : SetCandidateSelection(i)
        BY <1>4
      <3>2. ~Composing
        BY DEF Converting, Composing
      <3>3. RespondFresh(Highlight(Select(list, i)), TRUE)
        BY <3>1, <3>2 DEF SetCandidateSelection
      <3>4. QED BY <3>1, <3>3
    <2>2. Select(list, i) \in GoodList /\ Select(list, i).items = list.items
      <3>1. list \in Lists /\ i \in Nat
        BY <1>1, <2>1 DEF GoodList
      <3>2. Select(list, i) \in GoodList
        BY <2>1, <3>1, SelectGood
      <3>3. Select(list, i).items = list.items
        BY <1>1, <3>1, MovesKeepList
      <3>4. QED BY <3>2, <3>3
    <2>3. QED BY <2>1, <2>2, HighlightKeepsContext
  <1>5. QED BY <1>2, <1>3, <1>4

(* Moving to the segment before or after, and every key not handled.       *)
LEMMA SegmentKeysInContext ==
  ASSUME IInv, Converting, InContext(ime),
         ConvertingLeft \/ ConvertingRight \/ ConvertingUnhandled \/ PassThrough \/ ModeHiragana
  PROVE InContext(ime')
  <1>1. /\ Sound(ime) /\ Phase(ime) /\ Segmented(ime) /\ Fits(ime)
        /\ ime.selected \in 1 .. Len(ime.segments) /\ Len(ime.segments) \in Nat
    BY ConvertingFacts, ConvertingFits, SegmentedFacts DEF Sound, SoundType
  <1>2. ASSUME NEW i \in 1 .. Len(ime.segments), RespondFresh(MoveToSegment(ime, i), TRUE)
        PROVE InContext(ime')
    <2> DEFINE m == MoveToSegment(ime, i)
    <2>1. Sound(m) /\ Segmented(m) /\ Previewed(m) /\ SameInput(m, ime) /\ InContext(m)
      BY <1>1, MoveToSegmentSound, MoveInContext
    <2> HIDE DEF m
    <2>2. QED BY <1>2, <2>1, GoesOnInContext DEF m
  <1>3. CASE \E consumed : RespondFresh(ime, consumed)
    BY <1>1, <1>3, AnswerKeepsContext
  <1>4. CASE ime.selected # 1 /\ RespondFresh(MoveToSegment(ime, ime.selected - 1), TRUE)
    <2>1. ime.selected - 1 \in 1 .. Len(ime.segments)
      BY <1>1, <1>4
    <2>2. QED BY <1>2, <1>4, <2>1
  <1>5. CASE ~IsLastSegment(ime) /\ RespondFresh(MoveToSegment(ime, ime.selected + 1), TRUE)
    <2>1. ime.selected + 1 \in 1 .. Len(ime.segments)
      BY <1>1, <1>5 DEF IsLastSegment
    <2>2. QED BY <1>2, <1>5, <2>1
  <1>6. QED BY <1>3, <1>4, <1>5
            DEF ConvertingLeft, ConvertingRight, ConvertingUnhandled, PassThrough, ModeHiragana,
                Converting

(* Every step that converts afterwards, a merge aside, ends in step.       *)
LEMMA StepInContext ==
  ASSUME IInv, Converting => InContext(ime), [Next]_vars, ~MergeLeft, ~MergeRight,
         ime'.currentState = "Converting"
  PROVE InContext(ime')
  <1>1. Sound(ime) /\ (Composing => ~Converting)
    BY DEF IInv, Composing, Converting
  <1>2. CASE UNCHANGED vars
    BY <1>2 DEF vars, InContext, Looked, Converting
  <1>3. CASE StartConversion
    BY <1>3, StartsInContext
  <1>4. CASE Converting
    <2>1. CASE ConvertingEnter \/ FinalizeCandidateSelection
      BY <1>1, <1>4, <2>1, EnterInContext DEF ConvertingEnter, FinalizeCandidateSelection
    <2>2. CASE \E digit \in Digits : ConvertingDigit(digit)
      BY <1>4, <2>2, DigitInContext
    <2>3. CASE \/ ConvertingMove \/ ConvertingBoundary
               \/ \E i \in 0 .. Len(ime.candidates.items) - 1 : SetCandidateSelection(i)
      BY <1>4, <2>3, MovesInContext
    <2>4. CASE ConvertingLeft \/ ConvertingRight \/ ConvertingUnhandled \/ PassThrough \/ ModeHiragana
      BY <1>4, <2>4, SegmentKeysInContext
    <2>5. CASE ConvertingCancel \/ AbortCandidateSelection \/ DiscardActiveSession
      BY <2>5, EndsStayOut
    <2>6. CASE ToggleIme \/ ModeLatin
      <3>1. "Direct" \in States
        BY DEF States
      <3>2. Out(ResetSession(In(ime, "Direct")))
        BY <1>1, <3>1, InState, ResetSound DEF Out
      <3>3. RespondFresh(ResetSession(In(ime, "Direct")), TRUE)
        BY <1>4, <2>6 DEF ToggleIme, ModeLatin, Converting
      <3>4. QED BY <3>2, <3>3, AnswerStaysOut
    <2>7. ~Composing /\ ~Ready
      BY <1>4 DEF Converting, Composing, Ready
    <2>8. QED BY <1>2, <2>1, <2>2, <2>3, <2>4, <2>5, <2>6, <2>7
              DEF Next, IdleOther, IdleCommit, IdleInsert, ComposingInsert, ComposingBackspace,
                  ComposingDelete, ComposingLeft, ComposingRight, ComposingEscape, ComposingMove,
                  ComposingBoundary, ComposingSpace, StartConversion, ComposingEnter,
                  ComposingUnhandled, ComposingDigit, ComposingMark
  <1>5. CASE Composing /\ ~StartConversion
    <2>1. CASE \/ \E ch \in InputChars \cup {LongVowel} : ComposingInsert(ch)
               \/ ComposingBackspace \/ ComposingDelete \/ ComposingLeft \/ ComposingRight
               \/ ComposingEscape \/ ComposingUnhandled
      BY <1>5, <2>1, ComposingStaysOut
    <2>2. CASE ComposingMove \/ ComposingBoundary \/ ComposingSpace
      BY <1>5, <2>2, PredictionsStayOut
    <2>3. CASE \/ \E digit \in Digits : ComposingDigit(digit)
               \/ ComposingEnter
               \/ \E mark \in Marks : ComposingMark(mark)
               \/ AbortCandidateSelection \/ DiscardActiveSession
      BY <2>3, EndsStayOut
    <2>4. CASE ToggleIme \/ ModeLatin \/ ModeHiragana \/ PassThrough
      BY <1>1, <1>5, <2>4, IdleStaysOut
    <2>5. CASE FinalizeCandidateSelection
      BY <1>1, <1>5, <2>5, CommitLeaves DEF FinalizeCandidateSelection, CommitComposition
    <2>6. CASE \E i \in 0 .. Len(ime.candidates.items) - 1 : SetCandidateSelection(i)
      <3>1. PICK i \in 0 .. Len(ime.candidates.items) - 1 : Respond(Prime(ime, Select(ime.candidates, i)), TRUE)
        BY <1>1, <1>5, <2>6 DEF SetCandidateSelection
      <3>2. Select(ime.candidates, i) \in GoodList /\ Out(ime)
        BY <1>1, <1>5, <3>1, ComposingFacts, SelectGood DEF GoodList, Out
      <3>3. QED BY <3>1, <3>2, StaysOut, AnswerStaysOut
    <2>7. ~Converting /\ ~Ready
      BY <1>5 DEF Converting, Composing, Ready
    <2>8. QED BY <1>2, <1>5, <2>1, <2>2, <2>3, <2>4, <2>5, <2>6, <2>7
              DEF Next, IdleOther, IdleCommit, IdleInsert, ConvertingEnter, ConvertingCancel,
                  ConvertingMove, ConvertingBoundary, ConvertingLeft, ConvertingRight, MergeLeft,
                  MergeRight, ConvertingUnhandled, ConvertingDigit
  <1>6. CASE ~Composing /\ ~Converting
    <2>1. CASE \/ ToggleIme \/ ModeLatin \/ ModeHiragana \/ PassThrough \/ IdleOther
               \/ \E mark \in Marks \cup {LongVowel} : IdleCommit(mark)
               \/ \E ch \in InputChars : IdleInsert(ch)
      BY <1>6, <2>1, IdleStaysOut
    <2>2. CASE DiscardActiveSession
      BY <2>2, EndsStayOut
    <2>3. QED BY <1>2, <1>6, <2>1, <2>2
              DEF Next, ComposingInsert, ComposingBackspace,
                  ComposingDelete, ComposingLeft, ComposingRight, ComposingEscape, ComposingMove,
                  ComposingBoundary, ComposingSpace, StartConversion, ComposingEnter,
                  ComposingUnhandled, ComposingDigit, ComposingMark, ConvertingEnter,
                  ConvertingCancel, ConvertingMove, ConvertingBoundary, ConvertingLeft,
                  ConvertingRight, MergeLeft, MergeRight, ConvertingUnhandled, ConvertingDigit,
                  SetCandidateSelection, FinalizeCandidateSelection, AbortCandidateSelection
  <1>7. QED BY <1>3, <1>4, <1>5, <1>6

(* Choosing, moving and accepting keep the candidates of every segment     *)
(* those for the text before it; only a merge can leave an old list.       *)
THEOREM OnlyMergesOutdate == Spec => OnlyMergeOutdatesCandidates
  <1> DEFINE A == FollowingCandidatesFollowContext /\ ~FollowingCandidatesFollowContext'
                    => MergeLeft \/ MergeRight
  <1>1. FollowingCandidatesFollowContext <=> (Converting => InContext(ime))
    BY DEF FollowingCandidatesFollowContext, InContext, Looked
  <1>2. FollowingCandidatesFollowContext' <=> (ime'.currentState = "Converting" => InContext(ime'))
    BY DEF FollowingCandidatesFollowContext, InContext, Looked, Converting
  <1>3. IInv /\ [Next]_vars => A
    BY <1>1, <1>2, StepInContext
  <1>4. []IInv /\ [][Next]_vars => [][A]_vars
    BY <1>3, PTL
  <1>5. QED BY <1>4, Invariance, PTL DEF OnlyMergeOutdatesCandidates, Spec


-----------------------------------------------------------------------------
(* What a commit teaches the dictionary, and what leaving a conversion     *)
(* shows                                                                   *)

(* What is learned in a step spells what was typed and is what the commit  *)
(* begins with.                                                            *)
LearnsWhatWasTyped ==
  out'.learned # <<>> =>
    /\ FlattenSeq(Readings(out'.learned)) = ReadingOf(Convert(ime.buffer))
    /\ IsPrefix(Texts(out'.learned), out'.commit)

(* Segments that cover the reading, put together, are the reading.         *)
LEMMA CoveringIsFlat ==
  ASSUME NEW e, Sound(e), e.segments # <<>>, Covers(e)
  PROVE FlattenSeq(Readings(e.segments)) = ReadingOf(Convert(e.buffer))
  <1> DEFINE texts == Readings(e.segments)
  <1>1. e.segments \in Seq(Segment)
    BY DEF Sound, SoundType
  <1>2. Len(texts) \in Nat \ {0}
    BY <1>1, ReadingsAre
  <1>3. Joined(texts, ReadingOf(Convert(e.buffer)))
    BY DEF Covers
  <1> HIDE DEF texts
  <1>4. FlattenSeq(texts) = ReadingOf(Convert(e.buffer))
    BY <1>2, <1>3, JoinedIsFlat
  <1>5. QED BY <1>4 DEF texts

(* The segments always spell the reading that was typed, each with a list  *)
(* of its own, one of them selected.                                       *)
THEOREM SegmentsSpellReading == Spec => []SegmentsCoverReading
  <1>1. IInv => SegmentsCoverReading
    BY ConvertingFacts, CoveringIsFlat DEF SegmentsCoverReading, Segmented
  <1>2. QED BY <1>1, Invariance, PTL

(* An answer that commits nothing teaches nothing.                         *)
LEMMA AnswerLearnsNothing ==
  ASSUME NEW e, NEW consumed, Respond(e, consumed) \/ RespondFresh(e, consumed)
  PROVE LearnsWhatWasTyped
  BY DEF Respond, RespondFresh, Answer, LearnsWhatWasTyped

(* A sequence is its own prefix, and that of what it is continued with.    *)
LEMMA OwnPrefix ==
  ASSUME NEW S, NEW s \in Seq(S), NEW t \in Seq(S)
  PROVE IsPrefix(s, s) /\ IsPrefix(s, s \o t)
  <1>1. IsPrefix(s, s)
    BY DEF IsPrefix
  <1>2. Len(s \o t) = Len(s) + Len(t) /\ Len(s) \in Nat /\ Len(t) \in Nat
    OBVIOUS
  <1>3. SubSeq(s \o t, 1, Len(s)) = SubSeq(s, 1, Len(s))
    <2>1. CASE s = <<>>
      BY <2>1, <1>2
    <2>2. CASE s # <<>>
      <3>1. 1 \in 1 .. Len(s) /\ Len(s) \in 1 .. Len(s)
        BY <2>2
      <3>2. QED BY <3>1, SubSeqOfConcat1
    <2>3. QED BY <2>1, <2>2
  <1>4. QED BY <1>1, <1>2, <1>3 DEF IsPrefix

(* The last segment accepted teaches all of them.                          *)
LEMMA AcceptLearns ==
  ASSUME IInv, Converting, NEW f, Sound(f), Segmented(f), SameInput(f, ime), AcceptSegment(f)
  PROVE LearnsWhatWasTyped
  <1>1. CASE IsLastSegment(f)
    <2> DEFINE p == PersistSelection(f)
    <2>1. Sound(p) /\ Segmented(p) /\ p.buffer = ime.buffer
      BY PersistSound DEF SameInput
    <2>2. CommitSession(p, Texts(p.segments), p.segments)
      BY <1>1 DEF AcceptSegment, CommitConversion
    <2> HIDE DEF p
    <2>3. out'.learned = p.segments /\ out'.commit = Texts(p.segments)
      BY <2>2 DEF CommitSession
    <2>4. FlattenSeq(Readings(p.segments)) = ReadingOf(Convert(ime.buffer))
      BY <2>1, CoveringIsFlat DEF Segmented
    <2>5. Texts(p.segments) \in Seq(Text)
      BY <2>1, TextsType DEF Sound, SoundType
    <2>6. IsPrefix(Texts(p.segments), Texts(p.segments))
      BY <2>5, OwnPrefix
    <2>7. QED BY <2>3, <2>4, <2>6 DEF LearnsWhatWasTyped
  <1>2. CASE ~IsLastSegment(f)
    BY <1>2, AnswerLearnsNothing DEF AcceptSegment
  <1>3. QED BY <1>1, <1>2

(* A composition committed as one word teaches that word.                  *)
LEMMA CompositionLearns ==
  ASSUME IInv, Composing, NEW text \in Text, NEW suffix \in Seq(Text), CommitComposition(text, suffix)
  PROVE LearnsWhatWasTyped
  <1> DEFINE reading == Reading(ime)
             segment == [reading |-> reading, text |-> text]
             learned == <<segment>>
  <1>1. reading = ReadingOf(Convert(ime.buffer)) /\ reading \in Text
    BY ComposingFacts, ReadingIs
  <1>2. out'.learned = learned /\ out'.commit = <<text>> \o suffix
    BY DEF CommitComposition, CommitSession
  <1>3. segment.reading = reading /\ segment.text = text
    OBVIOUS
  <1> HIDE DEF reading, segment
  <1>4. Readings(learned) = <<reading>> /\ Texts(learned) = <<text>>
    BY <1>3 DEF Readings, Texts
  <1>5. FlattenSeq(<<reading>>) = reading
    <2>1. Joined(<<reading>>, reading) /\ Len(<<reading>>) \in Nat \ {0}
      BY <1>1, OneJoined
    <2>2. QED BY <2>1, JoinedIsFlat
  <1>6. IsPrefix(<<text>>, <<text>> \o suffix)
    <2> DEFINE one == <<text>>
    <2>1. one \in Seq(Text)
      OBVIOUS
    <2> HIDE DEF one
    <2>2. QED BY <2>1, OwnPrefix DEF one
  <1> HIDE DEF learned
  <1>7. QED BY <1>1, <1>2, <1>4, <1>5, <1>6 DEF LearnsWhatWasTyped


(* Keys outside a session, and those that edit or move in a composition,   *)
(* teach nothing.                                                          *)
LEMMA EditsLearn ==
  ASSUME \/ ToggleIme \/ ModeLatin \/ ModeHiragana \/ PassThrough \/ IdleOther
         \/ \E mark \in Marks \cup {LongVowel} : IdleCommit(mark)
         \/ \E ch \in InputChars : IdleInsert(ch)
         \/ \E ch \in InputChars \cup {LongVowel} : ComposingInsert(ch)
         \/ ComposingBackspace \/ ComposingDelete \/ ComposingLeft \/ ComposingRight
         \/ ComposingEscape \/ ComposingMove \/ ComposingBoundary \/ ComposingSpace
         \/ StartConversion \/ ComposingUnhandled
         \/ DiscardActiveSession
  PROVE LearnsWhatWasTyped
  <1>1. CASE \E mark \in Marks \cup {LongVowel} : IdleCommit(mark)
    BY <1>1 DEF IdleCommit, LearnsWhatWasTyped
  <1>2. CASE DiscardActiveSession
    BY <1>2 DEF DiscardActiveSession, LearnsWhatWasTyped
  <1>3. CASE \/ ToggleIme \/ ModeLatin \/ ModeHiragana \/ PassThrough \/ IdleOther
             \/ \E ch \in InputChars : IdleInsert(ch)
    BY <1>3, AnswerLearnsNothing
       DEF ToggleIme, ModeLatin, ModeHiragana, PassThrough, IdleOther, IdleInsert
  <1>4. CASE \/ \E ch \in InputChars \cup {LongVowel} : ComposingInsert(ch)
             \/ ComposingBackspace \/ ComposingDelete \/ ComposingLeft \/ ComposingRight
    BY <1>4, AnswerLearnsNothing
       DEF ComposingInsert, ComposingBackspace, ComposingDelete, ComposingLeft, ComposingRight,
           AfterEdit
  <1>5. CASE ComposingEscape \/ ComposingMove \/ ComposingBoundary \/ ComposingUnhandled
    BY <1>5, AnswerLearnsNothing
       DEF ComposingEscape, ComposingMove, ComposingBoundary, ComposingUnhandled, MovePrediction
  <1>6. CASE ComposingSpace \/ StartConversion
    BY <1>6, AnswerLearnsNothing DEF ComposingSpace, StartConversion
  <1>7. QED BY <1>1, <1>2, <1>3, <1>4, <1>5, <1>6

(* Ending a composition teaches the word it became.                        *)
LEMMA ComposingEndsLearn ==
  ASSUME IInv, Composing,
         \/ \E digit \in Digits : ComposingDigit(digit)
         \/ ComposingEnter
         \/ \E mark \in Marks : ComposingMark(mark)
         \/ FinalizeCandidateSelection
  PROVE LearnsWhatWasTyped
  <1>1. Reading(ime) \in Text /\ <<>> \in Seq(Text) /\ Highlighted(Reading(ime)) \in Text
    BY ComposingFacts, ReadingIs, HighlightedType
  <1>2. CASE \E digit \in Digits : ComposingDigit(digit)
    <2>1. PICK digit \in Digits : ComposingDigit(digit)
      BY <1>2
    <2> DEFINE list == Select(ime.candidates, digit)
    <2>2. ime.candidates \in Lists /\ digit \in 0 .. Len(ime.candidates.items) - 1
      BY <2>1, ComposingFacts DEF ComposingDigit, CanSelect, GoodList
    <2>3. list \in GoodList /\ HasItems(list)
      BY <2>2, SelectGood DEF Select, HasItems, Lists
    <2>4. SelectedText(list) \in Text
      BY <2>3, SelectedTextType
    <2>5. QED BY <1>1, <2>1, <2>4, CompositionLearns DEF ComposingDigit
  <1>3. CASE ComposingEnter
    <2> DEFINE text == IF ime.primed THEN Highlighted(Reading(ime)) ELSE Reading(ime)
    <2>1. text \in Text
      BY <1>1
    <2>2. CommitComposition(text, <<>>)
      BY <1>3 DEF ComposingEnter
    <2> HIDE DEF text
    <2>3. QED BY <1>1, <2>1, <2>2, CompositionLearns
  <1>4. CASE \E mark \in Marks : ComposingMark(mark)
    <2>1. PICK mark \in Marks : ComposingMark(mark)
      BY <1>4
    <2>2. <<<<mark>>>> \in Seq(Text)
      BY GlyphAssumption DEF Text
    <2>3. CommitComposition(Highlighted(Reading(ime)), <<<<mark>>>>)
      BY <2>1 DEF ComposingMark
    <2>4. QED BY <1>1, <2>2, <2>3, CompositionLearns
  <1>5. CASE FinalizeCandidateSelection
    <2>1. HasItems(ime.candidates) /\ CommitComposition(SelectedText(ime.candidates), <<>>)
      BY <1>5 DEF FinalizeCandidateSelection, Composing, Converting
    <2>2. SelectedText(ime.candidates) \in Text
      BY <2>1, SelectedTextType DEF IInv, Sound, SoundType
    <2>3. QED BY <1>1, <2>1, <2>2, CompositionLearns
  <1>6. QED BY <1>2, <1>3, <1>4, <1>5

(* A conversion teaches when its last segment is accepted, and only then.  *)
LEMMA ConvertingLearn ==
  ASSUME IInv, Converting,
         \/ ConvertingEnter \/ ConvertingCancel \/ ConvertingMove \/ ConvertingBoundary
         \/ ConvertingLeft \/ ConvertingRight \/ MergeLeft \/ MergeRight \/ ConvertingUnhandled
         \/ \E digit \in Digits : ConvertingDigit(digit)
         \/ FinalizeCandidateSelection
  PROVE LearnsWhatWasTyped
  <1>1. CASE ConvertingEnter \/ FinalizeCandidateSelection
    <2> DEFINE s == SyncPreview(ime)
    <2>1. Sound(s) /\ Segmented(s) /\ SameInput(s, ime)
      BY ConvertingFacts, SyncPreviewSound
    <2>2. AcceptSegment(s)
      BY <1>1 DEF ConvertingEnter, FinalizeCandidateSelection, Converting, Composing
    <2> HIDE DEF s
    <2>3. QED BY <2>1, <2>2, AcceptLearns
  <1>2. CASE \E digit \in Digits : ConvertingDigit(digit)
    <2>1. PICK digit \in Digits : ConvertingDigit(digit)
      BY <1>2
    <2> DEFINE list == Select(ime.candidates, digit)
               h == Highlight(list)
    <2>2. ime.candidates \in Lists /\ digit \in 0 .. Len(ime.candidates.items) - 1
      BY <2>1, ConvertingFacts DEF ConvertingDigit, CanSelect, GoodList
    <2>3. list \in GoodList
      BY <2>2, SelectGood
    <2>4. AcceptSegment(h)
      BY <2>1 DEF ConvertingDigit
    <2> HIDE DEF list
    <2>5. Sound(h) /\ Segmented(h) /\ SameInput(h, ime)
      BY <2>3, HighlightSound
    <2> HIDE DEF h
    <2>6. QED BY <2>4, <2>5, AcceptLearns
  <1>3. CASE ConvertingCancel \/ ConvertingMove \/ ConvertingBoundary \/ ConvertingUnhandled
    BY <1>3, AnswerLearnsNothing
       DEF ConvertingCancel, ConvertingMove, ConvertingBoundary, ConvertingUnhandled
  <1>4. CASE ConvertingLeft \/ ConvertingRight \/ MergeLeft \/ MergeRight
    BY <1>4, AnswerLearnsNothing DEF ConvertingLeft, ConvertingRight, MergeLeft, MergeRight
  <1>5. QED BY <1>1, <1>2, <1>3, <1>4

(* The dictionary learns what was committed, word by word, under readings  *)
(* that together are the reading that was typed.                           *)
THEOREM LearnsWhatIsCommitted == Spec => LearnsWhatItCommits
  <1>1. ASSUME IInv, Next PROVE LearnsWhatWasTyped
    <2>1. CASE \E i \in 0 .. Len(ime.candidates.items) - 1 : SetCandidateSelection(i)
      BY <2>1, AnswerLearnsNothing DEF SetCandidateSelection
    <2>2. CASE AbortCandidateSelection
      BY <2>2, AnswerLearnsNothing DEF AbortCandidateSelection
    <2>3. CASE FinalizeCandidateSelection
      <3>1. Composing \/ Converting
        BY <2>3 DEF FinalizeCandidateSelection
      <3>2. QED BY <1>1, <2>3, <3>1, ComposingEndsLearn, ConvertingLearn
    <2>4. CASE \/ \E digit \in Digits : ComposingDigit(digit)
               \/ ComposingEnter
               \/ \E mark \in Marks : ComposingMark(mark)
      <3>1. Composing
        BY <2>4 DEF ComposingDigit, ComposingEnter, ComposingMark
      <3>2. QED BY <1>1, <2>4, <3>1, ComposingEndsLearn
    <2>5. CASE \/ ConvertingEnter \/ ConvertingCancel \/ ConvertingMove \/ ConvertingBoundary
               \/ ConvertingLeft \/ ConvertingRight \/ MergeLeft \/ MergeRight \/ ConvertingUnhandled
               \/ \E digit \in Digits : ConvertingDigit(digit)
      <3>1. Converting
        BY <2>5 DEF ConvertingEnter, ConvertingCancel, ConvertingMove, ConvertingBoundary,
                    ConvertingLeft, ConvertingRight, MergeLeft, MergeRight, ConvertingUnhandled,
                    ConvertingDigit
      <3>2. QED BY <1>1, <2>5, <3>1, ConvertingLearn
    <2>6. QED BY <1>1, <2>1, <2>2, <2>3, <2>4, <2>5, EditsLearn DEF Next
  <1>2. IInv /\ [Next]_vars => [LearnsWhatWasTyped]_vars
    BY <1>1
  <1>3. []IInv /\ [][Next]_vars => [][LearnsWhatWasTyped]_vars
    BY <1>2, PTL
  <1>4. QED BY <1>3, Invariance, PTL DEF LearnsWhatItCommits, LearnsWhatWasTyped, Spec


-----------------------------------------------------------------------------
(* Leaving a conversion *)

(* An answer that goes on converting does not compose.                     *)
LEMMA GoesOnConverting ==
  ASSUME Converting, NEW f, Sound(f), SameInput(f, ime), NEW consumed, RespondFresh(f, consumed)
  PROVE ime'.currentState # "Composing"
  BY AnswerKeepsState DEF Converting, SameInput

(* Accepting a segment goes on converting or commits.                      *)
LEMMA AcceptConverts ==
  ASSUME Converting, NEW f, Sound(f), Segmented(f), SameInput(f, ime), AcceptSegment(f)
  PROVE ime'.currentState # "Composing"
  <1>1. CASE IsLastSegment(f)
    BY <1>1, PersistSound, CommitLeaves DEF AcceptSegment, CommitConversion
  <1>2. CASE ~IsLastSegment(f)
    <2> DEFINE a == Advance(f)
    <2>1. Sound(a) /\ SameInput(a, ime)
      BY <1>2, AdvanceSound DEF SameInput
    <2>2. RespondFresh(a, TRUE)
      BY <1>2 DEF AcceptSegment
    <2> HIDE DEF a
    <2>3. QED BY <2>1, <2>2, GoesOnConverting
  <1>3. QED BY <1>1, <1>2

(* Accepting, by Enter, by digit or by the candidate window.               *)
LEMMA AcceptingConverts ==
  ASSUME IInv, Converting,
         \/ ConvertingEnter \/ FinalizeCandidateSelection
         \/ \E digit \in Digits : ConvertingDigit(digit)
  PROVE ime'.currentState # "Composing"
  <1>1. CASE ConvertingEnter \/ FinalizeCandidateSelection
    <2> DEFINE s == SyncPreview(ime)
    <2>1. Sound(s) /\ Segmented(s) /\ SameInput(s, ime)
      BY ConvertingFacts, SyncPreviewSound
    <2>2. AcceptSegment(s)
      BY <1>1 DEF ConvertingEnter, FinalizeCandidateSelection, Converting, Composing
    <2> HIDE DEF s
    <2>3. QED BY <2>1, <2>2, AcceptConverts
  <1>2. CASE \E digit \in Digits : ConvertingDigit(digit)
    <2>1. PICK digit \in Digits : ConvertingDigit(digit)
      BY <1>2
    <2> DEFINE list == Select(ime.candidates, digit)
               h == Highlight(list)
    <2>2. ime.candidates \in Lists /\ digit \in 0 .. Len(ime.candidates.items) - 1
      BY <2>1, ConvertingFacts DEF ConvertingDigit, CanSelect, GoodList
    <2>3. list \in GoodList
      BY <2>2, SelectGood
    <2>4. AcceptSegment(h)
      BY <2>1 DEF ConvertingDigit
    <2> HIDE DEF list
    <2>5. Sound(h) /\ Segmented(h) /\ SameInput(h, ime)
      BY <2>3, HighlightSound
    <2> HIDE DEF h
    <2>6. QED BY <2>4, <2>5, AcceptConverts
  <1>3. QED BY <1>1, <1>2

(* Moving the highlight, by key or in the candidate window.                *)
LEMMA MovingConverts ==
  ASSUME IInv, Converting,
         \/ ConvertingMove \/ ConvertingBoundary
         \/ \E i \in 0 .. Len(ime.candidates.items) - 1 : SetCandidateSelection(i)
  PROVE ime'.currentState # "Composing"
  <1> DEFINE list == ime.candidates
  <1>1. PICK moved \in GoodList : RespondFresh(Highlight(moved), TRUE)
    <2>1. /\ list \in GoodList /\ list \in Lists
          /\ PageSize \in Int /\ -PageSize \in Int /\ 1 \in Int /\ -1 \in Int
      BY ConvertingFacts DEF PageSize, GoodList
    <2>2. /\ MoveSelection(list, 1) \in GoodList /\ MoveSelection(list, -1) \in GoodList
          /\ MoveSelectionClamped(list, PageSize) \in GoodList
          /\ MoveSelectionClamped(list, -PageSize) \in GoodList
      BY <2>1, MoveGood, MoveClampedGood
    <2>3. CASE ConvertingMove
      BY <2>2, <2>3 DEF ConvertingMove
    <2>4. CASE ConvertingBoundary
      BY <2>1, <2>4, BoundaryGood DEF ConvertingBoundary
    <2>5. CASE \E i \in 0 .. Len(list.items) - 1 : SetCandidateSelection(i)
      <3>1. PICK i \in 0 .. Len(list.items) - 1 : SetCandidateSelection(i)
        BY <2>5
      <3>2. RespondFresh(Highlight(Select(list, i)), TRUE)
        BY <3>1 DEF SetCandidateSelection, Converting, Composing
      <3>3. Select(list, i) \in GoodList
        BY <2>1, <3>1, SelectGood
      <3>4. QED BY <3>2, <3>3
    <2>6. QED BY <2>3, <2>4, <2>5
  <1> DEFINE h == Highlight(moved)
  <1>2. Sound(h) /\ SameInput(h, ime)
    BY HighlightSound
  <1>3. RespondFresh(h, TRUE)
    BY <1>1
  <1> HIDE DEF h
  <1>4. QED BY <1>2, <1>3, GoesOnConverting

(* Moving among the segments, merging them, and the keys not handled.      *)
LEMMA SegmentKeysConvert ==
  ASSUME IInv, Converting,
         \/ ConvertingLeft \/ ConvertingRight \/ MergeLeft \/ MergeRight
         \/ ConvertingUnhandled \/ PassThrough \/ ModeHiragana
  PROVE ime'.currentState # "Composing"
  <1>1. /\ Sound(ime) /\ Segmented(ime) /\ SameInput(ime, ime)
        /\ ime.selected \in 1 .. Len(ime.segments) /\ Len(ime.segments) \in Nat
    BY ConvertingFacts, SegmentedFacts DEF Sound, SoundType, SameInput
  <1>2. ASSUME NEW i \in 1 .. Len(ime.segments), RespondFresh(MoveToSegment(ime, i), TRUE)
        PROVE ime'.currentState # "Composing"
    BY <1>1, <1>2, MoveToSegmentSound, GoesOnConverting
  <1>3. ASSUME NEW i \in 1 .. Len(ime.segments) - 1, RespondFresh(MergeAt(ime, i), TRUE)
        PROVE ime'.currentState # "Composing"
    BY <1>1, <1>3, MergeSound, GoesOnConverting
  <1>4. CASE \E consumed : RespondFresh(ime, consumed)
    BY <1>1, <1>4, GoesOnConverting
  <1>5. CASE ime.selected # 1 /\ \/ RespondFresh(MoveToSegment(ime, ime.selected - 1), TRUE)
                                 \/ RespondFresh(MergeAt(ime, ime.selected - 1), TRUE)
    <2>1. ime.selected - 1 \in 1 .. Len(ime.segments) /\ ime.selected - 1 \in 1 .. Len(ime.segments) - 1
      BY <1>1, <1>5
    <2>2. QED BY <1>2, <1>3, <1>5, <2>1
  <1>6. CASE ~IsLastSegment(ime) /\ \/ RespondFresh(MoveToSegment(ime, ime.selected + 1), TRUE)
                                    \/ RespondFresh(MergeAt(ime, ime.selected), TRUE)
    <2>1. ime.selected + 1 \in 1 .. Len(ime.segments) /\ ime.selected \in 1 .. Len(ime.segments) - 1
      BY <1>1, <1>6 DEF IsLastSegment
    <2>2. QED BY <1>2, <1>3, <1>6, <2>1
  <1>7. QED BY <1>4, <1>5, <1>6
            DEF ConvertingLeft, ConvertingRight, MergeLeft, MergeRight, ConvertingUnhandled,
                PassThrough, ModeHiragana, Converting

(* The mode keys and a discarded session leave for no composition.         *)
LEMMA LeavingDoesNotCompose ==
  ASSUME IInv, Converting, ToggleIme \/ ModeLatin \/ DiscardActiveSession
  PROVE ime'.currentState # "Composing"
  <1>1. Sound(ime)
    BY DEF IInv
  <1>2. CASE ToggleIme \/ ModeLatin
    <2> DEFINE r == ResetSession(In(ime, "Direct"))
    <2>1. Sound(r) /\ r.currentState = "Direct"
      BY <1>1, InState, ResetSound DEF States
    <2>2. RespondFresh(r, TRUE)
      BY <1>2 DEF ToggleIme, ModeLatin, Converting
    <2> HIDE DEF r
    <2>3. QED BY <2>1, <2>2, AnswerKeepsState
  <1>3. CASE DiscardActiveSession
    <2> DEFINE r == ResetSession(ime)
    <2>1. r \in SoundType
      BY <1>1, ResetSound DEF Sound
    <2>2. ime' = [r EXCEPT !.currentState = IF @ = "Direct" THEN @ ELSE "Idle"]
      BY <1>3 DEF DiscardActiveSession
    <2> HIDE DEF r
    <2>3. QED BY <2>1, <2>2 DEF SoundType
  <1>4. QED BY <1>2, <1>3

(* Only these two leave a conversion for the composition it came from.     *)
LEMMA OnlyCancelComposes ==
  ASSUME IInv, Converting, Next, ime'.currentState = "Composing"
  PROVE ConvertingCancel \/ AbortCandidateSelection
  <1>1. ~Composing /\ ~Ready
    BY DEF Converting, Composing, Ready
  <1>2. ~ConvertingEnter /\ ~FinalizeCandidateSelection /\ ~\E digit \in Digits : ConvertingDigit(digit)
    BY AcceptingConverts
  <1>3. /\ ~ConvertingMove /\ ~ConvertingBoundary
        /\ ~\E i \in 0 .. Len(ime.candidates.items) - 1 : SetCandidateSelection(i)
    BY MovingConverts
  <1>4. /\ ~ConvertingLeft /\ ~ConvertingRight /\ ~MergeLeft /\ ~MergeRight
        /\ ~ConvertingUnhandled /\ ~PassThrough /\ ~ModeHiragana
    BY SegmentKeysConvert
  <1>5. ~ToggleIme /\ ~ModeLatin /\ ~DiscardActiveSession
    BY LeavingDoesNotCompose
  <1>6. QED BY <1>1, <1>2, <1>3, <1>4, <1>5
            DEF Next, IdleOther, IdleCommit, IdleInsert, ComposingInsert, ComposingBackspace,
                ComposingDelete, ComposingLeft, ComposingRight, ComposingEscape, ComposingMove,
                ComposingBoundary, ComposingSpace, StartConversion, ComposingEnter,
                ComposingUnhandled, ComposingDigit, ComposingMark

(* Both go back to the buffer as it was typed.                             *)
LEMMA CancelKeepsBuffer ==
  ASSUME IInv, Converting, ConvertingCancel \/ AbortCandidateSelection
  PROVE IInv' /\ ime'.currentState = "Composing" /\ ime'.buffer = ime.buffer
  <1> DEFINE l == LeaveConversion(ime)
             p == RefreshPredictions(l)
  <1>1. /\ Sound(l) /\ Phase(l) /\ l.currentState = "Composing"
        /\ l.buffer # <<>> /\ l.segments = <<>>
    BY LeavePhase
  <1>2. l.buffer = ime.buffer
    BY ConvertingFacts, LeaveSound
  <1>3. Respond(l, TRUE) \/ Respond(p, TRUE)
    BY DEF ConvertingCancel, AbortCandidateSelection, Converting, Composing
  <1> HIDE DEF l
  <1>4. Sound(p) /\ Phase(p) /\ p.buffer = l.buffer /\ p.currentState = "Composing"
    BY <1>1, RefreshPredictionsSound DEF SameInput, Phase
  <1> HIDE DEF p
  <1>5. TRUE \in BOOLEAN
    OBVIOUS
  <1>6. CASE Respond(l, TRUE)
    BY <1>1, <1>2, <1>5, <1>6, RespondInv
  <1>7. CASE Respond(p, TRUE)
    BY <1>2, <1>4, <1>5, <1>7, RespondInv
  <1>8. QED BY <1>3, <1>6, <1>7

(* Leaving a conversion brings back the whole reading, whatever had been   *)
(* chosen, cut or merged.                                                  *)
THEOREM CancelBringsBackReading == Spec => CancelRestoresReading
  <1> DEFINE A == Converting /\ ime'.currentState = "Composing" =>
                    out'.composition.parts = <<FlattenSeq(Readings(ime.segments))>>
  <1>1. ASSUME IInv, Next, Converting, ime'.currentState = "Composing"
        PROVE out'.composition.parts = <<FlattenSeq(Readings(ime.segments))>>
    <2>1. IInv' /\ ime'.buffer = ime.buffer
      BY <1>1, OnlyCancelComposes, CancelKeepsBuffer
    <2>2. out'.composition.parts = <<ReadingOf(Convert(ime'.buffer))>>
      BY <1>1, <2>1 DEF IInv, Composing
    <2>3. FlattenSeq(Readings(ime.segments)) = ReadingOf(Convert(ime.buffer))
      BY <1>1, ConvertingFacts, CoveringIsFlat DEF Segmented
    <2>4. QED BY <2>1, <2>2, <2>3
  <1>2. IInv /\ [Next]_vars => [A]_vars
    BY <1>1
  <1>3. []IInv /\ [][Next]_vars => [][A]_vars
    BY <1>2, PTL
  <1>4. QED BY <1>3, Invariance, PTL DEF CancelRestoresReading, Spec
=============================================================================
