------------------------- MODULE TextService_proofs -------------------------
(***************************************************************************)
(* The text service, for any characters, contexts and settings and any     *)
(* bounds: the UI element shows the engine's list, a printing key lands,   *)
(* a claimed key handed back has changed nothing, nothing typed is lost.   *)
(* A handler is a set of results, so its lemma says of each result what it *)
(* keeps of the turn it was given and, where no call of the host has       *)
(* failed, what it comes to.                                               *)
(***************************************************************************)
EXTENDS TextService, FiniteSetTheorems, WellFoundedInduction, TLAPS

-----------------------------------------------------------------------------
(* Texts *)

Distinct(text) == \A i, j \in 1 .. Len(text) : text[i] = text[j] => i = j

LEMMA InsertedTexts ==
  ASSUME NEW S, NEW text \in Seq(S), NEW ch \in S, NEW longer \in Inserted(text, ch)
  PROVE  /\ longer \in Seq(S) /\ Len(longer) = Len(text) + 1
         /\ ToSet(longer) = ToSet(text) \cup {ch}
         /\ Distinct(text) /\ ch \notin ToSet(text) => Distinct(longer)
<1>1. PICK i \in 1 .. Len(text) + 1 : longer = InsertAt(text, i, ch)
  BY DEF Inserted
<1>2. Len(text) \in Nat /\ i \in Nat /\ i >= 1 /\ i <= Len(text) + 1
  OBVIOUS
<1> DEFINE head == SubSeq(text, 1, i - 1)
           tail == SubSeq(text, i, Len(text))
<1>3. /\ head \in Seq(S) /\ Len(head) = i - 1
      /\ \A k \in 1 .. i - 1 : head[k] = text[k]
  BY <1>2
<1>4. /\ tail \in Seq(S) /\ Len(tail) = Len(text) - i + 1
      /\ \A k \in 1 .. Len(text) - i + 1 : tail[k] = text[k + i - 1]
  BY <1>2
<1>5. longer = head \o <<ch>> \o tail
  BY <1>1 DEF InsertAt
<1> HIDE DEF head, tail
<1>6. longer \in Seq(S) /\ Len(longer) = Len(text) + 1
  BY <1>2, <1>3, <1>4, <1>5
<1>7. \A k \in 1 .. Len(text) + 1 :
        longer[k] = IF k < i THEN text[k] ELSE IF k = i THEN ch ELSE text[k - 1]
  <2> TAKE k \in 1 .. Len(text) + 1
  <2>1. Len(head \o <<ch>>) = i /\ head \o <<ch>> \in Seq(S)
    BY <1>2, <1>3
  <2>2. CASE k < i
    BY <1>2, <1>3, <1>4, <1>5, <2>1, <2>2
  <2>3. CASE k = i
    BY <1>2, <1>3, <1>4, <1>5, <2>1, <2>3
  <2>4. CASE k > i
    <3>1. longer[k] = tail[k - i] /\ k - i \in 1 .. Len(text) - i + 1
      BY <1>2, <1>4, <1>5, <2>1, <2>4
    <3>2. tail[k - i] = text[k - i + i - 1] /\ k - i + i - 1 = k - 1
      BY <1>2, <1>4, <3>1
    <3> QED
      BY <1>2, <2>4, <3>1, <3>2
  <2> QED
    BY <1>2, <2>2, <2>3, <2>4
<1>8. ToSet(longer) = ToSet(text) \cup {ch}
  <2>1. \A k \in 1 .. Len(text) + 1 : longer[k] \in ToSet(text) \cup {ch}
    BY <1>2, <1>7 DEF ToSet
  <2>2. ToSet(longer) \subseteq ToSet(text) \cup {ch}
    BY <1>6, <2>1 DEF ToSet
  <2>3. \A k \in 1 .. Len(text) : \E l \in 1 .. Len(text) + 1 : longer[l] = text[k]
    <3> TAKE k \in 1 .. Len(text)
    <3>1. CASE k < i
      BY <1>2, <1>7, <3>1
    <3>2. CASE k >= i
      <4>1. k + 1 \in 1 .. Len(text) + 1 /\ ~(k + 1 < i) /\ k + 1 # i /\ (k + 1) - 1 = k
        BY <1>2, <3>2
      <4>2. longer[k + 1] = text[k]
        BY <1>7, <4>1
      <4> QED
        BY <4>1, <4>2
    <3> QED
      BY <1>2, <3>1, <3>2
  <2>4. ToSet(text) \cup {ch} \subseteq ToSet(longer)
    <3>1. longer[i] = ch /\ i \in DOMAIN longer
      BY <1>2, <1>6, <1>7
    <3> QED
      BY <1>6, <2>3, <3>1 DEF ToSet
  <2> QED
    BY <2>2, <2>4
<1>9. ASSUME Distinct(text), ch \notin ToSet(text)
      PROVE  Distinct(longer)
  <2>1. \A k \in 1 .. Len(text) : text[k] # ch
    BY <1>9 DEF ToSet
  <2> SUFFICES ASSUME NEW k \in 1 .. Len(text) + 1, NEW l \in 1 .. Len(text) + 1, longer[k] = longer[l]
               PROVE  k = l
    BY <1>6 DEF Distinct
  <2>2. longer[k] = ch => k = i
    BY <1>2, <1>7, <2>1
  <2>3. longer[l] = ch => l = i
    BY <1>2, <1>7, <2>1
  <2>4. CASE k # i /\ l # i
    <3> DEFINE at(m) == IF m < i THEN m ELSE m - 1
    <3>1. \A m \in 1 .. Len(text) + 1 : m # i => at(m) \in 1 .. Len(text) /\ longer[m] = text[at(m)]
      BY <1>2, <1>7
    <3>2. at(k) = at(l)
      BY <1>9, <2>4, <3>1 DEF Distinct
    <3> QED
      BY <1>2, <2>4, <3>2
  <2> QED
    BY <1>7, <2>2, <2>3, <2>4
<1> QED
  BY <1>6, <1>8, <1>9

LEMMA ErasedTexts ==
  ASSUME NEW S, NEW text \in Seq(S), NEW shorter \in Erased(text)
  PROVE  /\ shorter \in Seq(S) /\ ToSet(shorter) \subseteq ToSet(text)
         /\ Distinct(text) => Distinct(shorter)
<1>1. PICK i \in 0 .. Len(text) : \E j \in i + 1 .. Len(text) + 1 :
        shorter = SubSeq(text, 1, i) \o SubSeq(text, j, Len(text))
  BY DEF Erased
<1>2. PICK j \in i + 1 .. Len(text) + 1 :
        shorter = SubSeq(text, 1, i) \o SubSeq(text, j, Len(text))
  BY <1>1
<1> DEFINE head == SubSeq(text, 1, i)
           tail == SubSeq(text, j, Len(text))
           rest == Len(text) + 1 - j
<1>3. /\ Len(text) \in Nat /\ i \in Nat /\ j \in Nat /\ i < j /\ j <= Len(text) + 1
      /\ rest \in Nat
  OBVIOUS
<1>4. head \in Seq(S) /\ Len(head) = i /\ \A k \in 1 .. i : head[k] = text[k]
  BY <1>3
<1>5. tail \in Seq(S) /\ Len(tail) = rest /\ \A k \in 1 .. rest : tail[k] = text[k + j - 1]
  BY <1>3
<1>6. shorter = head \o tail
  BY <1>2
<1> HIDE DEF head, tail
<1>7. shorter \in Seq(S) /\ Len(shorter) = i + rest
  <2>1. head \in Seq(S) /\ tail \in Seq(S) /\ Len(head) = i /\ Len(tail) = rest
    BY <1>4, <1>5
  <2> HIDE DEF rest
  <2>2. head \o tail \in Seq(S)
    BY <2>1
  <2>3. Len(head \o tail) = Len(head) + Len(tail)
    BY <2>1
  <2> QED
    BY <1>6, <2>1, <2>2, <2>3
<1> DEFINE at(k) == IF k <= i THEN k ELSE k - i + j - 1
<1>8. \A k \in 1 .. i + rest : at(k) \in 1 .. Len(text) /\ shorter[k] = text[at(k)]
  <2> TAKE k \in 1 .. i + rest
  <2>1. head \in Seq(S) /\ tail \in Seq(S) /\ Len(head) = i /\ Len(tail) = rest
    BY <1>4, <1>5
  <2>2. CASE k <= i
    <3>1. shorter[k] = head[k] /\ k \in 1 .. i
      BY <1>3, <1>6, <2>1, <2>2
    <3> QED
      BY <1>3, <1>4, <2>2, <3>1
  <2>3. CASE k > i
    <3>1. k - i \in 1 .. rest /\ k \in 1 .. Len(head) + Len(tail) /\ ~(k <= Len(head))
      BY <1>3, <2>1, <2>3
    <3>2. shorter[k] = tail[k - i]
      BY <1>3, <1>6, <2>1, <3>1
    <3>3. tail[k - i] = text[k - i + j - 1]
      BY <1>5, <3>1
    <3>4. k - i + j - 1 \in 1 .. Len(text)
      BY <1>3, <3>1
    <3> QED
      BY <1>3, <2>3, <3>2, <3>3, <3>4
  <2> QED
    BY <1>3, <2>2, <2>3
<1>9. ToSet(shorter) \subseteq ToSet(text)
  <2>1. \A k \in 1 .. i + rest : \E l \in 1 .. Len(text) : shorter[k] = text[l]
    BY <1>8
  <2> QED
    BY <1>7, <2>1 DEF ToSet
<1>10. ASSUME Distinct(text)
       PROVE  Distinct(shorter)
  <2> SUFFICES ASSUME NEW k \in 1 .. i + rest, NEW l \in 1 .. i + rest, shorter[k] = shorter[l]
               PROVE  k = l
    BY <1>7 DEF Distinct
  <2>1. at(k) = at(l)
    BY <1>8, <1>10 DEF Distinct
  <2> QED
    BY <1>3, <2>1
<1> QED
  BY <1>7, <1>9, <1>10

LEMMA AppendedTexts ==
  ASSUME NEW S, NEW text \in Seq(S), NEW ch \in S
  PROVE  text \o <<ch>> \in Seq(S) /\ ToSet(text \o <<ch>>) = ToSet(text) \cup {ch}
<1> DEFINE longer == text \o <<ch>>
<1>1. /\ longer \in Seq(S) /\ Len(longer) = Len(text) + 1 /\ Len(text) \in Nat
      /\ \A k \in 1 .. Len(text) : longer[k] = text[k]
      /\ longer[Len(text) + 1] = ch
  OBVIOUS
<1> HIDE DEF longer
<1>2. ToSet(longer) \subseteq ToSet(text) \cup {ch}
  BY <1>1 DEF ToSet
<1>3. ToSet(text) \cup {ch} \subseteq ToSet(longer)
  BY <1>1 DEF ToSet
<1> QED
  BY <1>1, <1>2, <1>3 DEF longer

-----------------------------------------------------------------------------
(* Sessions and outputs *)

(* A session at rest is empty; an open one has a text, and a conversion a  *)
(* list and no more segments ahead than characters behind it.              *)
Good(s) ==
  /\ s \in Sessions
  /\ s.state \in {"Direct", "Idle"} => s = Empty(s.state)
  /\ s.state \in {"Composing", "Converting"} => s.text # <<>>
  /\ s.state = "Composing" => s.ahead = 0
  /\ s.state = "Converting" => HasVisibleList(s) /\ s.ahead < Len(s.text)

(* What holds of every output: its action fits the session it leaves, and  *)
(* what is not consumed leaves the session alone.                          *)
Proper(s, o) ==
  /\ Good(o.session)
  /\ o.action \in {"Update", "Clear", "Commit"}
  /\ o.action = "Commit" => o.session = Empty("Idle") /\ o.consumed
  /\ o.action = "Update" => IsOpen(o.session)
  /\ o.action = "Clear" => ~IsOpen(o.session)
  /\ ~o.consumed => o.session = s

(* The text an output puts into the document: what of the session's text   *)
(* it keeps, and what has been typed.                                      *)
TextOf(o) == IF o.action = "Commit" THEN o.sent ELSE o.session.text
Carries(s, o, typed, all) ==
  /\ TextOf(o) \in Seq(Chars)
  /\ ToSet(TextOf(o)) \subseteq ToSet(s.text) \cup typed
  /\ typed \subseteq ToSet(TextOf(o))
  /\ all => ToSet(s.text) \subseteq ToSet(TextOf(o))
  /\ Distinct(s.text) /\ typed \cap ToSet(s.text) = {} => Distinct(o.session.text)

LEMMA EmptyText ==
  /\ <<>> \in Seq(Chars) /\ ToSet(<<>>) = {} /\ Distinct(<<>>)
  /\ \A text \in Seq(Chars) : text # <<>> => Len(text) \in Nat /\ Len(text) > 0 /\ ToSet(text) # {}
<1>1. <<>> \in Seq(Chars) /\ ToSet(<<>>) = {} /\ Distinct(<<>>)
  BY DEF ToSet, Distinct
<1>2. ASSUME NEW text \in Seq(Chars), text # <<>>
      PROVE  Len(text) \in Nat /\ Len(text) > 0 /\ ToSet(text) # {}
  <2>1. Len(text) \in Nat /\ Len(text) > 0
    BY <1>2
  <2>2. text[1] \in ToSet(text)
    BY <2>1 DEF ToSet
  <2> QED
    BY <2>1, <2>2
<1> QED
  BY <1>1, <1>2

LEMMA ListsAre ==
  ASSUME MaxList \in Nat
  PROVE  /\ NoList \in Lists /\ FoundLists \subseteq Lists /\ FreshLists \subseteq Lists
         /\ \A l \in Lists : Moved(l) \subseteq Lists /\ \A m \in Moved(l) : m.count = l.count
         /\ \A l \in Lists : l.count \in Nat /\ l.selected \in Nat
         /\ \A l \in FoundLists : l.count > 0
         /\ \A l \in FreshLists : l.count > 0
         /\ \A l \in Lists : l.count = 0 => l = NoList
<1>1. ASSUME NEW l \in Lists
      PROVE  /\ l \in [count : 0 .. MaxList, selected : 0 .. MaxList]
             /\ l.selected < l.count \/ l.selected = 0
  BY DEF Lists
<1>2. ASSUME NEW l \in Lists, ~(l.count > 0)
      PROVE  l = NoList
  <2>1. l.count = 0 /\ l.selected = 0
    BY <1>1, <1>2
  <2>2. l = [count |-> l.count, selected |-> l.selected]
    BY <1>1
  <2> QED
    BY <2>1, <2>2 DEF NoList
<1>3. NoList \in Lists
  BY DEF NoList, Lists
<1>4. \A l \in Lists : l.count = 0 => l = NoList
  <2> TAKE l \in Lists
  <2>1. l.count \in Nat
    BY <1>1
  <2> QED
    BY <1>2, <2>1
<1> QED
  BY <1>1, <1>2, <1>3, <1>4 DEF FoundLists, FreshLists, Moved

LEMMA EmptyIsGood ==
  ASSUME MaxList \in Nat, NEW state \in {"Direct", "Idle"}
  PROVE  /\ Good(Empty(state)) /\ Empty(state).state = state /\ Empty(state).text = <<>>
         /\ Empty(state).list = NoList
BY EmptyText, ListsAre DEF Good, Empty, Sessions

(* A session under one of several lists.                                   *)
LEMMA ShownLists ==
  ASSUME NEW b \in Sessions, NEW lists \in SUBSET Lists,
         NEW o \in ShowEach(WithList(b, lists), TRUE)
  PROVE  /\ o.session \in Sessions /\ o.session.state = b.state /\ o.session.text = b.text
         /\ o.session.ahead = b.ahead /\ o.session.list \in lists
         /\ o.consumed = TRUE /\ o.action = IF IsOpen(b) THEN "Update" ELSE "Clear"
<1>1. PICK l \in lists : o = Shows([b EXCEPT !.list = l], TRUE)
  BY DEF ShowEach, WithList
<1> DEFINE s == [b EXCEPT !.list = l]
<1>2. /\ s \in Sessions /\ s.state = b.state /\ s.text = b.text /\ s.ahead = b.ahead /\ s.list = l
  BY DEF Sessions
<1> HIDE DEF s
<1>3. o = Shows(s, TRUE)
  BY <1>1 DEF s
<1> QED
  BY <1>2, <1>3 DEF Shows, IsOpen

LEMMA ShownProperly ==
  ASSUME NEW s, NEW b, Good(b)
  PROVE  /\ Proper(s, Shows(b, TRUE))
         /\ Shows(b, TRUE).session = b /\ Shows(b, TRUE).action # "Commit"
         /\ Shows(b, TRUE).consumed = TRUE
BY DEF Shows, Proper

LEMMA ShownUnchanged ==
  ASSUME NEW s, Good(s), NEW consumed
  PROVE  /\ Proper(s, Shows(s, consumed))
         /\ Shows(s, consumed).session = s /\ Shows(s, consumed).action # "Commit"
         /\ Shows(s, consumed).consumed = consumed
BY DEF Shows, Proper

LEMMA CommittedProperly ==
  ASSUME MaxList \in Nat, NEW s, NEW text \in Seq(Chars)
  PROVE  /\ Proper(s, Commits(text)) /\ Commits(text).action = "Commit"
         /\ Commits(text).sent = text /\ Commits(text).session = Empty("Idle")
         /\ Commits(text).consumed = TRUE
BY EmptyIsGood DEF Commits, Proper

(* An open session under another list, shown and consumed.                 *)
LEMMA ListedProperly ==
  ASSUME MaxList \in Nat, NEW s \in Sessions, NEW b \in Sessions, IsOpen(b), b.text # <<>>,
         b.state = "Composing" => b.ahead = 0,
         b.state = "Converting" => b.ahead < Len(b.text),
         NEW lists \in SUBSET Lists, b.state = "Converting" => \A l \in lists : l.count > 0,
         NEW o \in ShowEach(WithList(b, lists), TRUE)
  PROVE  Proper(s, o) /\ TextOf(o) = b.text /\ o.session.text = b.text /\ o.consumed = TRUE
         /\ o.action # "Commit"
<1>1. /\ o.session \in Sessions /\ o.session.state = b.state /\ o.session.text = b.text
      /\ o.session.ahead = b.ahead /\ o.session.list \in lists /\ o.consumed = TRUE
      /\ o.action = IF IsOpen(b) THEN "Update" ELSE "Clear"
  BY ShownLists
<1> QED
  BY <1>1 DEF Proper, TextOf, Good, IsOpen, HasVisibleList, Sessions

-----------------------------------------------------------------------------
(* What keys and calls come to *)

Types(key) == key \in {"Letter", "Mark"}
KeepsText(key) == key \notin {"Toggle", "Latin", "Erase"}

LEMMA SameText ==
  ASSUME NEW s, NEW o, s.text \in Seq(Chars), o.action # "Commit", o.session.text = s.text
  PROVE  Carries(s, o, {}, TRUE)
BY DEF Carries, TextOf

LEMMA SentText ==
  ASSUME MaxList \in Nat, NEW s, s.text \in Seq(Chars)
  PROVE  Carries(s, Commits(s.text), {}, TRUE)
BY EmptyText, CommittedProperly, EmptyIsGood DEF Carries, TextOf

LEMMA CarriesLess ==
  ASSUME NEW s, NEW o, NEW typed, NEW all, Carries(s, o, typed, TRUE)
  PROVE  Carries(s, o, typed, all)
BY DEF Carries

LEMMA StaysProperly ==
  ASSUME NEW s, Good(s)
  PROVE  Proper(s, Shows(s, FALSE)) /\ Carries(s, Shows(s, FALSE), {}, TRUE)
         /\ Shows(s, FALSE).consumed = FALSE
<1>1. s.text \in Seq(Chars)
  BY DEF Good, Sessions
<1> DEFINE o == Shows(s, FALSE)
<1>2. Proper(s, o) /\ o.session = s /\ o.action # "Commit" /\ o.consumed = FALSE
  BY ShownUnchanged
<1> HIDE DEF o
<1>3. Carries(s, o, {}, TRUE)
  BY <1>1, <1>2, SameText
<1> QED
  BY <1>2, <1>3 DEF o

LEMMA ModeKeys ==
  ASSUME MaxList \in Nat, NEW s, Good(s), NEW key \in {"Toggle", "Latin", "Hiragana"},
         NEW o \in ModeOutcomes(s, key)
  PROVE  Proper(s, o) /\ Carries(s, o, {}, KeepsText(key)) /\ o.consumed = TRUE
<1>1. s \in Sessions /\ s.text \in Seq(Chars)
  BY DEF Good, Sessions
<1>2. ASSUME NEW state \in {"Direct", "Idle"}, NEW all, all => s.text = <<>>
      PROVE  /\ Proper(s, Shows(Empty(state), TRUE)) /\ Shows(Empty(state), TRUE).consumed = TRUE
             /\ Carries(s, Shows(Empty(state), TRUE), {}, all)
  <2> DEFINE shown == Shows(Empty(state), TRUE)
  <2>1. Proper(s, shown) /\ shown.session = Empty(state) /\ shown.action # "Commit" /\ shown.consumed = TRUE
    BY EmptyIsGood, ShownProperly
  <2>2. shown.session.text = <<>>
    BY <2>1, EmptyIsGood
  <2> HIDE DEF shown
  <2>3. Carries(s, shown, {}, all)
    BY <1>1, <1>2, <2>1, <2>2, EmptyText DEF Carries, TextOf
  <2> QED
    BY <2>1, <2>3 DEF shown
<1>3. CASE key = "Toggle"
  <2>1. PICK state \in {"Direct", "Idle"} : o = Shows(Empty(state), TRUE)
    BY <1>3 DEF ModeOutcomes
  <2> QED
    BY <1>2, <1>3, <2>1 DEF KeepsText
<1>4. CASE key = "Latin"
  <2>1. o = Shows(Empty("Direct"), TRUE)
    BY <1>4 DEF ModeOutcomes
  <2> QED
    BY <1>2, <1>4, <2>1 DEF KeepsText
<1>5. CASE key = "Hiragana" /\ s.state = "Direct"
  <2>1. o = Shows(Empty("Idle"), TRUE)
    BY <1>5 DEF ModeOutcomes
  <2>2. s.text = <<>>
    BY <1>5, EmptyIsGood DEF Good
  <2> QED
    BY <1>2, <2>1, <2>2
<1>6. CASE key = "Hiragana" /\ s.state # "Direct"
  <2>1. o = Shows(s, TRUE)
    BY <1>6 DEF ModeOutcomes
  <2>2. Proper(s, o) /\ o.session = s /\ o.action # "Commit" /\ o.consumed = TRUE
    BY <2>1, ShownProperly
  <2> QED
    BY <1>1, <2>2, SameText, CarriesLess
<1> QED
  BY <1>3, <1>4, <1>5, <1>6

LEMMA IdleKeys ==
  ASSUME MaxList \in Nat, NEW s, Good(s), s.state = "Idle", NEW key \in Keys, NEW ch,
         Types(key) => ch \in Chars, NEW o \in IdleOutcomes(s, key, ch)
  PROVE  /\ Proper(s, o)
         /\ Types(key) => o.consumed = TRUE /\ Carries(s, o, {ch}, TRUE)
         /\ ~Types(key) => o.consumed = FALSE /\ Carries(s, o, {}, TRUE)
<1>1. s \in Sessions /\ s.text = <<>>
  BY EmptyIsGood DEF Good
<1>2. CASE key = "Letter"
  <2>1. PICK l \in FreshLists :
          o = Shows([state |-> "Composing", text |-> <<ch>>, ahead |-> 0, list |-> l], TRUE)
    BY <1>2 DEF IdleOutcomes, ShowEach
  <2> DEFINE b == [state |-> "Composing", text |-> <<ch>>, ahead |-> 0, list |-> l]
  <2>2. Good(b) /\ b.text = <<ch>>
    <3>1. l \in Lists /\ <<ch>> \in Seq(Chars) /\ <<ch>> # <<>>
      BY <1>2, ListsAre DEF Types
    <3> QED
      BY <3>1 DEF Good, Sessions
  <2>3. /\ Proper(s, o) /\ o.consumed = TRUE /\ TextOf(o) = <<ch>> /\ o.session.text = <<ch>>
    <3> HIDE DEF b
    <3>1. o = Shows(b, TRUE)
      BY <2>1 DEF b
    <3> QED
      BY <2>2, <3>1, ShownProperly DEF TextOf
  <2>4. <<ch>> \in Seq(Chars) /\ ToSet(<<ch>>) = {ch} /\ Distinct(<<ch>>)
    BY <1>2 DEF ToSet, Distinct, Types
  <2>5. Carries(s, o, {ch}, TRUE)
    BY <1>1, <2>3, <2>4, EmptyText DEF Carries
  <2> QED
    BY <1>2, <2>3, <2>5 DEF Types
<1>3. CASE key = "Mark"
  <2>1. o = Commits(<<ch>>)
    BY <1>3 DEF IdleOutcomes
  <2>2. <<ch>> \in Seq(Chars) /\ ToSet(<<ch>>) = {ch}
    BY <1>3 DEF ToSet, Types
  <2>3. /\ Proper(s, o) /\ o.action = "Commit" /\ o.sent = <<ch>>
        /\ o.session.text = <<>> /\ o.consumed = TRUE
    BY <2>1, <2>2, CommittedProperly, EmptyIsGood
  <2>4. Carries(s, o, {ch}, TRUE)
    BY <1>1, <2>2, <2>3, EmptyText DEF Carries, TextOf
  <2> QED
    BY <1>3, <2>3, <2>4 DEF Types
<1>4. CASE key \notin {"Letter", "Mark"}
  <2>1. o = Shows(s, FALSE)
    BY <1>4 DEF IdleOutcomes
  <2> QED
    BY <1>4, <2>1, StaysProperly DEF Types
<1> QED
  BY <1>2, <1>3, <1>4

LEMMA ComposingKeys ==
  ASSUME MaxList \in Nat, NEW s, Good(s), s.state = "Composing", NEW key \in Keys, NEW ch,
         Types(key) => ch \in Chars, NEW o \in ComposingOutcomes(s, key, ch)
  PROVE  /\ Proper(s, o)
         /\ Types(key) => o.consumed = TRUE /\ Carries(s, o, {ch}, TRUE)
         /\ ~Types(key) => Carries(s, o, {}, KeepsText(key))
<1>1. /\ s \in Sessions /\ s.text \in Seq(Chars) /\ s.text # <<>> /\ s.ahead = 0 /\ s.list \in Lists
      /\ IsOpen(s)
  BY DEF Good, Sessions, IsOpen
(* The session with another list. *)
<1>2. ASSUME NEW lists \in SUBSET Lists, NEW p \in ShowEach(WithList(s, lists), TRUE)
      PROVE  Proper(s, p) /\ Carries(s, p, {}, TRUE)
  <2>1. Proper(s, p) /\ p.session.text = s.text /\ p.action # "Commit"
    BY <1>1, <1>2, ListedProperly
  <2> QED
    BY <1>1, <2>1, SameText
(* The session with another text. *)
<1>3. ASSUME NEW text \in Seq(Chars), text # <<>>,
             NEW p \in ShowEach(Reopened([s EXCEPT !.text = text]), TRUE)
      PROVE  Proper(s, p) /\ TextOf(p) = text /\ p.session.text = text /\ p.consumed = TRUE
  <2> DEFINE b == [s EXCEPT !.text = text]
  <2>1. b \in Sessions /\ b.text = text /\ b.state = "Composing" /\ b.ahead = 0
    BY <1>1 DEF Sessions
  <2> HIDE DEF b
  <2>2. p \in ShowEach(WithList(b, FreshLists), TRUE)
    BY <1>3 DEF Reopened, b
  <2> QED
    BY <1>1, <1>3, <2>1, <2>2, ListsAre, ListedProperly DEF IsOpen
<1>4. CASE key = "Letter"
  <2>1. PICK text \in Inserted(s.text, ch) : o \in ShowEach(Reopened([s EXCEPT !.text = text]), TRUE)
    BY <1>4 DEF ComposingOutcomes
  <2>2. /\ text \in Seq(Chars) /\ text # <<>> /\ ToSet(text) = ToSet(s.text) \cup {ch}
        /\ Distinct(s.text) /\ ch \notin ToSet(s.text) => Distinct(text)
    <3>1. /\ text \in Seq(Chars) /\ Len(text) = Len(s.text) + 1 /\ ToSet(text) = ToSet(s.text) \cup {ch}
          /\ Distinct(s.text) /\ ch \notin ToSet(s.text) => Distinct(text)
      BY <1>1, <1>4, InsertedTexts DEF Types
    <3>2. Len(s.text) \in Nat
      BY <1>1
    <3> QED
      BY <3>1, <3>2
  <2>3. Proper(s, o) /\ TextOf(o) = text /\ o.session.text = text /\ o.consumed = TRUE
    BY <1>3, <2>1, <2>2
  <2>4. Carries(s, o, {ch}, TRUE)
    BY <2>2, <2>3 DEF Carries
  <2> QED
    BY <1>4, <2>3, <2>4 DEF Types
<1>5. CASE key = "Mark"
  <2>1. o = Commits(s.text \o <<ch>>)
    BY <1>5 DEF ComposingOutcomes
  <2>2. s.text \o <<ch>> \in Seq(Chars) /\ ToSet(s.text \o <<ch>>) = ToSet(s.text) \cup {ch}
    BY <1>1, <1>5, AppendedTexts DEF Types
  <2>3. /\ Proper(s, o) /\ o.action = "Commit" /\ o.sent = s.text \o <<ch>>
        /\ o.session.text = <<>> /\ o.consumed = TRUE
    BY <2>1, <2>2, CommittedProperly, EmptyIsGood
  <2>4. Carries(s, o, {ch}, TRUE)
    BY <2>2, <2>3, EmptyText DEF Carries, TextOf
  <2> QED
    BY <1>5, <2>3, <2>4 DEF Types
<1>6. CASE key = "Erase"
  <2>1. PICK text \in Erased(s.text) :
          o \in IF text = <<>> THEN {Shows(Empty("Idle"), TRUE)}
                ELSE ShowEach(Reopened([s EXCEPT !.text = text]), TRUE)
    BY <1>6 DEF ComposingOutcomes
  <2>2. /\ text \in Seq(Chars) /\ ToSet(text) \subseteq ToSet(s.text)
        /\ Distinct(s.text) => Distinct(text)
    BY <1>1, ErasedTexts
  <2>3. Proper(s, o) /\ TextOf(o) = text /\ o.session.text = text
    <3>1. CASE text = <<>>
      BY <2>1, <3>1, ShownProperly, EmptyIsGood DEF TextOf
    <3>2. CASE text # <<>>
      BY <1>3, <2>1, <2>2, <3>2
    <3> QED
      BY <3>1, <3>2
  <2>4. Carries(s, o, {}, FALSE)
    BY <2>2, <2>3 DEF Carries
  <2> QED
    BY <1>6, <2>3, <2>4 DEF Types, KeepsText
<1>7. CASE key \in {"Arrow", "Escape"}
  <2> DEFINE b == [s EXCEPT !.list = NoList]
  <2>1. Good(b) /\ b.text = s.text
    BY <1>1, ListsAre DEF Good, Sessions
  <2>2. ~HasVisibleList(s) => b = s
    <3>1. ~HasVisibleList(s) => s.list = NoList
      BY <1>1, ListsAre DEF HasVisibleList
    <3>2. [s EXCEPT !.list = s.list] = s
      BY <1>1 DEF Sessions
    <3> QED
      BY <3>1, <3>2
  <2> HIDE DEF b
  <2>3. o = Shows(b, TRUE) \/ o = Shows(b, HasVisibleList(s))
    BY <1>7 DEF ComposingOutcomes, b
  <2>4. Proper(s, o) /\ o.session = b /\ o.action # "Commit"
    <3>1. CASE o = Shows(b, TRUE)
      BY <2>1, <3>1, ShownProperly
    <3>2. CASE o = Shows(b, HasVisibleList(s)) /\ ~HasVisibleList(s)
      BY <2>2, <3>2, ShownUnchanged
    <3>3. CASE o = Shows(b, HasVisibleList(s)) /\ HasVisibleList(s)
      <4>1. HasVisibleList(s) = TRUE
        BY <3>3 DEF HasVisibleList
      <4> QED
        BY <2>1, <3>3, <4>1, ShownProperly
    <3> QED
      BY <2>3, <3>1, <3>2, <3>3
  <2> QED
    BY <1>1, <1>7, <2>1, <2>4, SameText, CarriesLess DEF Types
<1>8. CASE key \in {"Space", "Pick"}
  <2>1. o = Shows(s, FALSE) \/ \E lists \in SUBSET Lists : o \in ShowEach(WithList(s, lists), TRUE)
    BY <1>1, <1>8, ListsAre DEF ComposingOutcomes, Reopened
  <2>2. CASE o = Shows(s, FALSE)
    BY <1>1, <1>8, <2>2, StaysProperly, CarriesLess DEF Types
  <2> QED
    BY <1>2, <1>8, <2>1, <2>2, CarriesLess DEF Types
<1>9. CASE key \in {"Enter", "Digit"}
  <2>1. o = Commits(s.text) \/ o = Shows(s, FALSE)
    BY <1>9 DEF ComposingOutcomes
  <2>2. Proper(s, o) /\ Carries(s, o, {}, TRUE)
    BY <1>1, <2>1, CommittedProperly, SentText, StaysProperly
  <2> QED
    BY <1>9, <2>2, CarriesLess DEF Types
<1>10. CASE key = "Convert"
  <2>1. PICK n \in 0 .. Len(s.text) - 1 :
          o \in ShowEach(WithList([s EXCEPT !.state = "Converting", !.ahead = n], FreshLists), TRUE)
    BY <1>10 DEF ComposingOutcomes, ShowEach
  <2> DEFINE b == [s EXCEPT !.state = "Converting", !.ahead = n]
  <2>2. Len(s.text) \in Nat
    BY <1>1
  <2>3. b \in Sessions /\ b.text = s.text /\ b.state = "Converting" /\ b.ahead = n /\ n \in Nat
        /\ n < Len(b.text)
    <3>1. b \in Sessions
      <4>1. n \in Nat /\ "Converting" \in {"Direct", "Idle", "Composing", "Converting"}
        BY <2>2
      <4> QED
        BY <1>1, <4>1 DEF Sessions
    <3>2. b.text = s.text /\ b.state = "Converting" /\ b.ahead = n
      BY <1>1 DEF Sessions
    <3> QED
      BY <2>2, <3>1, <3>2
  <2> HIDE DEF b
  <2>4. o \in ShowEach(WithList(b, FreshLists), TRUE)
    BY <2>1 DEF b
  <2>5. Proper(s, o) /\ o.session.text = s.text /\ o.action # "Commit"
    <3>1. IsOpen(b) /\ b.text # <<>> /\ b.state # "Composing"
      BY <1>1, <2>3 DEF IsOpen
    <3>2. FreshLists \in SUBSET Lists /\ \A l \in FreshLists : l.count > 0
      BY ListsAre
    <3>3. Proper(s, o) /\ o.session.text = b.text /\ o.action # "Commit"
      BY <1>1, <2>3, <2>4, <3>1, <3>2, ListedProperly
    <3> QED
      BY <2>3, <3>3
  <2> QED
    BY <1>1, <1>10, <2>5, SameText, CarriesLess DEF Types
<1>11. CASE key \in {"Toggle", "Latin", "Hiragana", "Other"}
  <2>1. o = Shows(s, FALSE)
    BY <1>11 DEF ComposingOutcomes
  <2> QED
    BY <1>11, <2>1, StaysProperly, CarriesLess DEF Types
<1> QED
  BY <1>4, <1>5, <1>6, <1>7, <1>8, <1>9, <1>10, <1>11 DEF Keys

(* An accepted or a moved-to segment keeps the text; the last one commits. *)
LEMMA AcceptedProperly ==
  ASSUME MaxList \in Nat, NEW s, Good(s), s.state = "Converting", NEW o \in Accepted(s)
  PROVE  /\ Proper(s, o) /\ Carries(s, o, {}, TRUE) /\ o.consumed = TRUE
         /\ s.ahead = 0 => o = Commits(s.text)
<1>1. /\ s \in Sessions /\ s.text \in Seq(Chars) /\ s.text # <<>> /\ s.ahead \in Nat
      /\ s.list \in Lists /\ s.ahead < Len(s.text) /\ Len(s.text) \in Nat
  BY DEF Good, Sessions
<1>2. CASE s.ahead = 0
  <2>1. o = Commits(s.text)
    BY <1>2 DEF Accepted
  <2> QED
    BY <1>1, <2>1, CommittedProperly, SentText
<1>3. CASE s.ahead > 0
  <2> DEFINE b == [s EXCEPT !.ahead = @ - 1]
  <2>1. b \in Sessions
    BY <1>1, <1>3 DEF Sessions
  <2>2. b.text = s.text /\ b.state = "Converting" /\ b.ahead = s.ahead - 1
    BY <1>1 DEF Sessions
  <2> HIDE DEF b
  <2>3. o \in ShowEach(WithList(b, FoundLists), TRUE)
    BY <1>3 DEF Accepted, b
  <2>4. FoundLists \in SUBSET Lists /\ \A l \in FoundLists : l.count > 0
    BY ListsAre
  <2>5. IsOpen(b) /\ b.text # <<>> /\ b.state # "Composing" /\ b.ahead < Len(b.text)
    BY <1>1, <2>2 DEF IsOpen
  <2>6. Proper(s, o) /\ o.session.text = b.text /\ o.action # "Commit" /\ o.consumed = TRUE
    BY <1>1, <2>1, <2>3, <2>4, <2>5, ListedProperly
  <2>7. Carries(s, o, {}, TRUE)
    BY <1>1, <2>2, <2>6, SameText
  <2>8. s.ahead # 0
    BY <1>3
  <2> QED
    BY <2>6, <2>7, <2>8
<1>4. s.ahead = 0 \/ s.ahead > 0
  BY <1>1
<1> QED
  BY <1>2, <1>3, <1>4

(* A cancelled conversion is a composition with the same text.             *)
LEMMA CancelledProperly ==
  ASSUME MaxList \in Nat, NEW s, Good(s), s.state = "Converting", NEW lists \in SUBSET Lists,
         NEW o \in Cancelled(s, lists)
  PROVE  Proper(s, o) /\ Carries(s, o, {}, TRUE) /\ o.consumed = TRUE
<1>1. s \in Sessions /\ s.text \in Seq(Chars) /\ s.text # <<>>
  BY DEF Good, Sessions
<1> DEFINE b == [s EXCEPT !.state = "Composing", !.ahead = 0]
<1>2. b \in Sessions
  <2>1. "Composing" \in {"Direct", "Idle", "Composing", "Converting"} /\ 0 \in Nat
    OBVIOUS
  <2> QED
    BY <1>1, <2>1 DEF Sessions
<1>3. b.text = s.text /\ b.state = "Composing" /\ b.ahead = 0
  BY <1>1 DEF Sessions
<1> HIDE DEF b
<1>4. o \in ShowEach(WithList(b, lists), TRUE)
  BY DEF Cancelled, b
<1>5. IsOpen(b) /\ b.text # <<>> /\ b.state # "Converting"
  BY <1>1, <1>3 DEF IsOpen
<1>6. Proper(s, o) /\ o.session.text = b.text /\ o.action # "Commit" /\ o.consumed = TRUE
  BY <1>1, <1>2, <1>3, <1>4, <1>5, ListedProperly
<1> QED
  BY <1>1, <1>3, <1>6, SameText

LEMMA ConvertingKeys ==
  ASSUME MaxList \in Nat, NEW s, Good(s), s.state = "Converting", NEW key \in Keys,
         NEW o \in ConvertingOutcomes(s, key)
  PROVE  Proper(s, o) /\ Carries(s, o, {}, TRUE) /\ (Types(key) => o.consumed = FALSE)
<1>1. /\ s \in Sessions /\ s.text \in Seq(Chars) /\ s.text # <<>> /\ s.ahead \in Nat
      /\ s.list \in Lists /\ s.list.count > 0 /\ s.ahead < Len(s.text) /\ Len(s.text) \in Nat
  BY DEF Good, Sessions, HasVisibleList
<1>2. CASE o = Shows(s, FALSE)
  BY <1>2, StaysProperly
<1>3. CASE o \in Accepted(s) /\ ~Types(key)
  BY <1>3, AcceptedProperly
<1>4. CASE o \in Cancelled(s, {NoList}) /\ ~Types(key)
  <2>1. {NoList} \in SUBSET Lists
    BY ListsAre
  <2> QED
    BY <1>4, <2>1, CancelledProperly
<1>5. CASE o \in ShowEach(WithList(s, Moved(s.list)), TRUE) /\ ~Types(key)
  <2>1. Moved(s.list) \in SUBSET Lists /\ \A l \in Moved(s.list) : l.count > 0
    BY <1>1, ListsAre
  <2>2. IsOpen(s) /\ s.state # "Composing"
    BY DEF IsOpen
  <2>3. Proper(s, o) /\ o.session.text = s.text /\ o.action # "Commit" /\ o.consumed = TRUE
    BY <1>1, <1>5, <2>1, <2>2, ListedProperly
  <2> QED
    BY <1>1, <1>5, <2>3, SameText
<1>6. CASE o \in ShowEach(OtherSegment(s), TRUE) /\ ~Types(key)
  <2>1. PICK n \in 0 .. Len(s.text) - 1 :
          o \in ShowEach(WithList([s EXCEPT !.ahead = n], FoundLists), TRUE)
    BY <1>6 DEF OtherSegment, ShowEach
  <2> DEFINE b == [s EXCEPT !.ahead = n]
  <2>2. b \in Sessions /\ b.text = s.text /\ b.state = "Converting" /\ b.ahead = n
    BY <1>1 DEF Sessions
  <2> HIDE DEF b
  <2>3. o \in ShowEach(WithList(b, FoundLists), TRUE)
    BY <2>1 DEF b
  <2>4. FoundLists \in SUBSET Lists /\ \A l \in FoundLists : l.count > 0
    BY ListsAre
  <2>5. IsOpen(b) /\ b.text # <<>> /\ b.state # "Composing" /\ b.ahead < Len(b.text)
    BY <1>1, <2>2 DEF IsOpen
  <2>6. Proper(s, o) /\ o.session.text = b.text /\ o.action # "Commit" /\ o.consumed = TRUE
    BY <1>1, <2>2, <2>3, <2>4, <2>5, ListedProperly
  <2> QED
    BY <1>1, <1>6, <2>2, <2>6, SameText
<1>7. \/ o = Shows(s, FALSE)
      \/ /\ ~Types(key)
         /\ \/ o \in Accepted(s) \/ o \in Cancelled(s, {NoList})
            \/ o \in ShowEach(WithList(s, Moved(s.list)), TRUE) \/ o \in ShowEach(OtherSegment(s), TRUE)
  BY DEF ConvertingOutcomes, Types
<1> QED
  BY <1>2, <1>3, <1>4, <1>5, <1>6, <1>7

(* Every key: the session stays well formed; what types is typed into its  *)
(* text or comes with it into the document, and nothing but Erase and the  *)
(* mode keys takes a character away.                                       *)
LEMMA EveryKey ==
  ASSUME MaxList \in Nat, NEW s, Good(s), NEW key \in Keys, NEW ch, Types(key) => ch \in Chars,
         NEW o \in Outcomes(s, key, ch)
  PROVE  /\ Proper(s, o)
         /\ \/ Types(key) /\ o.consumed = TRUE /\ Carries(s, o, {ch}, TRUE)
            \/ ~(Types(key) /\ o.consumed) /\ Carries(s, o, {}, KeepsText(key))
<1>1. s.state \in {"Direct", "Idle", "Composing", "Converting"}
  BY DEF Good, Sessions
<1>2. CASE key \in {"Toggle", "Latin", "Hiragana"}
  <2>1. o \in ModeOutcomes(s, key)
    BY <1>2 DEF Outcomes
  <2>2. Proper(s, o) /\ Carries(s, o, {}, KeepsText(key))
    BY <1>2, <2>1, ModeKeys
  <2> QED
    BY <1>2, <2>2 DEF Types
<1>3. CASE key \notin {"Toggle", "Latin", "Hiragana"} /\ s.state = "Direct"
  <2>1. o = Shows(s, FALSE)
    BY <1>3 DEF Outcomes
  <2>2. Proper(s, o) /\ Carries(s, o, {}, KeepsText(key)) /\ o.consumed = FALSE
    BY <2>1, StaysProperly, CarriesLess
  <2> QED
    BY <2>2
<1>4. CASE key \notin {"Toggle", "Latin", "Hiragana"} /\ s.state = "Idle"
  <2>1. o \in IdleOutcomes(s, key, ch)
    BY <1>4 DEF Outcomes
  <2>2. /\ Proper(s, o)
        /\ Types(key) => o.consumed = TRUE /\ Carries(s, o, {ch}, TRUE)
        /\ ~Types(key) => o.consumed = FALSE /\ Carries(s, o, {}, TRUE)
    BY <1>4, <2>1, IdleKeys
  <2> QED
    BY <2>2, CarriesLess
<1>5. CASE key \notin {"Toggle", "Latin", "Hiragana"} /\ s.state = "Composing"
  <2>1. o \in ComposingOutcomes(s, key, ch)
    BY <1>5 DEF Outcomes
  <2>2. /\ Proper(s, o)
        /\ Types(key) => o.consumed = TRUE /\ Carries(s, o, {ch}, TRUE)
        /\ ~Types(key) => Carries(s, o, {}, KeepsText(key))
    BY <1>5, <2>1, ComposingKeys
  <2> QED
    BY <2>2
<1>6. CASE key \notin {"Toggle", "Latin", "Hiragana"} /\ s.state = "Converting"
  <2>1. o \in ConvertingOutcomes(s, key)
    BY <1>6 DEF Outcomes
  <2>2. Proper(s, o) /\ Carries(s, o, {}, KeepsText(key)) /\ (Types(key) => o.consumed = FALSE)
    BY <1>6, <2>1, ConvertingKeys, CarriesLess
  <2> QED
    BY <2>2
<1> QED
  BY <1>1, <1>2, <1>3, <1>4, <1>5, <1>6

(* The calls of the candidate window.                                      *)
LEMMA EverySelection ==
  ASSUME MaxList \in Nat, NEW s, Good(s), NEW i \in Nat, NEW o \in SetCandidateSelection(s, i)
  PROVE  /\ Proper(s, o) /\ Carries(s, o, {}, TRUE) /\ o.consumed = TRUE
         /\ o.session.list.count = s.list.count /\ o.session.list.selected = i
<1>1. s \in Sessions /\ s.text \in Seq(Chars) /\ s.list \in Lists /\ i < s.list.count /\ IsOpen(s)
  BY DEF Good, Sessions, SetCandidateSelection
<1>2. /\ s.list \in [count : 0 .. MaxList, selected : 0 .. MaxList]
  BY <1>1 DEF Lists
<1> DEFINE l == [s.list EXCEPT !.selected = i]
           b == [s EXCEPT !.list = l]
<1>3. l \in Lists /\ l.count = s.list.count /\ l.selected = i
  BY <1>1, <1>2 DEF Lists
<1>4. o = Shows(b, TRUE)
  BY DEF SetCandidateSelection
<1> HIDE DEF l
<1>5. b \in Sessions /\ b.text = s.text /\ b.state = s.state /\ b.ahead = s.ahead /\ b.list = l
  BY <1>1, <1>3 DEF Sessions
<1> HIDE DEF b
<1>6. Good(b)
  BY <1>1, <1>3, <1>5 DEF Good, IsOpen, HasVisibleList
<1>7. Proper(s, o) /\ o.session = b /\ o.action # "Commit" /\ o.consumed = TRUE
  BY <1>4, <1>6, ShownProperly
<1> QED
  BY <1>1, <1>3, <1>5, <1>7, SameText

LEMMA EveryFinalize ==
  ASSUME MaxList \in Nat, NEW s, Good(s), NEW o \in FinalizeCandidateSelection(s)
  PROVE  /\ Proper(s, o) /\ Carries(s, o, {}, TRUE) /\ o.consumed = TRUE
         /\ s.state = "Composing" \/ s.ahead = 0 => o = Commits(s.text)
<1>1. s.text \in Seq(Chars)
  BY DEF Good, Sessions
<1>2. CASE s.state = "Composing"
  <2>1. o = Commits(s.text)
    BY <1>2 DEF FinalizeCandidateSelection
  <2> QED
    BY <1>1, <2>1, CommittedProperly, SentText
<1>3. CASE s.state = "Converting"
  <2>1. o \in Accepted(s)
    BY <1>3 DEF FinalizeCandidateSelection
  <2> QED
    BY <1>3, <2>1, AcceptedProperly
<1> QED
  BY <1>2, <1>3 DEF FinalizeCandidateSelection

LEMMA EveryAbort ==
  ASSUME MaxList \in Nat, NEW s, Good(s), NEW o \in AbortCandidateSelection(s)
  PROVE  Proper(s, o) /\ Carries(s, o, {}, TRUE) /\ o.consumed = TRUE
<1>1. s \in Sessions /\ s.text \in Seq(Chars) /\ s.list \in Lists
  BY DEF Good, Sessions
<1>2. CASE s.state = "Composing"
  <2> DEFINE b == [s EXCEPT !.list = NoList]
  <2>1. Good(b) /\ b.text = s.text
    BY <1>1, <1>2, ListsAre DEF Good, Sessions
  <2> HIDE DEF b
  <2>2. o = Shows(b, TRUE)
    BY <1>2 DEF AbortCandidateSelection, b
  <2>3. Proper(s, o) /\ o.session = b /\ o.action # "Commit" /\ o.consumed = TRUE
    BY <2>1, <2>2, ShownProperly
  <2> QED
    BY <1>1, <2>1, <2>3, SameText
<1>3. CASE s.state = "Converting"
  <2>1. o \in Cancelled(s, FreshLists) /\ FreshLists \in SUBSET Lists
    BY <1>3, ListsAre DEF AbortCandidateSelection
  <2> QED
    BY <1>3, <2>1, CancelledProperly
<1> QED
  BY <1>2, <1>3 DEF AbortCandidateSelection

LEMMA DiscardedIsGood ==
  ASSUME MaxList \in Nat, NEW s
  PROVE  Good(Discarded(s)) /\ Discarded(s).text = <<>> /\ Discarded(s).list = NoList
BY EmptyIsGood DEF Discarded

-----------------------------------------------------------------------------
(* The candidate element: whatever table of pages the host hands in and    *)
(* whatever is selected, it shows the page with the selection, for every   *)
(* page size.                                                              *)

(* A set of natural numbers that is not empty has a smallest. *)
LEMMA Smallest ==
  ASSUME NEW T \in SUBSET Nat, T # {}
  PROVE \E x \in T : \A y \in T : x <= y
  <1> DEFINE R == OpToRel(<, Nat)
  <1>1. IsWellFoundedOn(R, Nat)
    BY NatLessThanWellFounded
  <1>2. \A x, y \in Nat : y < x => <<y, x>> \in R
    BY DEF OpToRel
  <1> HIDE DEF R
  <1>3. \E x \in T : \A y \in T : ~ (<<y, x>> \in R)
    BY <1>1, WFMin
  <1>4. \A x, y \in Nat : ~(y < x) => x <= y
    OBVIOUS
  <1> QED BY <1>2, <1>3, <1>4

(* The page PageStart looks for exists, and it has the selection on it.    *)
LEMMA SelectedPage ==
  ASSUME NEW pages \in Seq(Nat), pages # <<>>, pages[1] = 0, NEW selected \in Nat
  PROVE \E page \in 1 .. Len(pages) :
          /\ PageStart(pages, selected) = pages[page] /\ pages[page] <= selected
          /\ page < Len(pages) => selected < pages[page + 1]
  <1> DEFINE Fits(page) == /\ \A earlier \in 2 .. page : pages[earlier] <= selected
                           /\ page < Len(pages) => pages[page + 1] > selected
             Late == {page \in 2 .. Len(pages) : pages[page] > selected}
  <1>1. Len(pages) \in Nat \ {0} /\ \A page \in 1 .. Len(pages) : pages[page] \in Nat
    OBVIOUS
  <1>2. \E page \in 1 .. Len(pages) : Fits(page)
    <2>1. CASE Late = {}
      <3>1. \A earlier \in 2 .. Len(pages) : pages[earlier] <= selected
        BY <1>1, <2>1
      <3>2. Fits(Len(pages)) /\ Len(pages) \in 1 .. Len(pages)
        BY <1>1, <3>1
      <3> QED BY <3>2
    <2>2. CASE Late # {}
      <3>1. Late \in SUBSET Nat
        BY <1>1
      <3> HIDE DEF Late
      <3>2. PICK next \in Late : \A page \in Late : next <= page
        BY <2>2, <3>1, Smallest
      <3> USE DEF Late
      <3>3. next \in 2 .. Len(pages) /\ pages[next] > selected
        BY <3>2
      <3>4. ASSUME NEW earlier \in 2 .. next - 1
            PROVE pages[earlier] <= selected
        <4>1. earlier \in 2 .. Len(pages) /\ earlier < next
          BY <1>1, <3>3
        <4>2. earlier \notin Late
          BY <3>2, <3>3, <4>1
        <4> QED BY <1>1, <4>1, <4>2
      <3>5. Fits(next - 1) /\ next - 1 \in 1 .. Len(pages)
        BY <1>1, <3>3, <3>4
      <3> QED BY <3>5
    <2> QED BY <2>1, <2>2
  <1> DEFINE chosen == CHOOSE page \in 1 .. Len(pages) : Fits(page)
  <1>3. chosen \in 1 .. Len(pages) /\ Fits(chosen)
    BY <1>2
  <1>4. PageStart(pages, selected) = pages[chosen]
    BY DEF PageStart
  <1> HIDE DEF chosen
  <1>5. pages[chosen] <= selected
    <2>1. CASE chosen = 1
      BY <2>1
    <2>2. CASE chosen # 1
      BY <1>1, <1>3, <2>2
    <2> QED BY <2>1, <2>2
  <1> QED BY <1>1, <1>3, <1>4, <1>5

(* A viewport set from table and selection shows the selection. *)
LEMMA ShownFromStart ==
  ASSUME NEW e, e.pages \in Seq(Nat), e.pages # <<>> => e.pages[1] = 0, e.selected \in Nat,
         e.pages # <<>> => e.start = Start(e.pages, e.selected)
  PROVE ShowsSelectedPage(e)
  <1>1. SUFFICES ASSUME e.pages # <<>>
                 PROVE \E page \in 1 .. Len(e.pages) :
                         /\ e.start = e.pages[page] /\ e.start <= e.selected
                         /\ page < Len(e.pages) => e.selected < e.pages[page + 1]
    BY DEF ShowsSelectedPage
  <1>2. e.start = PageStart(e.pages, e.selected)
    BY <1>1 DEF Start
  <1>3. PICK page \in 1 .. Len(e.pages) :
          /\ PageStart(e.pages, e.selected) = e.pages[page] /\ e.pages[page] <= e.selected
          /\ page < Len(e.pages) => e.selected < e.pages[page + 1]
    BY <1>1, SelectedPage
  <1> QED BY <1>2, <1>3

(* The table of the service's own pages is one. *)
LEMMA DefaultPagesAre ==
  ASSUME NEW count \in Nat
  PROVE DefaultPages(count) \in Seq(Nat) /\ (DefaultPages(count) # <<>> => DefaultPages(count)[1] = 0)
  <1> DEFINE pages == (count + PageSize - 1) \div PageSize
  <1>1. PageSize \in Nat \ {0} /\ count + PageSize - 1 \in Nat
    BY PageSizeAssumption
  <1>2. pages \in Nat
    BY <1>1
  <1>3. DefaultPages(count) = [page \in 1 .. pages |-> (page - 1) * PageSize]
    BY DEF DefaultPages
  <1> HIDE DEF pages
  <1>4. \A page \in 1 .. pages : (page - 1) * PageSize \in Nat
    BY <1>1, <1>2
  <1>5. DefaultPages(count) \in [1 .. pages -> Nat] /\ Len(DefaultPages(count)) = pages
    BY <1>2, <1>3, <1>4
  <1>6. DefaultPages(count) \in Seq(Nat)
    BY <1>2, <1>5
  <1>7. ASSUME DefaultPages(count) # <<>> PROVE DefaultPages(count)[1] = 0
    <2>1. pages # 0
      BY <1>5, <1>6, <1>7
    <2> QED BY <1>1, <1>2, <1>3, <2>1
  <1> QED BY <1>6, <1>7

(* update: a new list is shown on the page of its selection, wherever the  *)
(* engine's highlight was.                                                 *)
THEOREM UpdateShowsSelection ==
  ASSUME NEW count \in Nat, NEW selected \in Nat
  PROVE ShowsSelectedPage(Updated(count, selected))
  <1> DEFINE e == Updated(count, selected)
  <1>1. e.pages = DefaultPages(count) /\ e.start = Start(e.pages, e.selected) /\ e.selected \in Nat
    BY DEF Updated, Clamped
  <1> HIDE DEF e
  <1>2. ShowsSelectedPage(e)
    BY <1>1, DefaultPagesAre, ShownFromStart
  <1> QED BY <1>2 DEF e

(* SetPageIndex: so is the old list under any table of the host's.         *)
THEOREM RepagingShowsSelection ==
  ASSUME NEW e \in Element, NEW pages \in Seq(Nat), IsPageTable(pages, e.count)
  PROVE ShowsSelectedPage(Repaged(e, pages))
  <1> DEFINE f == Repaged(e, pages)
  <1>1. f.pages = pages /\ f.selected = e.selected /\ f.start = Start(pages, e.selected) /\ e.selected \in Nat
    BY DEF Repaged, Element
  <1>2. pages # <<>> => pages[1] = 0
    BY DEF IsPageTable
  <1> HIDE DEF f
  <1>3. ShowsSelectedPage(f)
    BY <1>1, <1>2, ShownFromStart
  <1> QED BY <1>3 DEF f

(* SetSelection: whatever its owner did to the element in between, it      *)
(* shows the selection if the owner's element did.                         *)
THEOREM SelectingShowsSelection ==
  ASSUME NEW before \in Element, NEW e \in Element, NEW i \in Nat,
         ShowsSelectedPage(e), e.pages # <<>> => e.pages[1] = 0
  PROVE ShowsSelectedPage(SelectedHere(before, e, i))
  <1>1. CASE SelectedHere(before, e, i) = e
    BY <1>1
  <1>2. CASE SelectedHere(before, e, i) # e
    <2> DEFINE f == SelectedHere(before, e, i)
    <2>1. f = [e EXCEPT !.selected = i, !.start = IF e.pages = <<>> THEN @ ELSE Start(e.pages, i)]
      BY <1>2 DEF SelectedHere
    <2>2. f.pages = e.pages /\ f.selected = i /\ (e.pages # <<>> => f.start = Start(e.pages, i))
      BY <2>1 DEF Element
    <2>3. e.pages \in Seq(Nat)
      BY DEF Element
    <2> HIDE DEF f
    <2>4. ShowsSelectedPage(f)
      BY <2>2, <2>3, ShownFromStart
    <2> QED BY <2>4 DEF f
  <1> QED BY <1>1, <1>2

-----------------------------------------------------------------------------
(* The document *)

Compositions ==
  {k \in [context : Contexts \cup {NoContext}, text : SUBSET Chars] :
     k.context = NoContext => k.text = {}}

Docs ==
  [composition : Compositions, plain : [Chars -> Copies], left : BOOLEAN,
   queue : Seq(EditSessions), faults : 0 .. MaxFaults]

(* What every operation of the document keeps; a call that fails is seen.  *)
Follows(d, f) == f \in Docs /\ f.queue = d.queue /\ f.faults >= d.faults
NoneFails(d, f) == f.faults = d.faults

(* They differ at most in the calls that have failed.                      *)
Alike(d, f) == f.composition = d.composition /\ f.plain = d.plain /\ f.queue = d.queue

LEMMA DocsAre ==
  ASSUME NEW d \in Docs
  PROVE  /\ d.composition \in Compositions /\ d.plain \in [Chars -> Copies]
         /\ d.queue \in Seq(EditSessions) /\ d.faults \in Nat /\ d.faults <= MaxFaults
         /\ Follows(d, d)
BY BoundsAssumption DEF Docs, Follows

LEMMA FollowsOn ==
  ASSUME NEW d \in Docs, NEW f, Follows(d, f), NEW g, Follows(f, g)
  PROVE  /\ Follows(d, g)
         /\ NoneFails(d, g) => NoneFails(d, f) /\ NoneFails(f, g)
<1>1. d.faults \in Nat /\ f.faults \in Nat /\ g.faults \in Nat
  BY DocsAre DEF Follows
<1> QED
  BY <1>1 DEF Follows, NoneFails

LEMMA CompositionsAre ==
  /\ NoComposition \in Compositions /\ NoComposition.context = NoContext /\ NoComposition.text = {}
  /\ \A k \in Compositions :
       /\ k.context \in Contexts \cup {NoContext} /\ k.text \in SUBSET Chars
       /\ k.context = NoContext <=> k = NoComposition
  /\ \A c \in Contexts, text \in SUBSET Chars :
       /\ [context |-> c, text |-> text] \in Compositions
       /\ [context |-> c, text |-> text].context = c /\ [context |-> c, text |-> text].text = text
<1>1. NoComposition \in Compositions /\ NoComposition.context = NoContext /\ NoComposition.text = {}
  BY DEF NoComposition, Compositions
<1>2. ASSUME NEW k \in Compositions
      PROVE  /\ k.context \in Contexts \cup {NoContext} /\ k.text \in SUBSET Chars
             /\ k.context = NoContext => k = NoComposition
  <2>1. k \in [context : Contexts \cup {NoContext}, text : SUBSET Chars]
        /\ (k.context = NoContext => k.text = {})
    BY DEF Compositions
  <2>2. k = [context |-> k.context, text |-> k.text]
    BY <2>1
  <2> QED
    BY <2>1, <2>2 DEF NoComposition
<1>3. ASSUME NEW c \in Contexts, NEW text \in SUBSET Chars
      PROVE  [context |-> c, text |-> text] \in Compositions
  BY BoundsAssumption DEF Compositions
<1> QED
  BY <1>1, <1>2, <1>3

LEMMA FaultsAre ==
  ASSUME NEW d \in Docs, NEW f \in Faults(d)
  PROVE  /\ Follows(d, f) /\ ~NoneFails(d, f) /\ f.faults > d.faults
         /\ f.composition = d.composition /\ f.plain = d.plain /\ f.left = d.left
<1>1. f = [d EXCEPT !.faults = @ + 1] /\ d.faults < MaxFaults
  BY DEF Faults
<1>2. d.faults + 1 \in 0 .. MaxFaults /\ d.faults \in Nat
  BY <1>1, DocsAre, BoundsAssumption
<1>3. f \in Docs
  BY <1>1, <1>2 DEF Docs
<1>4. f.faults = d.faults + 1 /\ f.queue = d.queue
      /\ f.composition = d.composition /\ f.plain = d.plain /\ f.left = d.left
  BY <1>1 DEF Docs
<1> QED
  BY <1>2, <1>3, <1>4 DEF Follows, NoneFails

LEMMA PutIs ==
  ASSUME NEW plain \in [Chars -> Copies], NEW text
  PROVE  /\ Put(plain, text) \in [Chars -> Copies]
         /\ \A ch \in Chars :
              /\ ch \in text /\ plain[ch] = 0 => Put(plain, text)[ch] = 1
              /\ ch \notin text => Put(plain, text)[ch] = plain[ch]
<1>1. \A ch \in Chars : (IF ch \in text /\ plain[ch] < 2 THEN plain[ch] + 1 ELSE plain[ch]) \in Copies
  BY DEF Copies
<1> QED
  BY <1>1 DEF Put

LEMMA ReleasedIs ==
  ASSUME NEW d \in Docs
  PROVE  /\ Follows(d, Released(d)) /\ NoneFails(d, Released(d))
         /\ Released(d).composition = NoComposition
<1>1. CASE ~HasComposition(d)
  BY <1>1, DocsAre DEF Released, HasComposition, NoneFails
<1>2. CASE HasComposition(d)
  <2> DEFINE f == Released(d)
  <2>1. f = [d EXCEPT !.composition = NoComposition, !.left = TRUE, !.plain = Put(@, d.composition.text)]
    BY <1>2 DEF Released
  <2>2. Put(d.plain, d.composition.text) \in [Chars -> Copies] /\ NoComposition \in Compositions
        /\ TRUE \in BOOLEAN
    BY PutIs, CompositionsAre, DocsAre
  <2>3. f \in Docs
    BY <2>1, <2>2 DEF Docs
  <2>4. f.composition = NoComposition /\ f.queue = d.queue /\ f.faults = d.faults
    BY <2>1 DEF Docs
  <2> HIDE DEF f
  <2>5. Follows(d, f) /\ NoneFails(d, f)
    BY <2>3, <2>4, DocsAre DEF Follows, NoneFails
  <2> QED
    BY <2>4, <2>5 DEF f
<1> QED
  BY <1>1, <1>2

LEMMA EndedIs ==
  ASSUME NEW d \in Docs, NEW text
  PROVE  /\ Follows(d, Ended(d, text)) /\ NoneFails(d, Ended(d, text))
         /\ Ended(d, text).composition = NoComposition
         /\ Ended(d, text).plain = Put(d.plain, text)
<1> DEFINE f == Ended(d, text)
<1>1. Put(d.plain, text) \in [Chars -> Copies] /\ NoComposition \in Compositions
  BY PutIs, CompositionsAre, DocsAre
<1>2. f \in Docs
  BY <1>1 DEF Ended, Docs
<1>3. f.composition = NoComposition /\ f.queue = d.queue /\ f.faults = d.faults
      /\ f.plain = Put(d.plain, text)
  BY DEF Ended, Docs
<1> HIDE DEF f
<1>4. Follows(d, f) /\ NoneFails(d, f)
  BY <1>2, <1>3, DocsAre DEF Follows, NoneFails
<1> QED
  BY <1>3, <1>4 DEF f

LEMMA LeftIs ==
  ASSUME NEW d \in Docs
  PROVE  Follows(d, [d EXCEPT !.left = TRUE]) /\ NoneFails(d, [d EXCEPT !.left = TRUE])
<1> DEFINE f == [d EXCEPT !.left = TRUE]
<1>1. f \in Docs
  BY DEF Docs
<1>2. f.queue = d.queue /\ f.faults = d.faults
  BY DEF Docs
<1> HIDE DEF f
<1>3. Follows(d, f) /\ NoneFails(d, f)
  BY <1>1, <1>2, DocsAre DEF Follows, NoneFails
<1> QED
  BY <1>3 DEF f

-----------------------------------------------------------------------------
(* Edit sessions.  Where no call fails, each does what it was asked to.    *)

LEMMA InsertTextIs ==
  ASSUME NEW d \in Docs, NEW text, NEW r \in InsertText(d, text)
  PROVE  /\ Follows(d, r.doc)
         /\ NoneFails(d, r.doc) => /\ r.ok /\ r.doc.plain = Put(d.plain, text)
                                   /\ r.doc.composition = d.composition
<1>1. CASE r = Ok([d EXCEPT !.plain = Put(@, text)])
  <2> DEFINE f == [d EXCEPT !.plain = Put(@, text)]
  <2>1. Put(d.plain, text) \in [Chars -> Copies]
    BY PutIs, DocsAre
  <2>2. f \in Docs
    BY <2>1 DEF Docs
  <2>3. f.queue = d.queue /\ f.faults = d.faults /\ f.plain = Put(d.plain, text)
        /\ f.composition = d.composition
    BY DEF Docs
  <2>4. r.doc = f /\ r.ok
    BY <1>1 DEF Ok
  <2> HIDE DEF f
  <2> QED
    BY <2>2, <2>3, <2>4, DocsAre DEF Follows
<1>2. CASE \E f \in Faults(d) : r = Failed(f)
  BY <1>2, FaultsAre DEF Failed
<1> QED
  BY <1>1, <1>2 DEF InsertText

LEMMA CommitTextIs ==
  ASSUME NEW d \in Docs, NEW c, NEW text, NEW r \in CommitText(d, c, text)
  PROVE  /\ Follows(d, r.doc)
         /\ NoneFails(d, r.doc) =>
              /\ r.ok /\ r.doc.plain = Put(d.plain, text)
              /\ r.doc.composition = IF d.composition.context = c THEN NoComposition ELSE d.composition
<1>1. CASE d.composition.context # c
  <2>1. r \in InsertText(d, text)
    BY <1>1 DEF CommitText
  <2> QED
    BY <1>1, <2>1, InsertTextIs
<1>2. CASE d.composition.context = c /\ r = Ok(Ended(d, text))
  <2>1. r.doc = Ended(d, text) /\ r.ok
    BY <1>2 DEF Ok
  <2> QED
    BY <1>2, <2>1, EndedIs
<1>3. ASSUME NEW f \in Faults(d), r \in InsertText(Released(f), text)
      PROVE  Follows(d, r.doc) /\ ~NoneFails(d, r.doc)
  <2>1. Follows(d, f) /\ ~NoneFails(d, f) /\ f \in Docs
    BY FaultsAre DEF Follows
  <2>2. Follows(f, Released(f)) /\ Released(f) \in Docs
    BY <2>1, ReleasedIs DEF Follows
  <2>3. Follows(Released(f), r.doc)
    BY <1>3, <2>2, InsertTextIs
  <2> QED
    BY <2>1, <2>2, <2>3, FollowsOn
<1>4. ASSUME NEW f \in Faults(d), r = Failed(Released(f))
      PROVE  Follows(d, r.doc) /\ ~NoneFails(d, r.doc)
  <2>1. Follows(d, f) /\ ~NoneFails(d, f) /\ f \in Docs
    BY FaultsAre DEF Follows
  <2>2. Follows(f, r.doc)
    BY <1>4, <2>1, ReleasedIs DEF Failed
  <2> QED
    BY <2>1, <2>2, FollowsOn
<1>5. ASSUME NEW f \in Faults(d), r = Failed([Ended(f, text) EXCEPT !.left = TRUE])
      PROVE  Follows(d, r.doc) /\ ~NoneFails(d, r.doc)
  <2>1. Follows(d, f) /\ ~NoneFails(d, f) /\ f \in Docs
    BY FaultsAre DEF Follows
  <2>2. Follows(f, Ended(f, text)) /\ Ended(f, text) \in Docs
    BY <2>1, EndedIs DEF Follows
  <2>3. Follows(Ended(f, text), r.doc)
    BY <1>5, <2>2, LeftIs DEF Failed
  <2> QED
    BY <2>1, <2>2, <2>3, FollowsOn
<1>6. \/ d.composition.context # c
      \/ d.composition.context = c /\ r = Ok(Ended(d, text))
      \/ \E f \in Faults(d) : r \in InsertText(Released(f), text)
      \/ \E f \in Faults(d) : r = Failed(Released(f))
      \/ \E f \in Faults(d) : r = Failed([Ended(f, text) EXCEPT !.left = TRUE])
  BY DEF CommitText
<1> QED
  BY <1>1, <1>2, <1>3, <1>4, <1>5, <1>6

LEMMA EnsureActiveCompositionIs ==
  ASSUME NEW d \in Docs, NEW c \in Contexts, NEW r \in EnsureActiveComposition(d, c)
  PROVE  /\ Follows(d, r.doc)
         /\ r.ok => r.doc.composition.context = c
         /\ NoneFails(d, r.doc) =>
              /\ r.ok
              /\ r.doc.plain = IF d.composition.context \in {NoContext, c} THEN d.plain
                               ELSE Released(d).plain
<1> DEFINE here == IF d.composition.context \in {NoContext, c} THEN d ELSE Released(d)
           fresh == [here EXCEPT !.composition = [context |-> c, text |-> {}]]
           started == IF HasComposition(here) THEN here ELSE fresh
<1>1. /\ Follows(d, here) /\ NoneFails(d, here) /\ here \in Docs
      /\ here.composition.context \in {NoContext, c}
      /\ here.plain = IF d.composition.context \in {NoContext, c} THEN d.plain ELSE Released(d).plain
  BY DocsAre, ReleasedIs, CompositionsAre DEF Follows, NoneFails
<1> HIDE DEF here
<1>2. Follows(here, fresh) /\ NoneFails(here, fresh) /\ fresh.composition.context = c
      /\ fresh.plain = here.plain
  <2>1. [context |-> c, text |-> {}] \in Compositions
    BY CompositionsAre
  <2>2. fresh \in Docs
    BY <1>1, <2>1 DEF Docs
  <2>3. fresh.queue = here.queue /\ fresh.faults = here.faults /\ fresh.plain = here.plain
        /\ fresh.composition = [context |-> c, text |-> {}]
    BY <1>1 DEF Docs
  <2> HIDE DEF fresh
  <2> QED
    BY <1>1, <2>2, <2>3, DocsAre DEF Follows, NoneFails
<1> HIDE DEF fresh
<1>3. /\ Follows(here, started) /\ NoneFails(here, started) /\ started.composition.context = c
      /\ started.plain = here.plain
  <2>1. HasComposition(here) => here.composition.context = c
    BY <1>1, CompositionsAre, DocsAre DEF HasComposition
  <2> QED
    BY <1>1, <1>2, <2>1, DocsAre DEF NoneFails
<1> HIDE DEF started
<1>4. Follows(d, started) /\ NoneFails(d, started) /\ started \in Docs
  <2>1. Follows(d, started) /\ started \in Docs
    BY <1>1, <1>3, FollowsOn DEF Follows
  <2> QED
    BY <1>1, <1>3, <2>1 DEF NoneFails
<1>5. CASE r = Ok(started)
  BY <1>1, <1>3, <1>4, <1>5 DEF Ok
<1>6. ASSUME NEW f \in Faults(started), r = Failed(f)
      PROVE  Follows(d, r.doc) /\ ~r.ok /\ ~NoneFails(d, r.doc)
  <2>1. r.doc = f /\ ~r.ok
    BY <1>6 DEF Failed
  <2>2. Follows(started, f) /\ ~NoneFails(started, f)
    BY <1>4, FaultsAre
  <2> QED
    BY <1>4, <2>1, <2>2, FollowsOn
<1>7. ASSUME NEW f \in Faults(here), r = Failed(f)
      PROVE  Follows(d, r.doc) /\ ~r.ok /\ ~NoneFails(d, r.doc)
  <2>1. r.doc = f /\ ~r.ok
    BY <1>7 DEF Failed
  <2>2. Follows(here, f) /\ ~NoneFails(here, f)
    BY <1>1, FaultsAre
  <2> QED
    BY <1>1, <2>1, <2>2, FollowsOn
<1>8. \/ r = Ok(started)
      \/ \E f \in Faults(started) : r = Failed(f)
      \/ \E f \in Faults(here) : r = Failed(f)
  BY DEF EnsureActiveComposition, started, fresh, here
<1> QED
  BY <1>5, <1>6, <1>7, <1>8

LEMMA UpdateCompositionIs ==
  ASSUME NEW d \in Docs, NEW c \in Contexts, NEW text \in SUBSET Chars,
         NEW r \in UpdateComposition(d, c, text)
  PROVE  /\ Follows(d, r.doc)
         /\ NoneFails(d, r.doc) =>
              /\ r.ok
              /\ r.doc.composition = [context |-> c, text |-> text]
              /\ r.doc.plain = IF d.composition.context \in {NoContext, c} THEN d.plain
                               ELSE Released(d).plain
<1> DEFINE plain == IF d.composition.context \in {NoContext, c} THEN d.plain ELSE Released(d).plain
           tried == EnsureActiveComposition(d, c)
           again == UNION {EnsureActiveComposition(Released(q.doc), c) : q \in {q \in tried : ~q.ok}}
           ranges == {q \in tried : q.ok} \cup again
<1>1. ASSUME NEW q \in tried
      PROVE  /\ Follows(d, q.doc) /\ q.ok => q.doc.composition.context = c
             /\ NoneFails(d, q.doc) => q.ok /\ q.doc.plain = plain
  BY EnsureActiveCompositionIs
<1>2. ASSUME NEW q \in tried
      PROVE  Follows(d, q.doc)
  BY EnsureActiveCompositionIs
<1> HIDE DEF plain, tried
<1>3. ASSUME NEW q \in again
      PROVE  /\ Follows(d, q.doc) /\ ~NoneFails(d, q.doc)
             /\ q.ok => q.doc.composition.context = c
  <2>1. PICK p \in tried : ~p.ok /\ q \in EnsureActiveComposition(Released(p.doc), c)
    OBVIOUS
  <2>2. Follows(d, p.doc) /\ ~NoneFails(d, p.doc) /\ p.doc \in Docs
    BY <1>1, <1>2, <2>1 DEF Follows
  <2>3. Follows(p.doc, Released(p.doc)) /\ Released(p.doc) \in Docs
    BY <2>2, ReleasedIs DEF Follows
  <2>4. Follows(Released(p.doc), q.doc) /\ (q.ok => q.doc.composition.context = c)
    BY <2>1, <2>3, EnsureActiveCompositionIs
  <2>5. Follows(p.doc, q.doc)
    BY <2>2, <2>3, <2>4, FollowsOn
  <2> QED
    BY <2>2, <2>4, <2>5, FollowsOn
<1> HIDE DEF again
<1>4. ASSUME NEW q \in ranges
      PROVE  /\ Follows(d, q.doc)
             /\ q.ok => q.doc.composition.context = c
             /\ NoneFails(d, q.doc) => q.ok /\ q.doc.plain = plain
  BY <1>1, <1>2, <1>3
<1> HIDE DEF ranges
<1>5. CASE r \in ranges /\ ~r.ok
  BY <1>4, <1>5
<1>6. ASSUME NEW q \in ranges, q.ok, r = Ok([q.doc EXCEPT !.composition.text = text])
      PROVE  /\ Follows(d, r.doc) /\ r.ok
             /\ r.doc.composition = [context |-> c, text |-> text]
             /\ NoneFails(d, r.doc) => r.doc.plain = plain
  <2>1. Follows(d, q.doc) /\ q.doc \in Docs /\ q.doc.composition.context = c
    BY <1>4, <1>6 DEF Follows
  <2> DEFINE k == q.doc.composition
             l == [k EXCEPT !.text = text]
             f == [q.doc EXCEPT !.composition = l]
  <2>2. r.doc = f /\ r.ok
    BY <1>6 DEF Ok
  <2>3. l = [context |-> c, text |-> text] /\ l \in Compositions
    <3>1. k \in [context : Contexts \cup {NoContext}, text : SUBSET Chars] /\ k.context = c
      BY <2>1, DocsAre DEF Compositions
    <3> HIDE DEF k
    <3>2. l \in [context : Contexts \cup {NoContext}, text : SUBSET Chars] /\ l.context = c
          /\ l.text = text
      BY <3>1
    <3>3. l = [context |-> l.context, text |-> l.text]
      BY <3>2
    <3> QED
      BY <3>2, <3>3, CompositionsAre
  <2> HIDE DEF l
  <2>4. f \in Docs
    BY <2>1, <2>3 DEF Docs
  <2>5. f.queue = q.doc.queue /\ f.faults = q.doc.faults /\ f.composition = l
        /\ f.plain = q.doc.plain
    BY <2>1 DEF Docs
  <2> HIDE DEF f
  <2>6. Follows(q.doc, f) /\ (NoneFails(d, f) => NoneFails(d, q.doc))
    BY <2>1, <2>4, <2>5, DocsAre DEF Follows, NoneFails
  <2>7. Follows(d, f)
    BY <2>1, <2>6, FollowsOn
  <2> QED
    BY <1>4, <2>2, <2>3, <2>5, <2>6, <2>7
<1>7. ASSUME NEW q \in ranges, NEW f \in Faults(q.doc), r = Failed(f)
      PROVE  Follows(d, r.doc) /\ ~NoneFails(d, r.doc)
  <2>1. Follows(d, q.doc) /\ q.doc \in Docs
    BY <1>4 DEF Follows
  <2>2. Follows(q.doc, f) /\ ~NoneFails(q.doc, f) /\ r.doc = f
    BY <1>7, <2>1, FaultsAre DEF Failed
  <2> QED
    BY <2>1, <2>2, FollowsOn
<1>8. \/ r \in ranges /\ ~r.ok
      \/ \E q \in ranges : q.ok /\ r = Ok([q.doc EXCEPT !.composition.text = text])
      \/ \E q \in ranges : \E f \in Faults(q.doc) : r = Failed(f)
  BY Zenon DEF UpdateComposition, ranges, again, tried
<1> QED
  BY <1>5, <1>6, <1>7, <1>8 DEF plain

LEMMA ClearCompositionIs ==
  ASSUME NEW d \in Docs, NEW r \in ClearComposition(d)
  PROVE  /\ Follows(d, r.doc)
         /\ NoneFails(d, r.doc) =>
              r.ok /\ r.doc.composition = NoComposition /\ r.doc.plain = d.plain
<1>1. CASE ~HasComposition(d)
  <2>1. r.ok /\ r.doc = d
    BY <1>1 DEF ClearComposition, Ok
  <2> QED
    BY <1>1, <2>1, DocsAre DEF HasComposition
<1>2. CASE r = Ok(Ended(d, {}))
  <2>1. r.ok /\ r.doc = Ended(d, {})
    BY <1>2 DEF Ok
  <2>2. Put(d.plain, {}) = d.plain
    BY DocsAre DEF Put
  <2> QED
    BY <2>1, <2>2, EndedIs
<1>3. ASSUME NEW f \in Faults(d), NEW text, r = Failed(Ended(f, text)) \/ r = Ok(Ended(f, text))
      PROVE  Follows(d, r.doc) /\ ~NoneFails(d, r.doc)
  <2>1. Follows(d, f) /\ ~NoneFails(d, f) /\ f \in Docs
    BY FaultsAre DEF Follows
  <2>2. Follows(f, r.doc)
    BY <1>3, <2>1, EndedIs DEF Failed, Ok
  <2> QED
    BY <2>1, <2>2, FollowsOn
<1>4. ASSUME NEW f \in Faults(d), r = Failed([Ended(f, {}) EXCEPT !.left = TRUE])
      PROVE  Follows(d, r.doc) /\ ~NoneFails(d, r.doc)
  <2>1. Follows(d, f) /\ ~NoneFails(d, f) /\ f \in Docs
    BY FaultsAre DEF Follows
  <2>2. Follows(f, Ended(f, {})) /\ Ended(f, {}) \in Docs
    BY <2>1, EndedIs DEF Follows
  <2>3. Follows(Ended(f, {}), r.doc)
    BY <1>4, <2>2, LeftIs DEF Failed
  <2> QED
    BY <2>1, <2>2, <2>3, FollowsOn
<1>5. \/ ~HasComposition(d)
      \/ r = Ok(Ended(d, {}))
      \/ \E f \in Faults(d) : r = Failed(Ended(f, f.composition.text)) \/ r = Ok(Ended(f, f.composition.text))
      \/ \E f \in Faults(d) : r = Failed([Ended(f, {}) EXCEPT !.left = TRUE])
  BY DEF ClearComposition
<1> QED
  BY <1>1, <1>2, <1>3, <1>4, <1>5

(* What an edit session that nothing disturbs leaves of the composition    *)
(* and the text around it.                                                 *)
Applied(d, e, f) ==
  /\ e.action = "Commit" =>
       /\ f.plain = Put(d.plain, e.text)
       /\ f.composition = IF d.composition.context = e.context THEN NoComposition ELSE d.composition
  /\ e.action = "Update" =>
       /\ f.composition = [context |-> e.context, text |-> e.text]
       /\ f.plain = IF d.composition.context \in {NoContext, e.context} THEN d.plain
                    ELSE Released(d).plain
  /\ e.action = "Clear" => f.composition = NoComposition /\ f.plain = d.plain

LEMMA ApplyEngineOutputIs ==
  ASSUME NEW d \in Docs, NEW e \in EditSessions, NEW r \in ApplyEngineOutput(d, e)
  PROVE  /\ Follows(d, r.doc)
         /\ NoneFails(d, r.doc) => r.ok /\ Applied(d, e, r.doc)
<1>1. e.context \in Contexts /\ e.action \in {"Update", "Clear", "Commit"} /\ e.text \in SUBSET Chars
  BY DEF EditSessions
<1>2. CASE e.action = "Commit"
  <2>1. r \in CommitText(d, e.context, e.text)
    BY <1>2 DEF ApplyEngineOutput
  <2> QED
    BY <1>2, <2>1, CommitTextIs DEF Applied
<1>3. CASE e.action = "Update"
  <2>1. r \in UpdateComposition(d, e.context, e.text)
    BY <1>3 DEF ApplyEngineOutput
  <2> QED
    BY <1>1, <1>3, <2>1, UpdateCompositionIs DEF Applied
<1>4. CASE e.action = "Clear"
  <2>1. r \in ClearComposition(d)
    BY <1>4 DEF ApplyEngineOutput
  <2> QED
    BY <1>4, <2>1, ClearCompositionIs DEF Applied
<1> QED
  BY <1>1, <1>2, <1>3, <1>4

(* A request: an asynchronous one may be kept for later.                   *)
Keeps(d, f) ==
  /\ f \in Docs /\ f.faults >= d.faults
  /\ Len(d.queue) <= MaxQueued => Len(f.queue) <= MaxQueued

LEMMA RequestEditSessionIs ==
  ASSUME NEW d \in Docs, NEW e \in EditSessions, NEW synchronous \in BOOLEAN,
         NEW r \in RequestEditSession(d, e, synchronous)
  PROVE  /\ Keeps(d, r.doc)
         /\ d.queue = <<>> /\ r.doc.queue = <<>> /\ NoneFails(d, r.doc) => r.ok /\ Applied(d, e, r.doc)
         /\ synchronous => Follows(d, r.doc)
<1>1. \A f : Follows(d, f) => Keeps(d, f)
  BY DEF Follows, Keeps
<1>2. ASSUME NEW f \in Faults(d), r = Failed(f)
      PROVE  Follows(d, r.doc) /\ ~NoneFails(d, r.doc)
  BY <1>2, FaultsAre DEF Failed
<1>3. CASE ~synchronous /\ r \in Queued(d, e)
  <2> DEFINE queue == Append(d.queue, e)
             f == [d EXCEPT !.queue = queue]
  <2>1. r.doc = f /\ Len(d.queue) < MaxQueued
    BY <1>3 DEF Queued, Ok
  <2>2. queue \in Seq(EditSessions) /\ Len(queue) = Len(d.queue) + 1 /\ Len(d.queue) \in Nat
    BY DocsAre
  <2> HIDE DEF queue
  <2>3. f \in Docs /\ f.queue = queue /\ f.faults = d.faults
    BY <2>2 DEF Docs
  <2> HIDE DEF f
  <2>4. queue # <<>>
    BY <2>2
  <2>5. Keeps(d, f)
    BY <2>1, <2>2, <2>3, DocsAre, BoundsAssumption DEF Keeps
  <2> QED
    BY <1>3, <2>1, <2>3, <2>4, <2>5
<1>4. CASE r \in ApplyEngineOutput(d, e)
  BY <1>1, <1>4, ApplyEngineOutputIs
<1>5. CASE Waits(d, e.context) /\ r = Failed(d)
  <2>1. d.queue # <<>>
    BY <1>5 DEF Waits
  <2>2. r.doc = d
    BY <1>5 DEF Failed
  <2> QED
    BY <1>1, <2>1, <2>2, DocsAre
<1>6. \/ \E f \in Faults(d) : r = Failed(f)
      \/ ~synchronous /\ r \in Queued(d, e)
      \/ r \in ApplyEngineOutput(d, e)
      \/ Waits(d, e.context) /\ r = Failed(d)
  BY DEF RequestEditSession
<1> QED
  BY <1>1, <1>2, <1>3, <1>4, <1>5, <1>6

-----------------------------------------------------------------------------
(* The UI element *)

LEMMA BoundedSeqs ==
  ASSUME NEW S, NEW n \in Nat
  PROVE  /\ \A s \in Seq(S) : Len(s) <= n => s \in BoundedSeq(S, n)
         /\ \A s \in BoundedSeq(S, n) : s \in Seq(S) /\ Len(s) \in Nat /\ Len(s) <= n
         /\ \A m \in Nat : \A s \in [1 .. m -> S] : s \in Seq(S) /\ Len(s) = m
<1>1. \A s \in Seq(S) : s \in [1 .. Len(s) -> S] /\ Len(s) \in Nat
  OBVIOUS
<1>2. \A m \in Nat : \A s \in [1 .. m -> S] : s \in Seq(S) /\ Len(s) = m
  OBVIOUS
<1> QED
  BY <1>1, <1>2 DEF BoundedSeq, SeqOf

LEMMA SeqsOfNumbers ==
  ASSUME NEW n \in Nat, NEW s \in Seq(0 .. n)
  PROVE  s \in Seq(Nat) /\ Len(s) \in Nat /\ \A i \in 1 .. Len(s) : s[i] \in 0 .. n
<1> DEFINE S == 0 .. n
<1>1. S \subseteq Nat
  OBVIOUS
<1>2. s \in Seq(S)
  OBVIOUS
<1> HIDE DEF S
<1>3. Len(s) \in Nat /\ s \in [1 .. Len(s) -> S] /\ \A i \in 1 .. Len(s) : s[i] \in S
  BY <1>2
<1>4. s \in [1 .. Len(s) -> Nat]
  BY <1>1, <1>3
<1>5. s \in Seq(Nat)
  BY <1>3, <1>4
<1> QED
  BY <1>3, <1>5 DEF S

Elements ==
  [count : 0 .. MaxList, selected : 0 .. MaxList, start : 0 .. MaxList,
   pages : BoundedSeq(0 .. MaxList, MaxList), shown : BOOLEAN]

(* The element shows the list `l`, on the page of its highlight.           *)
Mirrors(e, l) ==
  e # NoElement =>
    /\ e \in Elements
    /\ e.count = l.count /\ e.selected = l.selected
    /\ e.pages # <<>> => e.pages[1] = 0
    /\ ShowsSelectedPage(e)

LEMMA ElementsAre ==
  ASSUME NEW e \in Elements
  PROVE  /\ e \in Element /\ e.pages \in Seq(Nat) /\ e.pages \in Seq(0 .. MaxList)
         /\ Len(e.pages) \in Nat /\ Len(e.pages) <= MaxList
         /\ e.count \in 0 .. MaxList /\ e.selected \in 0 .. MaxList /\ e.start \in 0 .. MaxList
<1>1. /\ e.count \in 0 .. MaxList /\ e.selected \in 0 .. MaxList /\ e.start \in 0 .. MaxList
      /\ e.pages \in BoundedSeq(0 .. MaxList, MaxList) /\ e.shown \in BOOLEAN
      /\ e = [count |-> e.count, selected |-> e.selected, start |-> e.start, pages |-> e.pages,
              shown |-> e.shown]
  BY DEF Elements
<1>2. e.pages \in Seq(0 .. MaxList) /\ Len(e.pages) \in Nat /\ Len(e.pages) <= MaxList
  BY <1>1, BoundedSeqs, BoundsAssumption
<1>3. e.pages \in Seq(Nat)
  BY <1>2, SeqsOfNumbers, BoundsAssumption
<1>4. e.count \in Nat /\ e.selected \in Nat /\ e.start \in Nat
  BY <1>1, BoundsAssumption
<1>5. e \in Element
  BY <1>1, <1>3, <1>4 DEF Element
<1> QED
  BY <1>1, <1>2, <1>3, <1>5

(* The service's own pages: as many as needed, each starts at a candidate. *)
LEMMA DefaultPagesFit ==
  ASSUME NEW count \in 0 .. MaxList
  PROVE  DefaultPages(count) \in BoundedSeq(0 .. MaxList, MaxList)
<1> DEFINE n == (count + PageSize - 1) \div PageSize
<1>1. PageSize \in Nat /\ PageSize >= 1 /\ count \in Nat /\ MaxList \in Nat /\ count <= MaxList
  BY PageSizeAssumption, BoundsAssumption
<1>2. n \in Nat /\ n * PageSize <= count + PageSize - 1
  BY <1>1
<1>3. DefaultPages(count) = [page \in 1 .. n |-> (page - 1) * PageSize]
  BY DEF DefaultPages
<1> HIDE DEF n
<1>4. n <= count
  <2> SUFFICES ASSUME n >= count + 1
               PROVE  FALSE
    BY <1>1, <1>2
  <2>1. n * PageSize >= (count + 1) * PageSize
    BY <1>1, <1>2
  <2>2. (count + 1) * PageSize = count * PageSize + PageSize /\ count * PageSize >= count
    BY <1>1
  <2> QED
    BY <1>1, <1>2, <2>1, <2>2
<1>5. ASSUME NEW page \in 1 .. n
      PROVE  (page - 1) * PageSize \in 0 .. MaxList
  <2>1. (page - 1) * PageSize \in Nat
    BY <1>1, <1>2
  <2>2. (page - 1) * PageSize <= (n - 1) * PageSize
    BY <1>1, <1>2
  <2>3. (n - 1) * PageSize = n * PageSize - PageSize /\ n * PageSize \in Nat
    BY <1>1, <1>2
  <2> QED
    BY <1>1, <1>2, <2>1, <2>2, <2>3
<1>6. DefaultPages(count) \in [1 .. n -> 0 .. MaxList]
  BY <1>3, <1>5
<1>7. DefaultPages(count) \in Seq(0 .. MaxList) /\ Len(DefaultPages(count)) = n
  BY <1>1, <1>2, <1>6, BoundedSeqs
<1>8. n <= MaxList
  BY <1>1, <1>2, <1>4
<1> QED
  BY <1>1, <1>7, <1>8, BoundedSeqs

LEMMA StartFits ==
  ASSUME NEW pages \in BoundedSeq(0 .. MaxList, MaxList), pages # <<>> => pages[1] = 0,
         NEW selected \in Nat
  PROVE  Start(pages, selected) \in 0 .. MaxList
<1>1. /\ pages \in Seq(Nat) /\ Len(pages) \in Nat
      /\ \A page \in 1 .. Len(pages) : pages[page] \in 0 .. MaxList
  <2>1. pages \in Seq(0 .. MaxList)
    BY BoundedSeqs, BoundsAssumption
  <2> QED
    BY <2>1, SeqsOfNumbers, BoundsAssumption
<1>2. CASE pages = <<>>
  BY <1>2, BoundsAssumption DEF Start
<1>3. CASE pages # <<>>
  <2>1. PICK page \in 1 .. Len(pages) : PageStart(pages, selected) = pages[page]
    BY <1>1, <1>3, SelectedPage
  <2>2. pages[page] \in 0 .. MaxList
    BY <1>1
  <2> QED
    BY <1>3, <2>1, <2>2 DEF Start
<1> QED
  BY <1>2, <1>3

(* update, whatever the host answers about showing it.                     *)
LEMMA UpdatedMirrors ==
  ASSUME NEW l \in Lists, l.count > 0, NEW show \in BOOLEAN
  PROVE  /\ Mirrors(Updated(l.count, l.selected), l)
         /\ Mirrors([Updated(l.count, l.selected) EXCEPT !.shown = show], l)
         /\ Updated(l.count, l.selected) \in Elements
         /\ [Updated(l.count, l.selected) EXCEPT !.shown = show] \in Elements
<1> DEFINE pages == DefaultPages(l.count)
           e == Updated(l.count, l.selected)
           f == [e EXCEPT !.shown = show]
<1>1. /\ l.count \in 0 .. MaxList /\ l.selected \in 0 .. MaxList
      /\ l.count \in Nat /\ l.selected \in Nat /\ l.selected < l.count
  BY BoundsAssumption DEF Lists
<1>2. pages \in BoundedSeq(0 .. MaxList, MaxList) /\ (pages # <<>> => pages[1] = 0)
  BY <1>1, DefaultPagesFit, DefaultPagesAre
<1>3. Start(pages, l.selected) \in 0 .. MaxList
  BY <1>1, <1>2, StartFits
<1>4. e = [count |-> l.count, selected |-> l.selected, pages |-> pages,
           start |-> Start(pages, l.selected), shown |-> TRUE]
  <2>1. (IF l.count = 0 THEN 0 ELSE Clamped(l.selected, l.count)) = l.selected
    BY <1>1 DEF Clamped
  <2> QED
    BY <2>1 DEF Updated
<1>5. ShowsSelectedPage(e)
  BY <1>1, UpdateShowsSelection
<1> HIDE DEF pages, e
<1>6. e \in Elements
  BY <1>1, <1>2, <1>3, <1>4 DEF Elements
<1>7. f \in Elements /\ f.count = e.count /\ f.selected = e.selected /\ f.pages = e.pages
      /\ f.start = e.start
  BY <1>6 DEF Elements
<1> HIDE DEF f
<1>8. ShowsSelectedPage(f)
  BY <1>5, <1>7 DEF ShowsSelectedPage
<1>9. e.count = l.count /\ e.selected = l.selected /\ e.pages = pages
  BY <1>4
<1> QED
  BY <1>2, <1>5, <1>6, <1>7, <1>8, <1>9 DEF Mirrors, e, f

-----------------------------------------------------------------------------
(* Dispatch.  Between two entry points the engine's session, the documents *)
(* and the UI element are sound, each and together.                        *)

Turns == [engine : Sessions, doc : Docs, element : {NoElement} \cup Elements]

Sound(t) ==
  /\ t \in Turns
  /\ Good(t.engine) /\ Distinct(t.engine.text)
  /\ Mirrors(t.element, t.engine.list)
  /\ Len(t.doc.queue) <= MaxQueued

LEMMA TurnsAre ==
  ASSUME NEW t \in Turns
  PROVE  /\ t.engine \in Sessions /\ t.doc \in Docs /\ t.element \in {NoElement} \cup Elements
         /\ t = [engine |-> t.engine, doc |-> t.doc, element |-> t.element]
         /\ \A s \in Sessions :
              /\ [t EXCEPT !.engine = s] \in Turns /\ [t EXCEPT !.engine = s].engine = s
              /\ [t EXCEPT !.engine = s].doc = t.doc /\ [t EXCEPT !.engine = s].element = t.element
         /\ \A d \in Docs :
              /\ [t EXCEPT !.doc = d] \in Turns /\ [t EXCEPT !.doc = d].doc = d
              /\ [t EXCEPT !.doc = d].engine = t.engine /\ [t EXCEPT !.doc = d].element = t.element
         /\ \A e \in {NoElement} \cup Elements :
              /\ [t EXCEPT !.element = e] \in Turns /\ [t EXCEPT !.element = e].element = e
              /\ [t EXCEPT !.element = e].engine = t.engine /\ [t EXCEPT !.element = e].doc = t.doc
BY DEF Turns

LEMMA ClosedIs ==
  ASSUME NEW t \in Turns
  PROVE  /\ CloseCandidateUi(t) \in Turns /\ CloseCandidateUi(t).element = NoElement
         /\ CloseCandidateUi(t).engine = t.engine /\ CloseCandidateUi(t).doc = t.doc
BY DEF Turns, CloseCandidateUi

(* Beginning an element: the turn shows `e`, or nothing.                   *)
LEMMA BegunUiElementIs ==
  ASSUME NEW t \in Turns, NEW l \in Lists, l.count > 0,
         NEW u \in BegunUiElement(t, Updated(l.count, l.selected))
  PROVE  /\ u \in Turns /\ u.engine = t.engine /\ Mirrors(u.element, l)
         /\ Follows(t.doc, u.doc) /\ (NoneFails(t.doc, u.doc) => u.doc = t.doc)
         /\ Alike(t.doc, u.doc)
<1> DEFINE e == Updated(l.count, l.selected)
<1>1. t.doc \in Docs
  BY TurnsAre
<1>2. ASSUME NEW show \in BOOLEAN, u = [t EXCEPT !.element = [e EXCEPT !.shown = show]]
      PROVE  u \in Turns /\ u.engine = t.engine /\ Mirrors(u.element, l) /\ u.doc = t.doc
  <2> DEFINE f == [e EXCEPT !.shown = show]
  <2>1. f \in Elements /\ Mirrors(f, l)
    BY UpdatedMirrors
  <2>2. u = [t EXCEPT !.element = f]
    BY <1>2
  <2> HIDE DEF f, e
  <2> QED
    BY <2>1, <2>2, TurnsAre
<1>3. ASSUME NEW f \in Faults(t.doc), u = [CloseCandidateUi(t) EXCEPT !.doc = f]
      PROVE  /\ u \in Turns /\ u.engine = t.engine /\ Mirrors(u.element, l)
             /\ Follows(t.doc, u.doc) /\ ~NoneFails(t.doc, u.doc) /\ Alike(t.doc, u.doc)
  <2>1. Follows(t.doc, f) /\ ~NoneFails(t.doc, f) /\ f \in Docs /\ Alike(t.doc, f)
    BY <1>1, FaultsAre DEF Follows, Alike
  <2> DEFINE c == CloseCandidateUi(t)
  <2>2. c \in Turns /\ c.element = NoElement /\ c.engine = t.engine
    BY ClosedIs
  <2>3. u = [c EXCEPT !.doc = f]
    BY <1>3
  <2> HIDE DEF c
  <2>4. u \in Turns /\ u.engine = t.engine /\ u.element = NoElement /\ u.doc = f
    BY <2>1, <2>2, <2>3, TurnsAre
  <2> QED
    BY <2>1, <2>4 DEF Mirrors
<1>4. \/ \E show \in BOOLEAN : u = [t EXCEPT !.element = [e EXCEPT !.shown = show]]
      \/ \E f \in Faults(t.doc) : u = [CloseCandidateUi(t) EXCEPT !.doc = f]
  BY DEF BegunUiElement
<1>5. Alike(t.doc, t.doc)
  BY DEF Alike
<1> QED
  BY <1>1, <1>2, <1>3, <1>4, <1>5, DocsAre

LEMMA UpdateCandidateUiIs ==
  ASSUME NEW t \in Turns, NEW u \in UpdateCandidateUi(t)
  PROVE  /\ u \in Turns /\ u.engine = t.engine /\ Mirrors(u.element, t.engine.list)
         /\ Follows(t.doc, u.doc) /\ (NoneFails(t.doc, u.doc) => u.doc = t.doc)
         /\ Alike(t.doc, u.doc)
<1> DEFINE l == t.engine.list
           e == Updated(l.count, l.selected)
<1>1. t.doc \in Docs /\ l \in Lists
  BY TurnsAre DEF Sessions
<1>2. CASE ~HasVisibleList(t.engine)
  <2>1. u = CloseCandidateUi(t)
    BY <1>2 DEF UpdateCandidateUi
  <2> QED
    BY <1>1, <2>1, ClosedIs, DocsAre DEF Mirrors, Alike
<1>3. CASE HasVisibleList(t.engine) /\ u \in BegunUiElement(t, e)
  BY <1>1, <1>3, BegunUiElementIs DEF HasVisibleList
<1>4. CASE HasVisibleList(t.engine) /\ u = [t EXCEPT !.element = e]
  <2>1. e \in Elements /\ Mirrors(e, l)
    BY <1>1, <1>4, UpdatedMirrors DEF HasVisibleList
  <2> HIDE DEF e
  <2> QED
    BY <1>1, <1>4, <2>1, TurnsAre, DocsAre DEF Alike
<1>5. ASSUME HasVisibleList(t.engine), NEW f \in Faults(t.doc), u \in BegunUiElement([t EXCEPT !.doc = f], e)
      PROVE  /\ u \in Turns /\ u.engine = t.engine /\ Mirrors(u.element, l)
             /\ Follows(t.doc, u.doc) /\ ~NoneFails(t.doc, u.doc) /\ Alike(t.doc, u.doc)
  <2>1. Follows(t.doc, f) /\ ~NoneFails(t.doc, f) /\ f \in Docs /\ Alike(t.doc, f)
    BY <1>1, FaultsAre DEF Follows, Alike
  <2> DEFINE v == [t EXCEPT !.doc = f]
  <2>2. v \in Turns /\ v.engine = t.engine /\ v.doc = f
    BY <2>1, TurnsAre
  <2>3. u \in BegunUiElement(v, e)
    BY <1>5
  <2> HIDE DEF v
  <2>4. /\ u \in Turns /\ u.engine = v.engine /\ Mirrors(u.element, l) /\ Follows(v.doc, u.doc)
        /\ Alike(v.doc, u.doc)
    BY <1>1, <1>5, <2>2, <2>3, BegunUiElementIs DEF HasVisibleList
  <2>5. Alike(t.doc, u.doc)
    BY <2>1, <2>2, <2>4 DEF Alike
  <2> QED
    BY <1>1, <2>1, <2>2, <2>4, <2>5, FollowsOn
<1>6. \/ ~HasVisibleList(t.engine)
      \/ HasVisibleList(t.engine) /\ u \in BegunUiElement(t, e)
      \/ HasVisibleList(t.engine) /\ u = [t EXCEPT !.element = e]
      \/ HasVisibleList(t.engine) /\ \E f \in Faults(t.doc) : u \in BegunUiElement([t EXCEPT !.doc = f], e)
  BY DEF UpdateCandidateUi
<1> QED
  BY <1>2, <1>3, <1>4, <1>5, <1>6

(* An output that can be dispatched, and the edit session it asks for.     *)
Ready(o) ==
  /\ Good(o.session) /\ Distinct(o.session.text)
  /\ o.action \in {"Update", "Clear", "Commit"}
  /\ TextOf(o) \in Seq(Chars)

Edit(c, o) == [context |-> c, action |-> o.action, text |-> ToSet(OutputText(o))]

LEMMA EditsAre ==
  ASSUME NEW c \in Contexts, NEW o, Ready(o)
  PROVE  /\ Edit(c, o) \in EditSessions /\ Edit(c, o).context = c /\ Edit(c, o).action = o.action
         /\ Edit(c, o).text = ToSet(TextOf(o))
<1>1. OutputText(o) = TextOf(o)
  BY DEF OutputText, TextOf
<1>2. ToSet(TextOf(o)) \in SUBSET Chars
  BY DEF ToSet, Ready
<1> QED
  BY <1>1, <1>2 DEF Edit, EditSessions, Ready

LEMMA DispatchEngineOutputIs ==
  ASSUME NEW t, Sound(t), NEW c \in Contexts, NEW o, Ready(o), NEW synchronous \in BOOLEAN,
         NEW r \in DispatchEngineOutput(t, c, o, synchronous)
  PROVE  /\ r.turn \in Turns /\ r.turn.engine = o.session /\ Keeps(t.doc, r.turn.doc)
         /\ r.ok => Sound(r.turn)
         /\ ~r.ok => r.turn.element = t.element
         /\ synchronous => Follows(t.doc, r.turn.doc)
         /\ t.doc.queue = <<>> /\ r.turn.doc.queue = <<>> /\ NoneFails(t.doc, r.turn.doc) =>
              r.ok /\ Applied(t.doc, Edit(c, o), r.turn.doc)
<1> DEFINE moved == [t EXCEPT !.engine = o.session]
<1>1. t \in Turns /\ t.doc \in Docs /\ o.session \in Sessions /\ Good(o.session)
  BY TurnsAre DEF Sound, Ready, Good
<1>2. moved \in Turns /\ moved.engine = o.session /\ moved.doc = t.doc /\ moved.element = t.element
  BY <1>1, TurnsAre
<1>3. PICK q \in RequestEditSession(t.doc, Edit(c, o), synchronous) :
        r \in IF q.ok THEN {Done(u) : u \in UpdateCandidateUi([moved EXCEPT !.doc = q.doc])}
              ELSE {Undone([moved EXCEPT !.doc = q.doc])}
  BY DEF DispatchEngineOutput, Edit
<1>4. Edit(c, o) \in EditSessions
  BY EditsAre
<1>5. /\ Keeps(t.doc, q.doc)
      /\ t.doc.queue = <<>> /\ q.doc.queue = <<>> /\ NoneFails(t.doc, q.doc) =>
           q.ok /\ Applied(t.doc, Edit(c, o), q.doc)
      /\ synchronous => Follows(t.doc, q.doc)
  BY <1>1, <1>3, <1>4, RequestEditSessionIs
<1> HIDE DEF moved
<1> DEFINE v == [moved EXCEPT !.doc = q.doc]
<1>6. v \in Turns /\ v.engine = o.session /\ v.doc = q.doc /\ v.element = t.element
  BY <1>2, <1>5, TurnsAre DEF Keeps
<1>7. CASE ~q.ok
  <2>1. r = Undone(v)
    BY <1>3, <1>7
  <2> HIDE DEF v
  <2>2. r.turn = v /\ ~r.ok
    BY <2>1 DEF Undone
  <2> QED
    BY <1>5, <1>6, <1>7, <2>2
<1>8. CASE q.ok
  <2>1. PICK u \in UpdateCandidateUi(v) : r = Done(u)
    BY <1>3, <1>8
  <2> HIDE DEF v
  <2>2. r.turn = u /\ r.ok
    BY <2>1 DEF Done
  <2>3. /\ u \in Turns /\ u.engine = o.session /\ Mirrors(u.element, o.session.list)
        /\ Follows(q.doc, u.doc) /\ (NoneFails(q.doc, u.doc) => u.doc = q.doc)
    BY <1>6, UpdateCandidateUiIs
  <2>4. /\ Keeps(t.doc, u.doc) /\ u.doc.queue = q.doc.queue
        /\ NoneFails(t.doc, u.doc) => NoneFails(t.doc, q.doc) /\ u.doc = q.doc
    <3>1. t.doc.faults \in Nat /\ q.doc.faults \in Nat /\ u.doc.faults \in Nat
      BY <1>1, <1>5, <2>3, DocsAre DEF Keeps, Follows
    <3> QED
      BY <1>5, <2>3, <3>1 DEF Keeps, Follows, NoneFails
  <2>5. synchronous => Follows(t.doc, u.doc)
    BY <1>1, <1>5, <2>3, FollowsOn
  <2>6. Sound(u)
    BY <1>1, <2>3, <2>4 DEF Sound, Keeps, Ready
  <2> QED
    BY <1>5, <2>2, <2>3, <2>4, <2>5, <2>6
<1> QED
  BY <1>7, <1>8

-----------------------------------------------------------------------------
(* Handlers.  In the context `c` there is no composition, or one with the  *)
(* text of the engine's session; no other context has one.                 *)

Shown(t, c) ==
  t.doc.composition # NoComposition =>
    t.doc.composition.context = c /\ t.doc.composition.text = ToSet(t.engine.text)

Undisturbed(d, f) == d.queue = <<>> /\ f.queue = <<>> /\ NoneFails(d, f)

(* What every handler keeps; only one that may leave an edit session       *)
(* waiting changes the queue.                                              *)
Handled(t, u, c) ==
  /\ Sound(u) /\ Keeps(t.doc, u.doc)
  /\ Undisturbed(t.doc, u.doc) /\ Shown(t, c) => Shown(u, c)
HandledAtOnce(t, u, c) == Handled(t, u, c) /\ Follows(t.doc, u.doc)

LEMMA HandledOn ==
  ASSUME NEW t, Sound(t), NEW c, NEW u, HandledAtOnce(t, u, c), NEW v, HandledAtOnce(u, v, c)
  PROVE  /\ HandledAtOnce(t, v, c)
         /\ Undisturbed(t.doc, v.doc) => Undisturbed(t.doc, u.doc) /\ Undisturbed(u.doc, v.doc)
<1>1. t.doc \in Docs /\ Follows(t.doc, u.doc) /\ Follows(u.doc, v.doc)
  BY TurnsAre DEF Sound, HandledAtOnce
<1>2. Follows(t.doc, v.doc) /\ (NoneFails(t.doc, v.doc) => NoneFails(t.doc, u.doc) /\ NoneFails(u.doc, v.doc))
  BY <1>1, FollowsOn
<1>3. Undisturbed(t.doc, v.doc) => Undisturbed(t.doc, u.doc) /\ Undisturbed(u.doc, v.doc)
  BY <1>1, <1>2 DEF Undisturbed, Follows
<1>4. Keeps(t.doc, v.doc)
  BY <1>2 DEF Follows, Keeps
<1> QED
  BY <1>2, <1>3, <1>4 DEF HandledAtOnce, Handled

LEMMA NothingHandled ==
  ASSUME NEW t, Sound(t), NEW c
  PROVE  HandledAtOnce(t, t, c)
<1>1. t.doc \in Docs /\ Follows(t.doc, t.doc)
  BY TurnsAre, DocsAre DEF Sound
<1> QED
  BY <1>1 DEF HandledAtOnce, Handled, Keeps, Follows

LEMMA ClosingHandled ==
  ASSUME NEW t, Sound(t), NEW c
  PROVE  HandledAtOnce(t, CloseCandidateUi(t), c)
<1> DEFINE u == CloseCandidateUi(t)
<1>1. t \in Turns /\ t.doc \in Docs /\ Follows(t.doc, t.doc)
  BY TurnsAre, DocsAre DEF Sound
<1>2. u \in Turns /\ u.element = NoElement /\ u.engine = t.engine /\ u.doc = t.doc
  BY <1>1, ClosedIs
<1> HIDE DEF u
<1>3. Sound(u)
  BY <1>2 DEF Sound, Mirrors
<1>4. HandledAtOnce(t, u, c)
  BY <1>1, <1>2, <1>3 DEF HandledAtOnce, Handled, Keeps, Follows, Shown
<1> QED
  BY <1>4 DEF u

LEMMA DiscardHandled ==
  ASSUME NEW t \in Turns, Len(t.doc.queue) <= MaxQueued, NEW c
  PROVE  /\ Sound(DiscardSessionAndCloseUi(t))
         /\ Follows(t.doc, DiscardSessionAndCloseUi(t).doc)
         /\ Shown(DiscardSessionAndCloseUi(t), c)
         /\ DiscardSessionAndCloseUi(t).engine = Discarded(t.engine)
         /\ HandledAtOnce(t, DiscardSessionAndCloseUi(t), c)
<1> DEFINE v == [t EXCEPT !.engine = Discarded(@), !.doc = Released(@)]
           u == DiscardSessionAndCloseUi(t)
<1>1. t.doc \in Docs /\ t.engine \in Sessions
  BY TurnsAre
<1>2. Good(Discarded(t.engine)) /\ Discarded(t.engine) \in Sessions /\ Distinct(Discarded(t.engine).text)
  BY DiscardedIsGood, EmptyText, BoundsAssumption DEF Good
<1>3. /\ Follows(t.doc, Released(t.doc)) /\ Released(t.doc).composition = NoComposition
      /\ Released(t.doc) \in Docs
  BY <1>1, ReleasedIs DEF Follows
<1>4. v \in Turns
  BY <1>2, <1>3 DEF Turns
<1>5. v.engine = Discarded(t.engine) /\ v.doc = Released(t.doc)
  BY DEF Turns
<1> HIDE DEF v
<1>6. /\ u \in Turns /\ u.engine = Discarded(t.engine) /\ u.doc = Released(t.doc)
      /\ u.element = NoElement
  BY <1>4, <1>5, ClosedIs DEF DiscardSessionAndCloseUi, v
<1> HIDE DEF u
<1>7. Sound(u) /\ Shown(u, c)
  BY <1>2, <1>3, <1>6 DEF Sound, Mirrors, Shown, Follows
<1>8. Keeps(t.doc, u.doc) /\ Follows(t.doc, u.doc)
  BY <1>3, <1>6 DEF Keeps, Follows
<1>9. HandledAtOnce(t, u, c)
  BY <1>7, <1>8 DEF HandledAtOnce, Handled
<1> QED
  BY <1>6, <1>7, <1>8, <1>9 DEF u

(* What an undisturbed dispatch leaves on the screen is the session.       *)
LEMMA DispatchShows ==
  ASSUME NEW t, Sound(t), NEW c \in Contexts, NEW o, Ready(o),
         NEW u, u.engine = o.session, Applied(t.doc, Edit(c, o), u.doc), Shown(t, c)
  PROVE  Shown(u, c)
<1> DEFINE e == Edit(c, o)
<1>1. e.context = c /\ e.action = o.action /\ e.text = ToSet(TextOf(o))
  BY EditsAre
<1> HIDE DEF e
<1>2. Applied(t.doc, e, u.doc)
  BY DEF e
<1>3. o.action \in {"Update", "Clear", "Commit"}
  BY DEF Ready
<1>4. CASE o.action = "Update"
  <2>1. u.doc.composition = [context |-> c, text |-> ToSet(o.session.text)]
    BY <1>1, <1>2, <1>4 DEF Applied, TextOf
  <2> QED
    BY <2>1 DEF Shown
<1>5. CASE o.action # "Update"
  <2>1. u.doc.composition = NoComposition
    BY <1>1, <1>2, <1>3, <1>5 DEF Applied, Shown
  <2> QED
    BY <2>1 DEF Shown
<1> QED
  BY <1>4, <1>5

LEMMA TryDispatchOutputIs ==
  ASSUME NEW t, Sound(t), NEW c \in Contexts \cup {NoContext}, NEW o, Ready(o),
         NEW r \in TryDispatchOutput(t, c, o)
  PROVE  /\ HandledAtOnce(t, r.turn, c)
         /\ r.ok => r.turn.engine = o.session
         /\ ~r.ok => r.turn.engine = t.engine /\ r.turn.element = NoElement
         /\ c # NoContext /\ Undisturbed(t.doc, r.turn.doc) =>
              r.ok /\ Applied(t.doc, Edit(c, o), r.turn.doc)
         /\ c = NoContext => r.turn.doc = t.doc
<1>1. t \in Turns /\ t.doc \in Docs /\ Good(t.engine) /\ t.engine \in Sessions
  BY TurnsAre DEF Sound
<1>2. CASE c = NoContext
  <2>1. r = Undone(CloseCandidateUi(t))
    BY <1>2 DEF TryDispatchOutput
  <2>2. r.turn = CloseCandidateUi(t) /\ ~r.ok
    BY <2>1 DEF Undone
  <2>3. HandledAtOnce(t, r.turn, c)
    BY <2>2, ClosingHandled
  <2> QED
    BY <1>1, <1>2, <2>2, <2>3, ClosedIs
<1>3. CASE c # NoContext
  <2>1. c \in Contexts
    BY <1>3
  <2>2. PICK q \in DispatchEngineOutput(t, c, o, TRUE) :
          r = IF q.ok THEN q ELSE Undone(CloseCandidateUi(RolledBack(q.turn, t.engine)))
    BY <1>3 DEF TryDispatchOutput
  <2>3. /\ q.turn \in Turns /\ q.turn.engine = o.session /\ Keeps(t.doc, q.turn.doc)
        /\ q.ok => Sound(q.turn)
        /\ Follows(t.doc, q.turn.doc)
        /\ t.doc.queue = <<>> /\ q.turn.doc.queue = <<>> /\ NoneFails(t.doc, q.turn.doc) =>
             q.ok /\ Applied(t.doc, Edit(c, o), q.turn.doc)
    BY <2>1, <2>2, DispatchEngineOutputIs
  <2>4. CASE q.ok
    <3>1. r = q
      BY <2>2, <2>4
    <3>2. Undisturbed(t.doc, q.turn.doc) => Applied(t.doc, Edit(c, o), q.turn.doc)
      BY <2>3 DEF Undisturbed
    <3>3. Undisturbed(t.doc, q.turn.doc) /\ Shown(t, c) => Shown(q.turn, c)
      BY <2>1, <2>3, <3>2, DispatchShows
    <3>4. HandledAtOnce(t, q.turn, c)
      BY <2>3, <2>4, <3>3 DEF HandledAtOnce, Handled
    <3> QED
      BY <1>3, <2>3, <2>4, <3>1, <3>2, <3>4
  <2>5. CASE ~q.ok
    <3> DEFINE v == RolledBack(q.turn, t.engine)
               u == CloseCandidateUi(v)
    <3>1. r = Undone(u)
      BY <2>2, <2>5
    <3>2. v \in Turns /\ v.engine = t.engine /\ v.doc = q.turn.doc
      BY <1>1, <2>3, TurnsAre DEF RolledBack
    <3> HIDE DEF v
    <3>3. u \in Turns /\ u.engine = t.engine /\ u.doc = q.turn.doc /\ u.element = NoElement
      BY <3>2, ClosedIs
    <3> HIDE DEF u
    <3>4. r.turn = u /\ ~r.ok
      BY <3>1 DEF Undone
    <3>5. ~Undisturbed(t.doc, u.doc)
      BY <2>3, <2>5, <3>3 DEF Undisturbed
    <3>6. Sound(u)
      BY <2>3, <3>3 DEF Sound, Mirrors, Keeps
    <3>7. HandledAtOnce(t, u, c)
      BY <2>3, <3>3, <3>5, <3>6 DEF HandledAtOnce, Handled
    <3> QED
      BY <1>3, <3>3, <3>4, <3>5, <3>7
  <2> QED
    BY <2>4, <2>5
<1> QED
  BY <1>2, <1>3

(* A conversion that is on its last segment is committed whole.            *)
LEMMA TryCommitOpenSessionIs ==
  ASSUME NEW t, Sound(t), NEW c \in Contexts \cup {NoContext}, NEW r \in TryCommitOpenSession(t, c)
  PROVE  /\ HandledAtOnce(t, r.turn, c)
         /\ ToSet(r.turn.engine.text) \subseteq ToSet(t.engine.text)
         /\ ~r.ok => r.turn.engine = t.engine
         /\ c # NoContext /\ Undisturbed(t.doc, r.turn.doc) =>
              /\ r.ok
              /\ t.engine.state = "Converting" /\ t.engine.ahead = 0 =>
                   /\ r.turn.engine = Empty("Idle")
                   /\ r.turn.doc.plain = Put(t.doc.plain, ToSet(t.engine.text))
<1> DEFINE commits ==
             IF t.engine.state = "Converting" THEN FinalizeCandidateSelection(t.engine) ELSE {}
<1>1. /\ t \in Turns /\ t.doc \in Docs /\ Good(t.engine) /\ t.engine \in Sessions
      /\ t.engine.text \in Seq(Chars) /\ Distinct(t.engine.text)
  BY TurnsAre DEF Sound, Sessions
<1>2. t.engine.state = "Converting" => commits # {}
  <2> SUFFICES ASSUME t.engine.state = "Converting"
               PROVE  Accepted(t.engine) # {}
    BY <1>1 DEF Good, FinalizeCandidateSelection
  <2> DEFINE b == [t.engine EXCEPT !.ahead = @ - 1]
             l == t.engine.list
  <2>1. l \in FoundLists
    <3>1. l.count > 0 /\ l \in Lists
      BY <1>1 DEF Good, HasVisibleList, Sessions
    <3>2. NoList.count = 0
      BY DEF NoList
    <3> QED
      BY <3>1, <3>2 DEF FoundLists
  <2>2. Shows([b EXCEPT !.list = l], TRUE) \in ShowEach(WithList(b, FoundLists), TRUE)
    BY <2>1 DEF ShowEach, WithList
  <2>3. \/ Accepted(t.engine) = ShowEach(WithList(b, FoundLists), TRUE)
        \/ Accepted(t.engine) = {Commits(t.engine.text)}
    BY DEF Accepted
  <2> QED
    BY <2>2, <2>3
<1>3. CASE r.turn = t /\ (c = NoContext \/ (r.ok /\ commits = {}))
  BY <1>2, <1>3, NothingHandled
<1>4. ASSUME c # NoContext, NEW o \in commits, NEW q \in DispatchEngineOutput(t, c, o, TRUE),
             r = IF q.ok THEN q ELSE Undone(RolledBack(q.turn, t.engine))
      PROVE  /\ HandledAtOnce(t, r.turn, c)
             /\ ToSet(r.turn.engine.text) \subseteq ToSet(t.engine.text)
             /\ ~r.ok => r.turn.engine = t.engine
             /\ c # NoContext /\ Undisturbed(t.doc, r.turn.doc) =>
                  /\ r.ok
                  /\ t.engine.state = "Converting" /\ t.engine.ahead = 0 =>
                       /\ r.turn.engine = Empty("Idle")
                       /\ r.turn.doc.plain = Put(t.doc.plain, ToSet(t.engine.text))
  <2>1. c \in Contexts /\ o \in FinalizeCandidateSelection(t.engine)
    BY <1>4
  <2>2. /\ Proper(t.engine, o) /\ Carries(t.engine, o, {}, TRUE)
        /\ t.engine.ahead = 0 => o = Commits(t.engine.text)
    BY <1>1, <2>1, EveryFinalize, BoundsAssumption
  <2>3. Ready(o) /\ ToSet(o.session.text) \subseteq ToSet(t.engine.text)
    <3>1. o.action = "Commit" => o.session.text = <<>>
      BY <2>2, EmptyIsGood, BoundsAssumption DEF Proper
    <3>2. o.action # "Commit" => TextOf(o) = o.session.text
      BY DEF TextOf
    <3> QED
      BY <1>1, <2>2, <3>1, <3>2, EmptyText DEF Carries, Proper, Ready
  <2>4. /\ q.turn \in Turns /\ q.turn.engine = o.session /\ Keeps(t.doc, q.turn.doc)
        /\ q.ok => Sound(q.turn)
        /\ ~q.ok => q.turn.element = t.element
        /\ Follows(t.doc, q.turn.doc)
        /\ t.doc.queue = <<>> /\ q.turn.doc.queue = <<>> /\ NoneFails(t.doc, q.turn.doc) =>
             q.ok /\ Applied(t.doc, Edit(c, o), q.turn.doc)
    <3>1. q \in DispatchEngineOutput(t, c, o, TRUE) /\ Sound(t) /\ Ready(o) /\ TRUE \in BOOLEAN
      BY <1>4, <2>3
    <3> QED
      BY <2>1, <3>1, DispatchEngineOutputIs
  <2>5. CASE q.ok
    <3>1. r = q
      BY <1>4, <2>5
    <3>2. Undisturbed(t.doc, q.turn.doc) => Applied(t.doc, Edit(c, o), q.turn.doc)
      BY <2>4 DEF Undisturbed
    <3>3. Undisturbed(t.doc, q.turn.doc) /\ Shown(t, c) => Shown(q.turn, c)
      BY <2>1, <2>2, <2>3, <2>4, <3>2, DispatchShows
    <3>4. HandledAtOnce(t, q.turn, c)
      BY <2>4, <2>5, <3>3 DEF HandledAtOnce, Handled
    <3>5. ASSUME Undisturbed(t.doc, q.turn.doc), t.engine.ahead = 0
          PROVE  /\ q.turn.engine = Empty("Idle")
                 /\ q.turn.doc.plain = Put(t.doc.plain, ToSet(t.engine.text))
      <4>1. o = Commits(t.engine.text)
        BY <2>2, <3>5
      <4>2. o.action = "Commit" /\ TextOf(o) = t.engine.text /\ o.session = Empty("Idle")
        BY <1>1, <4>1, CommittedProperly, BoundsAssumption DEF TextOf
      <4>3. Edit(c, o).action = "Commit" /\ Edit(c, o).text = ToSet(t.engine.text)
        BY <1>1, <2>1, <2>3, <4>2, EditsAre
      <4> QED
        BY <2>4, <3>2, <3>5, <4>2, <4>3 DEF Applied
    <3> QED
      BY <2>3, <2>4, <2>5, <3>1, <3>4, <3>5
  <2>6. CASE ~q.ok
    <3> DEFINE u == RolledBack(q.turn, t.engine)
    <3>1. r = Undone(u)
      BY <1>4, <2>6
    <3>2. u \in Turns /\ u.engine = t.engine /\ u.doc = q.turn.doc /\ u.element = t.element
      BY <1>1, <2>4, <2>6, TurnsAre DEF RolledBack
    <3> HIDE DEF u
    <3>3. r.turn = u /\ ~r.ok
      BY <3>1 DEF Undone
    <3>4. ~Undisturbed(t.doc, u.doc)
      BY <2>4, <2>6, <3>2 DEF Undisturbed
    <3>5. Sound(u)
      BY <2>4, <3>2 DEF Sound, Keeps
    <3>6. HandledAtOnce(t, u, c)
      BY <2>4, <3>2, <3>4, <3>5 DEF HandledAtOnce, Handled
    <3> QED
      BY <3>2, <3>3, <3>4, <3>6
  <2> QED
    BY <2>5, <2>6
<1>5. \/ r.turn = t /\ (c = NoContext \/ (r.ok /\ commits = {}))
      \/ c # NoContext /\ \E o \in commits : \E q \in DispatchEngineOutput(t, c, o, TRUE) :
           r = IF q.ok THEN q ELSE Undone(RolledBack(q.turn, t.engine))
  <2>1. CASE c = NoContext
    BY <2>1 DEF TryCommitOpenSession, Undone
  <2>2. CASE c # NoContext /\ commits = {}
    <3>1. r = Done(t)
      BY <2>2 DEF TryCommitOpenSession
    <3>2. r.turn = t /\ r.ok
      BY <3>1 DEF Done
    <3> QED
      BY <2>2, <3>2, Zenon
  <2>3. CASE c # NoContext /\ commits # {}
    <3>1. r \in UNION {{IF q.ok THEN q ELSE Undone(RolledBack(q.turn, t.engine)) :
                         q \in DispatchEngineOutput(t, c, o, TRUE)} : o \in commits}
      BY <2>3, Zenon DEF TryCommitOpenSession
    <3> HIDE DEF commits
    <3> QED
      BY <2>3, <3>1
  <2> QED
    BY <2>1, <2>2, <2>3
<1> QED
  BY <1>3, <1>4, <1>5

-----------------------------------------------------------------------------
(* Keys *)

(* A key that can be pressed: one that prints prints a character the       *)
(* session does not have.                                                  *)
Pressed(t, key, ch) ==
  key \in ServiceKeys /\ (Prints(key) => ch \in Chars /\ ch \notin ToSet(t.engine.text))

(* The character stands in the session or, once, in a document.            *)
Lands(u, ch) == ch \in ToSet(u.engine.text) \/ u.doc.plain[ch] = 1

LEMMA EngineKeyIs ==
  ASSUME NEW s, NEW key \in ServiceKeys
  PROVE  /\ EngineKey(s, key) \in Keys
         /\ Types(EngineKey(s, key)) => Prints(key)
         /\ Prints(key) /\ s.state # "Converting" => Types(EngineKey(s, key))
<1>1. CASE key = "Number"
  BY <1>1 DEF EngineKey, Keys, Types, Prints
<1>2. CASE key \in {"Backspace", "Tab", "Page", "Chord"}
  BY <1>2 DEF EngineKey, Keys, Types, Prints
<1>3. CASE key \in Keys
  <2>1. EngineKey(s, key) = key
    BY <1>3 DEF EngineKey, Keys
  <2> QED
    BY <1>3, <2>1 DEF Types, Prints, Keys
<1> QED
  BY <1>1, <1>2, <1>3 DEF ServiceKeys

LEMMA KeyOutcome ==
  ASSUME NEW t, Sound(t), NEW key, NEW ch, Pressed(t, key, ch),
         NEW o \in Outcomes(t.engine, EngineKey(t.engine, key), ch)
  PROVE  /\ Proper(t.engine, o) /\ Ready(o)
         /\ Prints(key) /\ t.engine.state # "Converting" /\ o.consumed =>
              Carries(t.engine, o, {ch}, TRUE)
         /\ Prints(key) /\ t.engine.state = "Idle" => o.consumed
<1> DEFINE s == t.engine
           k == EngineKey(s, key)
<1>1. /\ k \in Keys /\ (Types(k) => Prints(key))
      /\ Prints(key) /\ s.state # "Converting" => Types(k)
  BY EngineKeyIs DEF Pressed
<1>2. /\ Good(s) /\ Distinct(s.text) /\ MaxList \in Nat
      /\ Types(k) => ch \in Chars /\ ch \notin ToSet(s.text)
  BY <1>1, BoundsAssumption DEF Sound, Pressed
<1>3. /\ Proper(s, o)
      /\ \/ Types(k) /\ o.consumed = TRUE /\ Carries(s, o, {ch}, TRUE)
         \/ ~(Types(k) /\ o.consumed) /\ Carries(s, o, {}, KeepsText(k))
  <2>1. o \in Outcomes(s, k, ch)
    OBVIOUS
  <2> HIDE DEF s, k
  <2> QED
    BY <1>1, <1>2, <2>1, EveryKey
<1>4. TextOf(o) \in Seq(Chars) /\ Distinct(o.session.text)
  <2>1. CASE Types(k) /\ Carries(s, o, {ch}, TRUE)
    <3>1. {ch} \cap ToSet(s.text) = {}
      BY <1>2, <2>1
    <3> QED
      BY <1>2, <2>1, <3>1 DEF Carries
  <2>2. CASE Carries(s, o, {}, KeepsText(k))
    BY <1>2, <2>2 DEF Carries
  <2> QED
    BY <1>3, <2>1, <2>2
<1>5. Ready(o)
  BY <1>3, <1>4 DEF Ready, Proper
<1>6. ASSUME Prints(key), s.state = "Idle"
      PROVE  o.consumed
  <2>1. Types(k) /\ k \in {"Letter", "Mark"}
    BY <1>1, <1>6 DEF Types
  <2>2. o \in IdleOutcomes(s, k, ch)
    BY <1>6, <2>1 DEF Outcomes
  <2> HIDE DEF s, k
  <2>3. o.consumed = TRUE
    BY <1>1, <1>2, <1>6, <2>1, <2>2, IdleKeys
  <2> QED
    BY <2>3
<1> QED
  BY <1>1, <1>3, <1>5, <1>6

(* Dispatched undisturbed, a typed character is in one place.              *)
LEMMA TypedLands ==
  ASSUME NEW t, Sound(t), NEW c \in Contexts, NEW s, NEW o, Ready(o), NEW ch \in Chars,
         ch \in ToSet(TextOf(o)), t.doc.plain[ch] = 0,
         NEW u, u.engine = o.session, Applied(t.doc, Edit(c, o), u.doc)
  PROVE  Lands(u, ch)
<1> DEFINE e == Edit(c, o)
<1>1. e.action = o.action /\ e.text = ToSet(TextOf(o))
  BY EditsAre
<1>2. t.doc.plain \in [Chars -> Copies]
  BY TurnsAre, DocsAre DEF Sound
<1> HIDE DEF e
<1>3. CASE o.action = "Commit"
  <2>1. u.doc.plain = Put(t.doc.plain, ToSet(TextOf(o)))
    BY <1>1, <1>3 DEF Applied, e
  <2> QED
    BY <1>2, <2>1, PutIs DEF Lands
<1>4. CASE o.action # "Commit"
  BY <1>4 DEF Lands, TextOf
<1> QED
  BY <1>3, <1>4

LEMMA ProcessedIs ==
  ASSUME NEW t, Sound(t), NEW c \in Contexts \cup {NoContext}, NEW key, NEW ch,
         Pressed(t, key, ch), NEW r \in Processed(t, c, key, ch)
  PROVE  /\ HandledAtOnce(t, r.turn, c)
         /\ c # NoContext /\ Undisturbed(t.doc, r.turn.doc) =>
              /\ ~r.eaten => r.turn = t
              /\ r.eaten /\ Prints(key) /\ t.engine.state # "Converting" /\ t.doc.plain[ch] = 0 =>
                   Lands(r.turn, ch)
<1>1. t \in Turns /\ t.engine \in Sessions /\ Prints(key) => ch \in Chars
  BY TurnsAre DEF Sound, Pressed
<1>2. PICK o \in Outcomes(t.engine, EngineKey(t.engine, key), ch) :
        r \in IF ~o.consumed THEN {Declined([t EXCEPT !.engine = o.session])}
              ELSE {IF q.ok THEN Eaten(q.turn) ELSE Declined(DiscardSessionAndCloseUi(q.turn)) :
                      q \in TryDispatchOutput(t, c, o)}
  BY DEF Processed
<1>3. /\ Proper(t.engine, o) /\ Ready(o)
      /\ Prints(key) /\ t.engine.state # "Converting" /\ o.consumed =>
           Carries(t.engine, o, {ch}, TRUE)
  BY <1>2, KeyOutcome
<1>4. CASE ~o.consumed
  <2>1. o.session = t.engine
    BY <1>3, <1>4 DEF Proper
  <2>2. [t EXCEPT !.engine = t.engine] = t
    BY TurnsAre DEF Sound, Turns
  <2>3. r = Declined(t)
    BY <1>2, <1>4, <2>1, <2>2
  <2>4. r.turn = t /\ ~r.eaten
    BY <2>3 DEF Declined
  <2> QED
    BY <2>4, NothingHandled
<1>5. CASE o.consumed
  <2>1. PICK q \in TryDispatchOutput(t, c, o) :
          r = IF q.ok THEN Eaten(q.turn) ELSE Declined(DiscardSessionAndCloseUi(q.turn))
    BY <1>2, <1>5
  <2>2. /\ HandledAtOnce(t, q.turn, c)
        /\ q.ok => q.turn.engine = o.session
        /\ c # NoContext /\ Undisturbed(t.doc, q.turn.doc) =>
             q.ok /\ Applied(t.doc, Edit(c, o), q.turn.doc)
    BY <1>3, <2>1, TryDispatchOutputIs
  <2>3. CASE q.ok
    <3>1. r = Eaten(q.turn)
      BY <2>1, <2>3
    <3>2. r.turn = q.turn /\ r.eaten
      BY <3>1 DEF Eaten
    <3>3. ASSUME c # NoContext, Undisturbed(t.doc, q.turn.doc), Prints(key),
                 t.engine.state # "Converting", t.doc.plain[ch] = 0
          PROVE  Lands(q.turn, ch)
      <4>1. ch \in ToSet(TextOf(o)) /\ ch \in Chars /\ c \in Contexts
        BY <1>1, <1>3, <1>5, <3>3 DEF Carries, Pressed
      <4> QED
        BY <1>3, <2>2, <2>3, <3>3, <4>1, TypedLands
    <3> QED
      BY <2>2, <3>2, <3>3
  <2>4. CASE ~q.ok
    <3> DEFINE u == DiscardSessionAndCloseUi(q.turn)
    <3>1. r = Declined(u)
      BY <2>1, <2>4
    <3>2. q.turn \in Turns /\ Len(q.turn.doc.queue) <= MaxQueued
      BY <2>2 DEF HandledAtOnce, Handled, Sound
    <3>3. HandledAtOnce(q.turn, u, c)
      BY <3>2, DiscardHandled
    <3> HIDE DEF u
    <3>4. r.turn = u /\ ~r.eaten
      BY <3>1 DEF Declined
    <3>5. HandledAtOnce(t, u, c) /\ (Undisturbed(t.doc, u.doc) => Undisturbed(t.doc, q.turn.doc))
      BY <2>2, <3>3, HandledOn
    <3> QED
      BY <2>2, <2>4, <3>4, <3>5
  <2> QED
    BY <2>3, <2>4
<1> QED
  BY <1>4, <1>5

LEMMA RestartedIs ==
  ASSUME NEW t, Sound(t), NEW c \in Contexts \cup {NoContext}, NEW key, NEW ch,
         Pressed(t, key, ch), NEW u \in Restarted(t, c, key, ch)
  PROVE  /\ HandledAtOnce(t, u, c)
         /\ c # NoContext /\ Undisturbed(t.doc, u.doc) /\ Prints(key) /\ t.engine.state = "Idle"
              /\ t.doc.plain[ch] = 0 => Lands(u, ch)
<1>1. PICK o \in Outcomes(t.engine, EngineKey(t.engine, key), ch) :
        u \in IF ~o.consumed THEN {t}
              ELSE {IF q.ok THEN q.turn ELSE DiscardSessionAndCloseUi(q.turn) :
                      q \in TryDispatchOutput(t, c, o)}
  BY DEF Restarted
<1>2. /\ Proper(t.engine, o) /\ Ready(o)
      /\ Prints(key) /\ t.engine.state # "Converting" /\ o.consumed =>
           Carries(t.engine, o, {ch}, TRUE)
      /\ Prints(key) /\ t.engine.state = "Idle" => o.consumed
  BY <1>1, KeyOutcome
<1>3. CASE ~o.consumed
  BY <1>1, <1>2, <1>3, NothingHandled
<1>4. CASE o.consumed
  <2>1. PICK q \in TryDispatchOutput(t, c, o) :
          u = IF q.ok THEN q.turn ELSE DiscardSessionAndCloseUi(q.turn)
    BY <1>1, <1>4
  <2>2. /\ HandledAtOnce(t, q.turn, c)
        /\ q.ok => q.turn.engine = o.session
        /\ c # NoContext /\ Undisturbed(t.doc, q.turn.doc) =>
             q.ok /\ Applied(t.doc, Edit(c, o), q.turn.doc)
    BY <1>2, <2>1, TryDispatchOutputIs
  <2>3. CASE q.ok
    <3>1. ASSUME c # NoContext, Undisturbed(t.doc, q.turn.doc), Prints(key),
                 t.engine.state = "Idle", t.doc.plain[ch] = 0
          PROVE  Lands(q.turn, ch)
      <4>1. ch \in ToSet(TextOf(o)) /\ ch \in Chars /\ c \in Contexts
        BY <1>2, <1>4, <3>1 DEF Carries, Pressed
      <4> QED
        BY <1>2, <2>2, <2>3, <3>1, <4>1, TypedLands
    <3> QED
      BY <2>1, <2>2, <2>3, <3>1
  <2>4. CASE ~q.ok
    <3> DEFINE v == DiscardSessionAndCloseUi(q.turn)
    <3>1. u = v
      BY <2>1, <2>4
    <3>2. q.turn \in Turns /\ Len(q.turn.doc.queue) <= MaxQueued
      BY <2>2 DEF HandledAtOnce, Handled, Sound
    <3>3. HandledAtOnce(q.turn, v, c)
      BY <3>2, DiscardHandled
    <3> HIDE DEF v
    <3>4. HandledAtOnce(t, v, c) /\ (Undisturbed(t.doc, v.doc) => Undisturbed(t.doc, q.turn.doc))
      BY <2>2, <3>3, HandledOn
    <3> QED
      BY <2>2, <2>4, <3>1, <3>4
  <2> QED
    BY <2>3, <2>4
<1> QED
  BY <1>3, <1>4

(* A letter printed at full width in direct input.                         *)
LEMMA CommittedFullWidthIs ==
  ASSUME NEW t, Sound(t), t.engine.state = "Direct", NEW c \in Contexts \cup {NoContext},
         NEW ch \in Chars, NEW u \in CommittedFullWidth(t, c, ch)
  PROVE  /\ HandledAtOnce(t, u, c)
         /\ c # NoContext /\ Undisturbed(t.doc, u.doc) /\ t.doc.plain[ch] = 0 => Lands(u, ch)
<1> DEFINE o == [Commits(<<ch>>) EXCEPT !.session = t.engine]
<1>1. /\ t \in Turns /\ t.doc \in Docs /\ Good(t.engine) /\ Distinct(t.engine.text)
      /\ t.engine = Empty("Direct") /\ t.engine.text = <<>> /\ t.element \in {NoElement} \cup Elements
  BY TurnsAre, EmptyIsGood, BoundsAssumption DEF Sound, Good
<1>2. CASE c = NoContext
  <2>1. u = DiscardSessionAndCloseUi(t)
    BY <1>2 DEF CommittedFullWidth
  <2>2. HandledAtOnce(t, DiscardSessionAndCloseUi(t), c)
    BY DiscardHandled DEF Sound
  <2> QED
    BY <1>2, <2>1, <2>2
<1>3. CASE c # NoContext
  <2>1. PICK q \in DispatchEngineOutput(t, c, o, TRUE) : u = CloseCandidateUi(q.turn)
    BY <1>3 DEF CommittedFullWidth
  <2>2. o.session = t.engine /\ o.action = "Commit" /\ o.sent = <<ch>>
    BY DEF Commits
  <2>3. <<ch>> \in Seq(Chars) /\ ToSet(<<ch>>) = {ch}
    BY DEF ToSet
  <2> HIDE DEF o
  <2>4. Ready(o) /\ TextOf(o) = <<ch>>
    BY <1>1, <2>2, <2>3 DEF Ready, TextOf
  <2>5. c \in Contexts
    BY <1>3
  <2>6. /\ q.turn \in Turns /\ q.turn.engine = o.session /\ Keeps(t.doc, q.turn.doc)
        /\ Follows(t.doc, q.turn.doc)
        /\ t.doc.queue = <<>> /\ q.turn.doc.queue = <<>> /\ NoneFails(t.doc, q.turn.doc) =>
             q.ok /\ Applied(t.doc, Edit(c, o), q.turn.doc)
    BY <2>1, <2>4, <2>5, DispatchEngineOutputIs
  <2>7. u \in Turns /\ u.engine = t.engine /\ u.doc = q.turn.doc /\ u.element = NoElement
    BY <2>1, <2>2, <2>6, ClosedIs
  <2>8. Undisturbed(t.doc, u.doc) => Applied(t.doc, Edit(c, o), u.doc)
    BY <2>6, <2>7 DEF Undisturbed
  <2>9. Sound(u)
    BY <1>1, <2>6, <2>7 DEF Sound, Mirrors, Keeps
  <2>10. Undisturbed(t.doc, u.doc) /\ Shown(t, c) => Shown(u, c)
    BY <2>2, <2>4, <2>5, <2>7, <2>8, DispatchShows
  <2>11. HandledAtOnce(t, u, c)
    BY <2>6, <2>7, <2>9, <2>10 DEF HandledAtOnce, Handled
  <2>12. ASSUME Undisturbed(t.doc, u.doc), t.doc.plain[ch] = 0
         PROVE  Lands(u, ch)
    <3>1. ch \in ToSet(TextOf(o))
      BY <2>3, <2>4
    <3> QED
      BY <2>2, <2>4, <2>5, <2>7, <2>8, <2>12, <3>1, TypedLands
  <2> QED
    BY <2>11, <2>12
<1> QED
  BY <1>2, <1>3

(* A key handed back is typed by the application.                          *)
LEMMA TypedIs ==
  ASSUME NEW t, Sound(t), NEW c, NEW ch
  PROVE  /\ HandledAtOnce(t, Typed(t, c, ch), c)
         /\ Typed(t, c, ch).engine = t.engine /\ Typed(t, c, ch).element = t.element
<1> DEFINE plain == IF c = NoContext THEN t.doc.plain ELSE Put(t.doc.plain, {ch})
           d == [t.doc EXCEPT !.plain = plain]
           u == Typed(t, c, ch)
<1>1. t \in Turns /\ t.doc \in Docs /\ Follows(t.doc, t.doc)
  BY TurnsAre, DocsAre DEF Sound
<1>2. plain \in [Chars -> Copies]
  BY <1>1, PutIs, DocsAre
<1>3. u = [t EXCEPT !.doc = d]
  BY DEF Typed
<1> HIDE DEF plain
<1>4. d \in Docs
  BY <1>1, <1>2 DEF Docs
<1>5. d.queue = t.doc.queue /\ d.faults = t.doc.faults /\ d.composition = t.doc.composition
  BY <1>1 DEF Docs
<1> HIDE DEF d, u
<1>6. u \in Turns /\ u.engine = t.engine /\ u.doc = d /\ u.element = t.element
  BY <1>1, <1>3, <1>4, TurnsAre
<1>7. Sound(u) /\ Follows(t.doc, d) /\ Keeps(t.doc, d)
  <2>1. Sound(u)
    BY <1>5, <1>6 DEF Sound
  <2>2. Follows(t.doc, d)
    BY <1>1, <1>4, <1>5 DEF Follows
  <2>3. Keeps(t.doc, d)
    BY <1>5, <2>2 DEF Follows, Keeps
  <2> QED
    BY <2>1, <2>2, <2>3
<1>8. Shown(t, c) => Shown(u, c)
  BY <1>5, <1>6 DEF Shown
<1>9. HandledAtOnce(t, u, c)
  BY <1>6, <1>7, <1>8 DEF HandledAtOnce, Handled
<1> QED
  BY <1>6, <1>9 DEF u

(* The session is committed where it was typed, given up, or left alone.   *)
LEMMA HandleFocusLossIs ==
  ASSUME NEW t, Sound(t), NEW c \in Contexts \cup {NoContext}, NEW u \in HandleFocusLoss(t, c)
  PROVE  Handled(t, u, c)
<1> DEFINE commits == IF t.engine.state = "Composing" THEN {Commits(t.engine.text)}
                      ELSE FinalizeCandidateSelection(t.engine)
<1>1. /\ t \in Turns /\ t.doc \in Docs /\ Good(t.engine) /\ Distinct(t.engine.text)
      /\ t.engine.text \in Seq(Chars)
  BY TurnsAre DEF Sound, Good, Sessions
<1>2. CASE u = t
  BY <1>2, NothingHandled DEF HandledAtOnce
<1>3. CASE u = GivenUp(t)
  <2>1. HandledAtOnce(t, DiscardSessionAndCloseUi(t), c)
    BY DiscardHandled DEF Sound
  <2> QED
    BY <1>3, <2>1 DEF GivenUp, HandledAtOnce
<1>4. ASSUME c # NoContext, NEW o \in commits, NEW q \in DispatchEngineOutput(t, c, o, FALSE),
             u = IF q.ok THEN q.turn ELSE GivenUp(q.turn)
      PROVE  Handled(t, u, c)
  <2>1. c \in Contexts
    BY <1>4
  <2>2. Proper(t.engine, o) /\ Carries(t.engine, o, {}, TRUE)
    <3>1. CASE t.engine.state = "Composing"
      BY <1>1, <1>4, <3>1, CommittedProperly, SentText, BoundsAssumption
    <3>2. CASE t.engine.state # "Composing"
      BY <1>1, <1>4, <3>2, EveryFinalize, BoundsAssumption
    <3> QED
      BY <3>1, <3>2
  <2>3. Ready(o)
    BY <1>1, <2>2 DEF Ready, Proper, Carries
  <2>4. /\ q.turn \in Turns /\ q.turn.engine = o.session /\ Keeps(t.doc, q.turn.doc)
        /\ q.ok => Sound(q.turn)
        /\ t.doc.queue = <<>> /\ q.turn.doc.queue = <<>> /\ NoneFails(t.doc, q.turn.doc) =>
             q.ok /\ Applied(t.doc, Edit(c, o), q.turn.doc)
    <3>1. q \in DispatchEngineOutput(t, c, o, FALSE) /\ Sound(t) /\ Ready(o) /\ FALSE \in BOOLEAN
      BY <1>4, <2>3
    <3> QED
      BY <2>1, <3>1, DispatchEngineOutputIs
  <2>5. CASE q.ok
    <3>1. Undisturbed(t.doc, q.turn.doc) => Applied(t.doc, Edit(c, o), q.turn.doc)
      BY <2>4 DEF Undisturbed
    <3>2. Undisturbed(t.doc, q.turn.doc) /\ Shown(t, c) => Shown(q.turn, c)
      BY <2>1, <2>3, <2>4, <3>1, DispatchShows
    <3> QED
      BY <1>4, <2>4, <2>5, <3>2 DEF Handled
  <2>6. CASE ~q.ok
    <3>1. u = DiscardSessionAndCloseUi(q.turn)
      BY <1>4, <2>6 DEF GivenUp
    <3>2. Len(q.turn.doc.queue) <= MaxQueued
      BY <2>4 DEF Keeps, Sound
    <3>3. Sound(u) /\ Follows(q.turn.doc, u.doc) /\ Shown(u, c)
      BY <2>4, <3>1, <3>2, DiscardHandled
    <3>4. Keeps(t.doc, u.doc)
      <4>1. t.doc.faults \in Nat /\ q.turn.doc.faults \in Nat /\ u.doc.faults \in Nat
        BY <1>1, <2>4, <3>3, DocsAre DEF Keeps, Follows
      <4> QED
        BY <2>4, <3>3, <4>1 DEF Keeps, Follows
    <3> QED
      BY <3>3, <3>4 DEF Handled
  <2> QED
    BY <2>5, <2>6
<1>5. \/ u = t \/ u = GivenUp(t)
      \/ c # NoContext /\ \E o \in commits : \E q \in DispatchEngineOutput(t, c, o, FALSE) :
           u = IF q.ok THEN q.turn ELSE GivenUp(q.turn)
  BY DEF HandleFocusLoss
<1> QED
  BY <1>2, <1>3, <1>4, <1>5

LEMMA NowIs ==
  /\ Now.engine = engine /\ Now.doc = doc /\ Now.element = element
BY DEF Now

(* Every key: what it leaves is sound; where nothing fails or waits and    *)
(* there is a context, a key that is handed back has changed nothing, and  *)
(* one that prints and is taken has put its character somewhere.           *)
LEMMA OnKeyDownIs ==
  ASSUME Sound(Now), NEW c \in Contexts \cup {NoContext}, NEW key, NEW ch, Pressed(Now, key, ch),
         NEW r \in OnKeyDown(c, key, ch)
  PROVE  /\ HandledAtOnce(Now, r.turn, c)
         /\ c # NoContext /\ Undisturbed(doc, r.turn.doc) =>
              /\ r.eaten \/ r.turn = Now \/ DiscardsEmptySession(key)
              /\ r.eaten /\ Prints(key) /\ doc.plain[ch] = 0
                   /\ ~(engine.state = "Converting" /\ engine.ahead > 0) => Lands(r.turn, ch)
<1>1. /\ Now.engine = engine /\ Now.doc = doc /\ Good(engine) /\ Now \in Turns
      /\ Len(doc.queue) <= MaxQueued
      /\ Prints(key) => ch \in Chars /\ ch \notin ToSet(engine.text)
  BY NowIs DEF Sound, Pressed
<1>2. CASE r = Declined(Now)
  <2>1. r.turn = Now /\ ~r.eaten
    BY <1>2 DEF Declined
  <2> QED
    BY <2>1, NothingHandled
<1>3. CASE DiscardsEmptySession(key) /\ r = Declined(DiscardSessionAndCloseUi(Now))
  <2>1. HandledAtOnce(Now, DiscardSessionAndCloseUi(Now), c)
    BY <1>1, DiscardHandled
  <2>2. r.turn = DiscardSessionAndCloseUi(Now) /\ ~r.eaten
    BY <1>3 DEF Declined
  <2> QED
    BY <1>3, <2>1, <2>2
<1>4. ASSUME engine.state = "Direct", key = "Letter", NEW u \in CommittedFullWidth(Now, c, ch), r = Eaten(u)
      PROVE  /\ HandledAtOnce(Now, r.turn, c) /\ r.eaten
             /\ c # NoContext /\ Undisturbed(doc, r.turn.doc) /\ doc.plain[ch] = 0 => Lands(r.turn, ch)
  <2>1. r.turn = u /\ r.eaten
    BY <1>4 DEF Eaten
  <2>2. ch \in Chars
    BY <1>1, <1>4 DEF Prints
  <2> QED
    BY <1>1, <1>4, <2>1, <2>2, CommittedFullWidthIs
<1>5. ASSUME ~CommitsConversion(key), r \in Processed(Now, c, key, ch)
      PROVE  /\ HandledAtOnce(Now, r.turn, c)
             /\ c # NoContext /\ Undisturbed(doc, r.turn.doc) =>
                  /\ r.eaten \/ r.turn = Now
                  /\ r.eaten /\ Prints(key) /\ doc.plain[ch] = 0 => Lands(r.turn, ch)
  <2>1. Prints(key) => engine.state # "Converting"
    BY <1>5 DEF CommitsConversion
  <2>2. /\ HandledAtOnce(Now, r.turn, c)
        /\ c # NoContext /\ Undisturbed(Now.doc, r.turn.doc) =>
             /\ ~r.eaten => r.turn = Now
             /\ r.eaten /\ Prints(key) /\ Now.engine.state # "Converting" /\ Now.doc.plain[ch] = 0 =>
                  Lands(r.turn, ch)
    BY <1>5, ProcessedIs
  <2> QED
    BY <1>1, <2>1, <2>2
<1>6. ASSUME NEW q \in TryCommitOpenSession(Now, c), CommitsConversion(key),
             r \in IF ~q.ok THEN Processed(q.turn, c, key, ch)
                   ELSE IF Prints(key) THEN {Eaten(t) : t \in Restarted(q.turn, c, key, ch)}
                   ELSE {Eaten(q.turn)}
      PROVE  /\ HandledAtOnce(Now, r.turn, c)
             /\ c # NoContext /\ Undisturbed(doc, r.turn.doc) =>
                  /\ r.eaten
                  /\ Prints(key) /\ doc.plain[ch] = 0 /\ engine.ahead = 0 => Lands(r.turn, ch)
  <2>1. /\ HandledAtOnce(Now, q.turn, c)
        /\ ToSet(q.turn.engine.text) \subseteq ToSet(engine.text)
        /\ c # NoContext /\ Undisturbed(doc, q.turn.doc) =>
             /\ q.ok
             /\ engine.ahead = 0 => /\ q.turn.engine = Empty("Idle")
                                    /\ q.turn.doc.plain = Put(doc.plain, ToSet(engine.text))
    <3>1. engine.state = "Converting"
      BY <1>6 DEF CommitsConversion
    <3> QED
      BY <1>1, <1>6, <3>1, TryCommitOpenSessionIs
  <2>2. Sound(q.turn) /\ Pressed(q.turn, key, ch)
    BY <1>1, <2>1 DEF HandledAtOnce, Handled, Pressed
  <2>3. CASE ~q.ok
    <3>1. r \in Processed(q.turn, c, key, ch)
      BY <1>6, <2>3
    <3>2. HandledAtOnce(q.turn, r.turn, c)
      BY <2>2, <3>1, ProcessedIs
    <3>3. HandledAtOnce(Now, r.turn, c) /\ (Undisturbed(doc, r.turn.doc) => Undisturbed(doc, q.turn.doc))
      BY <1>1, <2>1, <3>2, HandledOn
    <3> QED
      BY <2>1, <2>3, <3>3
  <2>4. CASE q.ok /\ ~Prints(key)
    <3>1. r = Eaten(q.turn)
      BY <1>6, <2>4
    <3>2. r.turn = q.turn /\ r.eaten
      BY <3>1 DEF Eaten
    <3> QED
      BY <2>1, <2>4, <3>2
  <2>5. CASE q.ok /\ Prints(key)
    <3>1. PICK u \in Restarted(q.turn, c, key, ch) : r = Eaten(u)
      BY <1>6, <2>5
    <3>2. r.turn = u /\ r.eaten
      BY <3>1 DEF Eaten
    <3>3. /\ HandledAtOnce(q.turn, u, c)
          /\ c # NoContext /\ Undisturbed(q.turn.doc, u.doc) /\ q.turn.engine.state = "Idle"
               /\ q.turn.doc.plain[ch] = 0 => Lands(u, ch)
      BY <2>2, <2>5, <3>1, RestartedIs
    <3>4. /\ HandledAtOnce(Now, u, c)
          /\ Undisturbed(doc, u.doc) => Undisturbed(doc, q.turn.doc) /\ Undisturbed(q.turn.doc, u.doc)
      BY <1>1, <2>1, <3>3, HandledOn
    <3>5. ASSUME c # NoContext, Undisturbed(doc, u.doc), doc.plain[ch] = 0, engine.ahead = 0
          PROVE  Lands(u, ch)
      <4>1. q.turn.engine.state = "Idle"
        BY <2>1, <3>4, <3>5, EmptyIsGood, BoundsAssumption
      <4>2. q.turn.doc.plain = Put(doc.plain, ToSet(engine.text)) /\ doc.plain \in [Chars -> Copies]
        BY <1>1, <2>1, <3>4, <3>5, TurnsAre, DocsAre
      <4>3. q.turn.doc.plain[ch] = 0
        BY <1>1, <2>5, <3>5, <4>2, PutIs
      <4> QED
        BY <3>3, <3>4, <3>5, <4>1, <4>3
    <3> QED
      BY <3>2, <3>4, <3>5
  <2> QED
    BY <2>3, <2>4, <2>5
<1>7. engine.ahead \in Nat
  BY <1>1 DEF Good, Sessions
<1>8. \/ r = Declined(Now)
      \/ DiscardsEmptySession(key) /\ r = Declined(DiscardSessionAndCloseUi(Now))
      \/ /\ engine.state = "Direct" /\ key = "Letter"
         /\ \E u \in CommittedFullWidth(Now, c, ch) : r = Eaten(u)
      \/ ~CommitsConversion(key) /\ r \in Processed(Now, c, key, ch)
      \/ /\ CommitsConversion(key)
         /\ \E q \in TryCommitOpenSession(Now, c) :
              r \in IF ~q.ok THEN Processed(q.turn, c, key, ch)
                    ELSE IF Prints(key) THEN {Eaten(t) : t \in Restarted(q.turn, c, key, ch)}
                    ELSE {Eaten(q.turn)}
  BY DEF OnKeyDown
<1>9. CommitsConversion(key) => engine.state = "Converting"
  BY DEF CommitsConversion
<1> QED
  BY <1>2, <1>3, <1>4, <1>5, <1>6, <1>7, <1>8, <1>9

-----------------------------------------------------------------------------
(* The invariant.  What the handlers work on is sound; the focused context *)
(* is open and the top of the focused document, and there is none while    *)
(* the service is not active.                                              *)

FocusInv ==
  /\ focus.context # NoContext => focus.context = focus.manager /\ focus.context \in open
  /\ ~active => focus.context = NoContext

SettingsInv ==
  /\ active \in BOOLEAN /\ config \in Configs
  /\ focus \in [manager : Contexts \cup {NoContext}, context : Contexts \cup {NoContext}]
  /\ open \in SUBSET Contexts /\ sinks \in SUBSET Contexts

IInv == Sound(Now) /\ FocusInv /\ SettingsInv

(* Of what becomes of the three variables the handlers share, a step keeps *)
(* this; where the composition shows the session it goes on to do so.      *)
Kept ==
  /\ Sound(Now') /\ doc'.faults >= doc.faults
  /\ Undisturbed(doc, doc') /\ Shown(Now, focus.context) => \E c : Shown(Now', c)

LEMMA NowNext ==
  /\ Now' = [engine |-> engine', doc |-> doc', element |-> element']
  /\ Now'.engine = engine' /\ Now'.doc = doc' /\ Now'.element = element'
BY DEF Now

LEMMA TakenIs ==
  ASSUME NEW u \in Turns, Take(u)
  PROVE  Now' = u
BY NowNext, TurnsAre DEF Take

LEMMA HandledThen ==
  ASSUME NEW t, Sound(t), NEW c, NEW u, Handled(t, u, c), NEW v, HandledAtOnce(u, v, c)
  PROVE  Handled(t, v, c)
<1>1. t.doc \in Docs /\ u.doc \in Docs /\ v.doc \in Docs
  BY TurnsAre DEF Sound, HandledAtOnce, Handled
<1>2. t.doc.faults \in Nat /\ u.doc.faults \in Nat /\ v.doc.faults \in Nat
  BY <1>1, DocsAre
<1>3. /\ Keeps(t.doc, u.doc) /\ Follows(u.doc, v.doc) /\ v.doc.queue = u.doc.queue
      /\ u.doc.faults >= t.doc.faults /\ v.doc.faults >= u.doc.faults
  BY DEF HandledAtOnce, Handled, Follows, Keeps
<1>4. Keeps(t.doc, v.doc)
  BY <1>1, <1>2, <1>3 DEF Keeps
<1>5. Undisturbed(t.doc, v.doc) => Undisturbed(t.doc, u.doc) /\ Undisturbed(u.doc, v.doc)
  BY <1>2, <1>3 DEF Undisturbed, NoneFails
<1> QED
  BY <1>4, <1>5 DEF Handled, HandledAtOnce

(* A composition is let go, its text left where it is.                     *)
LEMMA ReleaseHandled ==
  ASSUME NEW t, Sound(t), NEW c, NEW u \in Turns, u.engine = t.engine, u.element = t.element,
         u.doc = Released(t.doc)
  PROVE  HandledAtOnce(t, u, c)
<1>1. t.doc \in Docs
  BY TurnsAre DEF Sound
<1>2. Follows(t.doc, u.doc) /\ u.doc.composition = NoComposition
  BY <1>1, ReleasedIs
<1>3. Sound(u) /\ Keeps(t.doc, u.doc) /\ Shown(u, c)
  BY <1>2 DEF Sound, Follows, Keeps, Shown
<1> QED
  BY <1>2, <1>3 DEF HandledAtOnce, Handled

(* Where nothing is shown elsewhere, a key or the loss of the focus works  *)
(* on the context the composition is in.                                   *)
LEMMA ShownThere ==
  ASSUME Sound(Now), FocusInv, Shown(Now, focus.context), NEW c,
         focus.context # NoContext => c = focus.context
  PROVE  Shown(Now, c)
<1>1. doc.composition \in Compositions /\ Now.doc = doc
  BY NowIs, TurnsAre, DocsAre DEF Sound
<1>2. CASE focus.context # NoContext
  BY <1>2
<1>3. CASE focus.context = NoContext
  <2>1. doc.composition = NoComposition
    BY <1>1, <1>3, CompositionsAre DEF Shown
  <2> QED
    BY <1>1, <2>1 DEF Shown
<1> QED
  BY <1>2, <1>3

LEMMA HandledKeeps ==
  ASSUME Sound(Now), FocusInv, NEW c, focus.context # NoContext => c = focus.context,
         NEW u, Handled(Now, u, c), Take(u)
  PROVE  Kept
<1>1. Sound(u) /\ Keeps(Now.doc, u.doc) /\ Now.doc = doc
  BY NowIs DEF Handled
<1>2. Now' = u /\ doc' = u.doc
  BY <1>1, TakenIs DEF Sound, Take
<1>3. Undisturbed(doc, doc') /\ Shown(Now, focus.context) => Shown(u, c)
  BY <1>1, <1>2, ShownThere DEF Handled
<1> QED
  BY <1>1, <1>2, <1>3 DEF Kept, Keeps

LEMMA Unchanged ==
  ASSUME Sound(Now), UNCHANGED <<engine, doc, element>>
  PROVE  Kept
<1>1. Now' = Now
  BY DEF Now
<1>2. doc.faults \in Nat
  BY NowIs, TurnsAre, DocsAre DEF Sound
<1> QED
  BY <1>1, <1>2 DEF Kept

-----------------------------------------------------------------------------
(* What each action makes of engine, documents and element *)

LEMMA KeyDownKeeps ==
  ASSUME IInv, NEW key \in ServiceKeys, NEW ch \in Inputs(key), KeyDown(key, ch)
  PROVE  Kept
<1>1. Sound(Now) /\ FocusInv /\ SettingsInv /\ Now.engine = engine /\ Now.doc = doc
  BY NowIs DEF IInv
<1>2. Pressed(Now, key, ch)
  BY <1>1 DEF Pressed, Inputs, Fresh, Held
<1>3. PICK c \in Targets : \E r \in OnKeyDown(c, key, ch) :
        Take(IF Prints(key) /\ ~r.eaten THEN Typed(r.turn, c, ch) ELSE r.turn)
  BY DEF KeyDown
<1>4. PICK r \in OnKeyDown(c, key, ch) :
        Take(IF Prints(key) /\ ~r.eaten THEN Typed(r.turn, c, ch) ELSE r.turn)
  BY <1>3
<1>5. c \in Contexts \cup {NoContext} /\ (focus.context # NoContext => c = focus.context)
  BY <1>1 DEF Targets, Top, FocusInv, SettingsInv
<1>6. HandledAtOnce(Now, r.turn, c)
  BY <1>1, <1>2, <1>5, OnKeyDownIs
<1>7. HandledAtOnce(r.turn, Typed(r.turn, c, ch), c)
  BY <1>6, TypedIs DEF HandledAtOnce, Handled
<1>8. HandledAtOnce(Now, Typed(r.turn, c, ch), c)
  BY <1>1, <1>6, <1>7, HandledOn
<1>9. CASE Prints(key) /\ ~r.eaten
  BY <1>1, <1>4, <1>5, <1>8, <1>9, HandledKeeps DEF HandledAtOnce
<1>10. CASE ~(Prints(key) /\ ~r.eaten)
  BY <1>1, <1>4, <1>5, <1>6, <1>10, HandledKeeps DEF HandledAtOnce
<1> QED
  BY <1>9, <1>10

LEMMA LoseForegroundKeeps ==
  ASSUME IInv, LoseForeground
  PROVE  Kept
<1>1. Sound(Now) /\ FocusInv /\ focus.context \in Contexts \cup {NoContext}
  BY DEF IInv, SettingsInv
<1>2. PICK t \in HandleFocusLoss(Now, focus.context) : Take(CloseCandidateUi(t))
  BY DEF LoseForeground
<1>3. Handled(Now, t, focus.context)
  BY <1>1, <1>2, HandleFocusLossIs
<1>4. HandledAtOnce(t, CloseCandidateUi(t), focus.context)
  BY <1>3, ClosingHandled DEF Handled
<1>5. Handled(Now, CloseCandidateUi(t), focus.context)
  BY <1>1, <1>3, <1>4, HandledThen
<1> QED
  BY <1>1, <1>2, <1>5, HandledKeeps

LEMMA MoveFocusKeeps ==
  ASSUME IInv, NEW manager \in Contexts \cup {NoContext}, NEW previous \in Contexts \cup {NoContext},
         MoveFocus(manager, previous)
  PROVE  Kept
<1> DEFINE c == Top(previous)
<1>1. Sound(Now) /\ FocusInv /\ c \in Contexts \cup {NoContext}
      /\ (focus.context # NoContext => c = focus.context)
  BY DEF IInv, FocusInv, SettingsInv, Top, MoveFocus
<1>2. PICK t \in IF c = NoContext THEN {Now} ELSE HandleFocusLoss(Now, c) :
        Take(CloseCandidateUi([t EXCEPT !.doc = IF manager = focus.manager THEN @ ELSE Released(@)]))
  BY DEF MoveFocus
<1> HIDE DEF c
<1>3. Handled(Now, t, c)
  <2>1. CASE t = Now
    BY <1>1, <2>1, NothingHandled DEF HandledAtOnce
  <2>2. CASE t \in HandleFocusLoss(Now, c)
    BY <1>1, <2>2, HandleFocusLossIs
  <2> QED
    BY <1>2, <2>1, <2>2
<1>4. Sound(t) /\ t \in Turns /\ t.doc \in Docs
  BY <1>3, TurnsAre DEF Handled, Sound
<1> DEFINE d == IF manager = focus.manager THEN t.doc ELSE Released(t.doc)
           u == [t EXCEPT !.doc = d]
<1>5. d \in Docs
  BY <1>4, ReleasedIs DEF Follows
<1>6. u \in Turns /\ u.engine = t.engine /\ u.element = t.element /\ u.doc = d
  BY <1>4, <1>5, TurnsAre
<1>7. HandledAtOnce(t, u, c)
  <2>1. CASE manager = focus.manager
    <3>1. u = t
      BY <1>4, <1>6, <2>1, TurnsAre
    <3> QED
      BY <1>4, <3>1, NothingHandled
  <2>2. CASE manager # focus.manager
    <3>1. u.doc = Released(t.doc)
      BY <1>6, <2>2
    <3> HIDE DEF u
    <3> QED
      BY <1>4, <1>6, <3>1, ReleaseHandled
  <2> QED
    BY <2>1, <2>2
<1>8. Take(CloseCandidateUi(u))
  BY <1>2
<1> HIDE DEF u
<1>9. HandledAtOnce(u, CloseCandidateUi(u), c)
  BY <1>7, ClosingHandled DEF HandledAtOnce, Handled
<1>10. Handled(Now, CloseCandidateUi(u), c)
  BY <1>1, <1>3, <1>7, <1>9, HandledThen, HandledOn DEF Handled
<1> QED
  BY <1>1, <1>8, <1>10, HandledKeeps

(* Only the document changes, and at most a composition is let go.         *)
LEMMA LettingGoKeeps ==
  ASSUME Sound(Now), doc' = doc \/ doc' = Released(doc) \/ \E left \in BOOLEAN : doc' = [Released(doc) EXCEPT !.left = left],
         UNCHANGED engine, element' \in {element, NoElement}
  PROVE  Kept
<1>1. /\ Now \in Turns /\ Now.doc = doc /\ Now.engine = engine /\ Now.element = element /\ doc \in Docs
      /\ Now' = [engine |-> engine, doc |-> doc', element |-> element']
      /\ Now'.engine = engine /\ Now'.doc = doc' /\ Now'.element = element'
  BY NowIs, NowNext, TurnsAre DEF Sound
<1>2. /\ Follows(doc, doc')
      /\ doc' = doc \/ doc'.composition = NoComposition
  <2>1. CASE doc' = doc
    BY <1>1, <2>1, DocsAre
  <2>2. CASE doc' = Released(doc)
    BY <1>1, <2>2, ReleasedIs
  <2>3. ASSUME NEW left \in BOOLEAN, doc' = [Released(doc) EXCEPT !.left = left]
        PROVE  Follows(doc, doc') /\ doc'.composition = NoComposition
    <3> DEFINE d == Released(doc)
    <3>1. Follows(doc, d) /\ d \in Docs /\ d.composition = NoComposition
      BY <1>1, ReleasedIs DEF Follows
    <3>2. doc' = [d EXCEPT !.left = left]
      BY <2>3
    <3> HIDE DEF d
    <3>3. doc' \in Docs /\ doc'.queue = d.queue /\ doc'.faults = d.faults
          /\ doc'.composition = d.composition
      BY <3>1, <3>2 DEF Docs
    <3> QED
      BY <3>1, <3>3 DEF Follows
  <2> QED
    BY <2>1, <2>2, <2>3
<1>3. Now' \in Turns
  BY <1>1, <1>2, TurnsAre DEF Turns, Follows
<1>4. Sound(Now')
  BY <1>1, <1>2, <1>3 DEF Sound, Follows, Mirrors
<1>5. Shown(Now, focus.context) => \E c : Shown(Now', c)
  BY <1>1, <1>2 DEF Shown
<1> QED
  BY <1>2, <1>4, <1>5 DEF Kept, Follows

LEMMA RunEditSessionKeeps ==
  ASSUME Sound(Now), RunEditSession
  PROVE  Kept
<1>1. /\ Now \in Turns /\ Now.doc = doc /\ Now.engine = engine /\ Now.element = element /\ doc \in Docs
      /\ engine' = engine /\ element' = element
      /\ Now' = [engine |-> engine, doc |-> doc', element |-> element]
      /\ Now'.engine = engine /\ Now'.doc = doc' /\ Now'.element = element
  BY NowIs, NowNext, TurnsAre DEF Sound, RunEditSession
<1> DEFINE d == [doc EXCEPT !.queue = Tail(@)]
           e == Head(doc.queue)
<1>2. doc.queue # <<>> /\ doc.queue \in Seq(EditSessions)
  BY <1>1, DocsAre DEF RunEditSession
<1>3. /\ Tail(doc.queue) \in Seq(EditSessions) /\ Len(Tail(doc.queue)) = Len(doc.queue) - 1
      /\ e \in EditSessions /\ Len(doc.queue) \in Nat
  BY <1>2
<1>4. PICK r \in ApplyEngineOutput(d, e) : doc' = r.doc
  BY DEF RunEditSession
<1>5. d \in Docs
  BY <1>1, <1>3 DEF Docs
<1>6. d.queue = Tail(doc.queue) /\ d.faults = doc.faults
  BY <1>1 DEF Docs
<1> HIDE DEF d, e
<1>7. Follows(d, doc')
  BY <1>3, <1>4, <1>5, ApplyEngineOutputIs
<1>8. doc' \in Docs /\ Len(doc'.queue) = Len(doc.queue) - 1 /\ doc'.faults >= doc.faults
  BY <1>3, <1>6, <1>7 DEF Follows
<1>9. Now' \in Turns
  BY <1>1, <1>8, TurnsAre DEF Turns
<1>10. Sound(Now')
  BY <1>1, <1>3, <1>8, <1>9, BoundsAssumption DEF Sound
<1> QED
  BY <1>2, <1>8, <1>10 DEF Kept, Undisturbed

(* A call of the candidate window that the engine answers, in the focused  *)
(* context.                                                                *)
LEMMA UiDrivenIs ==
  ASSUME NEW t, Sound(t), NEW outputs, NEW u \in UiDriven(t, outputs),
         \A o \in outputs : Ready(o), focus.context \in Contexts \cup {NoContext}
  PROVE  /\ HandledAtOnce(t, u, focus.context)
         /\ u.element = NoElement \/ \E o \in outputs : u.engine = o.session
<1>1. CASE focus.context = NoContext
  <2>1. u = CloseCandidateUi(t)
    BY <1>1 DEF UiDriven
  <2>2. u.element = NoElement
    BY <2>1, ClosedIs DEF Sound
  <2> QED
    BY <2>1, <2>2, ClosingHandled
<1>2. CASE focus.context # NoContext
  <2>1. PICK o \in outputs : u \in {r.turn : r \in TryDispatchOutput(t, focus.context, o)}
    BY <1>2 DEF UiDriven
  <2>2. PICK r \in TryDispatchOutput(t, focus.context, o) : u = r.turn
    BY <2>1
  <2>3. /\ HandledAtOnce(t, u, focus.context)
        /\ r.ok => u.engine = o.session
        /\ ~r.ok => u.element = NoElement
    BY <2>1, <2>2, TryDispatchOutputIs
  <2> QED
    BY <2>3
<1> QED
  BY <1>1, <1>2

(* Another element that mirrors the same list.                             *)
LEMMA MirroringHandled ==
  ASSUME NEW t, Sound(t), NEW c, NEW e \in {NoElement} \cup Elements, Mirrors(e, t.engine.list)
  PROVE  HandledAtOnce(t, [t EXCEPT !.element = e], c)
<1> DEFINE u == [t EXCEPT !.element = e]
<1>1. t \in Turns /\ t.doc \in Docs /\ Follows(t.doc, t.doc)
  BY TurnsAre, DocsAre DEF Sound
<1>2. u \in Turns /\ u.engine = t.engine /\ u.doc = t.doc /\ u.element = e
  BY <1>1, TurnsAre
<1> HIDE DEF u
<1>3. Sound(u) /\ Keeps(t.doc, u.doc)
  BY <1>1, <1>2 DEF Sound, Keeps, Follows
<1>4. Shown(t, c) => Shown(u, c)
  BY <1>2 DEF Shown
<1>5. HandledAtOnce(t, u, c)
  BY <1>1, <1>2, <1>3, <1>4 DEF HandledAtOnce, Handled
<1> QED
  BY <1>5 DEF u

LEMMA ShowingMirrors ==
  ASSUME NEW e \in Elements, e # NoElement, NEW l, Mirrors(e, l), NEW show \in BOOLEAN
  PROVE  [e EXCEPT !.shown = show] \in Elements /\ Mirrors([e EXCEPT !.shown = show], l)
<1> DEFINE f == [e EXCEPT !.shown = show]
<1>1. /\ f \in Elements /\ f.count = e.count /\ f.selected = e.selected /\ f.pages = e.pages
      /\ f.start = e.start
  BY DEF Elements
<1> HIDE DEF f
<1>2. ShowsSelectedPage(e) => ShowsSelectedPage(f)
  BY <1>1 DEF ShowsSelectedPage
<1>3. Mirrors(f, l)
  BY <1>1, <1>2 DEF Mirrors
<1> QED
  BY <1>1, <1>3 DEF f

(* SetSelection: the element follows the engine, which has selected the    *)
(* same candidate.                                                         *)
LEMMA SelectingMirrors ==
  ASSUME NEW before, NEW e \in Elements, NEW l, e # NoElement, Mirrors(e, l), NEW i \in Nat,
         e.count = l.count => l.selected = i
  PROVE  SelectedHere(before, e, i) \in Elements /\ Mirrors(SelectedHere(before, e, i), l)
<1>1. /\ e.pages \in BoundedSeq(0 .. MaxList, MaxList) /\ e.pages \in Seq(Nat)
      /\ e.pages # <<>> => e.pages[1] = 0
      /\ e.count = l.count /\ e.selected = l.selected /\ e.selected = i
      /\ e.selected \in 0 .. MaxList
  BY ElementsAre DEF Mirrors, Elements
<1>2. CASE SelectedHere(before, e, i) = e
  BY <1>2
<1>3. CASE SelectedHere(before, e, i) # e
  <2> DEFINE start == IF e.pages = <<>> THEN e.start ELSE Start(e.pages, i)
             f == SelectedHere(before, e, i)
  <2>1. f = [e EXCEPT !.selected = i, !.start = start]
    BY <1>3 DEF SelectedHere
  <2>2. start \in 0 .. MaxList /\ i \in 0 .. MaxList
    BY <1>1, StartFits, ElementsAre
  <2>3. e.pages # <<>> => start = Start(e.pages, i)
    OBVIOUS
  <2> HIDE DEF start
  <2>4. f \in Elements
    BY <2>1, <2>2 DEF Elements
  <2>5. f.count = e.count /\ f.selected = i /\ f.pages = e.pages /\ f.start = start
    BY <2>1 DEF Elements
  <2> HIDE DEF f
  <2>6. ShowsSelectedPage(f)
    BY <1>1, <2>3, <2>5, ShownFromStart
  <2>7. f \in Elements /\ Mirrors(f, l)
    BY <1>1, <2>4, <2>5, <2>6 DEF Mirrors
  <2> QED
    BY <2>7 DEF f
<1> QED
  BY <1>2, <1>3

LEMMA UiSelectKeeps ==
  ASSUME IInv, NEW i \in Nat, UiSelect(i)
  PROVE  Kept
<1>1. /\ Sound(Now) /\ FocusInv /\ focus.context \in Contexts \cup {NoContext}
      /\ Now \in Turns /\ Now.engine = engine /\ Good(engine) /\ Distinct(engine.text)
  BY NowIs DEF IInv, SettingsInv, Sound
<1> DEFINE outputs == SetCandidateSelection(engine, i)
<1>2. \A o \in outputs : /\ Ready(o) /\ o.session.list.count = engine.list.count
                         /\ o.session.list.selected = i
  <2> TAKE o \in outputs
  <2>1. /\ Proper(engine, o) /\ Carries(engine, o, {}, TRUE)
        /\ o.session.list.count = engine.list.count /\ o.session.list.selected = i
    <3>1. Good(engine) /\ o \in SetCandidateSelection(engine, i) /\ MaxList \in Nat
      BY <1>1, BoundsAssumption
    <3> HIDE DEF outputs
    <3> QED
      BY <3>1, EverySelection
  <2> QED
    BY <1>1, <2>1 DEF Ready, Proper, Carries
<1>3. CASE UNCHANGED <<engine, doc, element>>
  BY <1>1, <1>3, Unchanged
<1>4. ASSUME NEW t \in UiDriven(Now, outputs),
             Take([t EXCEPT !.element = IF @ = NoElement THEN @ ELSE SelectedHere(element, @, i)])
      PROVE  Kept
  <2> HIDE DEF outputs
  <2>1. /\ HandledAtOnce(Now, t, focus.context)
        /\ t.element = NoElement \/ \E o \in outputs : t.engine = o.session
    BY <1>1, <1>2, <1>4, UiDrivenIs
  <2>2. Sound(t) /\ t \in Turns /\ Mirrors(t.element, t.engine.list)
        /\ t.element \in {NoElement} \cup Elements
    BY <2>1, TurnsAre DEF HandledAtOnce, Handled, Sound
  <2> DEFINE e == IF t.element = NoElement THEN NoElement ELSE SelectedHere(element, t.element, i)
             u == [t EXCEPT !.element = e]
  <2>3. e \in {NoElement} \cup Elements /\ Mirrors(e, t.engine.list)
    <3>1. CASE t.element = NoElement
      BY <3>1 DEF Mirrors
    <3>2. CASE t.element # NoElement
      <4>1. t.engine.list.selected = i
        BY <1>2, <2>1, <3>2
      <4> QED
        BY <2>2, <3>2, <4>1, SelectingMirrors
    <3> QED
      BY <3>1, <3>2
  <2>4. Take(u)
    BY <1>4
  <2> HIDE DEF e
  <2>5. HandledAtOnce(t, u, focus.context)
    BY <2>2, <2>3, MirroringHandled
  <2> HIDE DEF u
  <2>6. HandledAtOnce(Now, u, focus.context)
    BY <1>1, <2>1, <2>5, HandledOn
  <2> QED
    BY <1>1, <2>4, <2>6, HandledKeeps DEF HandledAtOnce
<1> QED
  BY <1>3, <1>4 DEF UiSelect

LEMMA UiEndKeeps ==
  ASSUME IInv, NEW outputs, \A o \in outputs : Ready(o), UiEnd(outputs)
  PROVE  Kept
<1>1. /\ Sound(Now) /\ FocusInv /\ focus.context \in Contexts \cup {NoContext}
      /\ Now \in Turns /\ Now.engine = engine /\ Now.element = element
      /\ element \in {NoElement} \cup Elements /\ Mirrors(element, engine.list)
  BY NowIs, TurnsAre DEF IInv, SettingsInv, Sound
<1> DEFINE e == IF element = NoElement THEN NoElement ELSE [element EXCEPT !.shown = FALSE]
           hidden == Hidden(Now)
<1>2. e \in {NoElement} \cup Elements /\ Mirrors(e, engine.list)
  BY <1>1, ShowingMirrors DEF Mirrors
<1>3. hidden = [Now EXCEPT !.element = e]
  BY <1>1 DEF Hidden
<1> HIDE DEF e, hidden
<1>4. HandledAtOnce(Now, hidden, focus.context)
  BY <1>1, <1>2, <1>3, MirroringHandled
<1>5. PICK t \in IF outputs = {} THEN {hidden} ELSE UiDriven(hidden, outputs) : Take(t)
  BY DEF UiEnd, hidden
<1>6. HandledAtOnce(Now, t, focus.context)
  <2>1. CASE t = hidden
    BY <1>4, <2>1
  <2>2. CASE t \in UiDriven(hidden, outputs)
    <3>1. HandledAtOnce(hidden, t, focus.context)
      BY <1>1, <1>4, <2>2, UiDrivenIs DEF HandledAtOnce, Handled
    <3> QED
      BY <1>1, <1>4, <3>1, HandledOn
  <2> QED
    BY <1>5, <2>1, <2>2
<1> QED
  BY <1>1, <1>5, <1>6, HandledKeeps DEF HandledAtOnce

LEMMA UiFinalizeKeeps ==
  ASSUME IInv, UiFinalize
  PROVE  Kept
<1>1. Good(engine) /\ Distinct(engine.text)
  BY NowIs DEF IInv, Sound
<1>2. \A o \in FinalizeCandidateSelection(engine) : Ready(o)
  <2> TAKE o \in FinalizeCandidateSelection(engine)
  <2>1. Proper(engine, o) /\ Carries(engine, o, {}, TRUE)
    BY <1>1, EveryFinalize, BoundsAssumption
  <2> QED
    BY <1>1, <2>1 DEF Ready, Proper, Carries
<1> QED
  BY <1>2, UiEndKeeps DEF UiFinalize

LEMMA UiAbortKeeps ==
  ASSUME IInv, UiAbort
  PROVE  Kept
<1>1. Good(engine) /\ Distinct(engine.text)
  BY NowIs DEF IInv, Sound
<1>2. \A o \in AbortCandidateSelection(engine) : Ready(o)
  <2> TAKE o \in AbortCandidateSelection(engine)
  <2>1. Proper(engine, o) /\ Carries(engine, o, {}, TRUE)
    BY <1>1, EveryAbort, BoundsAssumption
  <2> QED
    BY <1>1, <2>1 DEF Ready, Proper, Carries
<1> QED
  BY <1>2, UiEndKeeps DEF UiAbort

(* Only the element changes, and mirrors the list still.                   *)
LEMMA ElementOnlyKeeps ==
  ASSUME Sound(Now), UNCHANGED <<engine, doc>>, element' \in Elements, Mirrors(element', engine.list)
  PROVE  Kept
<1>1. /\ Now \in Turns /\ Now.doc = doc /\ Now.engine = engine /\ Now.element = element /\ doc \in Docs
      /\ Now' = [engine |-> engine, doc |-> doc, element |-> element']
      /\ Now'.engine = engine /\ Now'.doc = doc /\ Now'.element = element'
  BY NowIs, NowNext, TurnsAre DEF Sound
<1>2. Now' \in Turns /\ doc.faults \in Nat
  BY <1>1, TurnsAre, DocsAre DEF Turns
<1>3. Sound(Now')
  BY <1>1, <1>2 DEF Sound
<1>4. Shown(Now, focus.context) => Shown(Now', focus.context)
  BY <1>1 DEF Shown
<1> QED
  BY <1>2, <1>3, <1>4 DEF Kept

LEMMA UiPageKeeps ==
  ASSUME IInv, UiPage
  PROVE  Kept
<1>1. /\ Sound(Now) /\ element # NoElement /\ element \in Elements /\ Mirrors(element, engine.list)
  BY NowIs, TurnsAre DEF IInv, Sound, UiPage
<1>2. PICK pages \in BoundedSeq(0 .. MaxList - 1, MaxList) :
        IsPageTable(pages, element.count) /\ element' = Repaged(element, pages)
  BY DEF UiPage
<1>3. pages \in BoundedSeq(0 .. MaxList, MaxList) /\ pages \in Seq(Nat) /\ (pages # <<>> => pages[1] = 0)
  <2>1. 0 .. MaxList - 1 \subseteq 0 .. MaxList
    BY BoundsAssumption
  <2>2. pages \in Seq(0 .. MaxList - 1) /\ Len(pages) \in Nat /\ Len(pages) <= MaxList
    BY BoundedSeqs, BoundsAssumption
  <2>3. pages \in Seq(0 .. MaxList)
    <3> DEFINE S == 0 .. MaxList - 1
               T == 0 .. MaxList
    <3>1. S \subseteq T /\ pages \in Seq(S)
      BY <2>1, <2>2
    <3> HIDE DEF S, T
    <3>2. pages \in [1 .. Len(pages) -> T]
      BY <3>1
    <3>3. pages \in Seq(T)
      BY <2>2, <3>2, BoundedSeqs, BoundsAssumption
    <3> QED
      BY <3>3 DEF T
  <2>4. pages \in Seq(Nat)
    BY <2>3, SeqsOfNumbers, BoundsAssumption
  <2> QED
    BY <1>2, <2>2, <2>3, <2>4, BoundedSeqs, BoundsAssumption DEF IsPageTable
<1> DEFINE start == Start(pages, element.selected)
           f == Repaged(element, pages)
<1>4. start \in 0 .. MaxList /\ element \in Element
  <2>1. element.selected \in Nat /\ element \in Element
    BY <1>1, ElementsAre DEF Element
  <2> QED
    BY <1>3, <2>1, StartFits
<1>5. ShowsSelectedPage(f)
  BY <1>2, <1>3, <1>4, RepagingShowsSelection
<1>6. f = [element EXCEPT !.pages = pages, !.start = start]
  BY DEF Repaged
<1> HIDE DEF start, f
<1>7. f \in Elements
  BY <1>1, <1>3, <1>4, <1>6 DEF Elements
<1>8. f.count = element.count /\ f.selected = element.selected /\ f.pages = pages
  BY <1>1, <1>6 DEF Elements
<1>9. Mirrors(f, engine.list)
  BY <1>1, <1>3, <1>5, <1>7, <1>8 DEF Mirrors
<1> QED
  BY <1>1, <1>2, <1>7, <1>9, ElementOnlyKeeps DEF UiPage, f

LEMMA UiShowKeeps ==
  ASSUME IInv, NEW show \in BOOLEAN, UiShow(show)
  PROVE  Kept
<1>1. /\ Sound(Now) /\ element # NoElement /\ element \in Elements /\ Mirrors(element, engine.list)
  BY NowIs, TurnsAre DEF IInv, Sound, UiShow
<1>2. element' \in Elements /\ Mirrors(element', engine.list)
  BY <1>1, ShowingMirrors DEF UiShow
<1> QED
  BY <1>1, <1>2, ElementOnlyKeeps DEF UiShow

(* The hiragana key, with its output given to nobody.                      *)
LEMMA ActivatingKeeps ==
  ASSUME IInv, NEW o \in ModeOutcomes(engine, "Hiragana"), engine' = o.session, UNCHANGED element,
         doc' = doc \/ doc' \in Faults(doc)
  PROVE  Kept
<1>1. /\ Now \in Turns /\ Now.doc = doc /\ Now.engine = engine /\ Now.element = element /\ doc \in Docs
      /\ Now' = [engine |-> engine', doc |-> doc', element |-> element]
      /\ Now'.engine = engine' /\ Now'.doc = doc' /\ Now'.element = element
      /\ Good(engine) /\ Distinct(engine.text) /\ Mirrors(element, engine.list)
      /\ Len(doc.queue) <= MaxQueued
  BY NowIs, NowNext, TurnsAre DEF IInv, Sound
<1>2. Follows(doc, doc') /\ doc'.composition = doc.composition
  BY <1>1, DocsAre, FaultsAre
<1>3. Good(engine') /\ engine'.text = engine.text /\ engine'.list = engine.list
  <2>1. CASE engine.state = "Direct"
    <3>1. engine' = Empty("Idle")
      BY <2>1 DEF ModeOutcomes, Shows
    <3>2. engine = Empty("Direct")
      BY <1>1, <2>1 DEF Good
    <3> QED
      BY <3>1, <3>2, EmptyIsGood, BoundsAssumption
  <2>2. CASE engine.state # "Direct"
    <3>1. engine' = engine
      BY <2>2 DEF ModeOutcomes, Shows
    <3> QED
      BY <1>1, <3>1
  <2> QED
    BY <2>1, <2>2
<1>4. Now' \in Turns
  BY <1>1, <1>2, <1>3, TurnsAre DEF Turns, Follows, Good
<1>5. Sound(Now')
  BY <1>1, <1>2, <1>3, <1>4 DEF Sound, Follows
<1>6. Shown(Now, focus.context) => Shown(Now', focus.context)
  BY <1>1, <1>2, <1>3 DEF Shown
<1> QED
  BY <1>2, <1>5, <1>6 DEF Kept, Follows

-----------------------------------------------------------------------------
(* The invariant holds *)

LEMMA InitSound == Init => IInv
<1> SUFFICES ASSUME Init
             PROVE  IInv
  OBVIOUS
<1> DEFINE d == [composition |-> NoComposition, plain |-> [ch \in Chars |-> 0], left |-> FALSE,
                 queue |-> <<>>, faults |-> 0]
<1>1. Good(engine) /\ engine \in Sessions /\ Distinct(engine.text)
  BY EmptyIsGood, EmptyText, BoundsAssumption DEF Init, Good
<1>2. d \in Docs
  <2>1. NoComposition \in Compositions /\ [ch \in Chars |-> 0] \in [Chars -> Copies]
        /\ <<>> \in Seq(EditSessions) /\ 0 \in 0 .. MaxFaults
    BY CompositionsAre, BoundsAssumption DEF Copies
  <2> QED
    BY <2>1 DEF Docs
<1>3. d.queue = <<>>
  OBVIOUS
<1>4. doc = d /\ element = NoElement
  BY DEF Init
<1> HIDE DEF d
<1>5. Now \in Turns
  BY <1>1, <1>2, <1>4 DEF Turns, Now
<1>6. Sound(Now)
  BY <1>1, <1>3, <1>4, <1>5, NowIs, BoundsAssumption DEF Sound, Mirrors
<1>7. FocusInv /\ SettingsInv
  BY DEF Init, FocusInv, SettingsInv
<1> QED
  BY <1>6, <1>7 DEF IInv

(* The focus, the open contexts and the settings.                          *)
LEMMA RestStep == FocusInv /\ SettingsInv /\ [Next]_vars => FocusInv' /\ SettingsInv'
<1> SUFFICES ASSUME FocusInv, SettingsInv, [Next]_vars
             PROVE  FocusInv' /\ SettingsInv'
  OBVIOUS
<1> USE DEF FocusInv, SettingsInv
<1>1. CASE UNCHANGED <<active, config, focus, open, sinks>>
  BY <1>1
<1>2. ASSUME NEW manager \in Contexts \cup {NoContext}, NEW previous \in Contexts \cup {NoContext},
             MoveFocus(manager, previous)
      PROVE  FocusInv' /\ SettingsInv'
  BY <1>2 DEF MoveFocus, Top
<1>3. ASSUME NEW c \in Contexts, PushContext(c)
      PROVE  FocusInv' /\ SettingsInv'
  BY <1>3 DEF PushContext
<1>4. ASSUME NEW c \in Contexts, PopContext(c)
      PROVE  FocusInv' /\ SettingsInv'
  <2>1. CASE active
    BY <1>4, <2>1 DEF PopContext
  <2>2. CASE ~active
    BY <1>4, <2>2 DEF PopContext
  <2> QED
    BY <2>1, <2>2
<1>5. CASE Activate
  BY <1>5 DEF Activate
<1>6. CASE FailToActivate
  BY <1>6 DEF FailToActivate
<1>7. CASE Deactivate
  BY <1>7 DEF Deactivate
<1>8. CASE UNCHANGED vars
  BY <1>8 DEF vars
<1> QED
  BY <1>1, <1>2, <1>3, <1>4, <1>5, <1>6, <1>7, <1>8
     DEF Next, KeyDown, LoseForeground, TerminateComposition, RunEditSession, UiSelect, UiFinalize,
         UiAbort, UiEnd, UiPage, UiShow, UiEnded

LEMMA SoundStep == IInv /\ [Next]_vars => Kept
<1> SUFFICES ASSUME IInv, [Next]_vars
             PROVE  Kept
  OBVIOUS
<1>1. Sound(Now)
  BY DEF IInv
<1>2. ASSUME NEW key \in ServiceKeys, NEW ch \in Inputs(key), KeyDown(key, ch)
      PROVE  Kept
  BY <1>2, KeyDownKeeps
<1>3. CASE LoseForeground
  BY <1>3, LoseForegroundKeeps
<1>4. ASSUME NEW manager \in Contexts \cup {NoContext}, NEW previous \in Contexts \cup {NoContext},
             MoveFocus(manager, previous)
      PROVE  Kept
  BY <1>4, MoveFocusKeeps
<1>5. ASSUME NEW c \in Contexts, PushContext(c)
      PROVE  Kept
  BY <1>1, <1>5, Unchanged DEF PushContext
<1>6. ASSUME NEW c \in Contexts, PopContext(c)
      PROVE  Kept
  <2>1. doc' \in {doc, Released(doc)} /\ UNCHANGED <<engine, element>>
    BY <1>6 DEF PopContext
  <2> QED
    BY <1>1, <2>1, LettingGoKeeps
<1>7. CASE TerminateComposition
  <2>1. doc.left \in BOOLEAN
    BY <1>1, NowIs, TurnsAre DEF Sound, Docs
  <2>2. \E left \in BOOLEAN : doc' = [Released(doc) EXCEPT !.left = left]
    BY <1>7, <2>1 DEF TerminateComposition
  <2> QED
    BY <1>1, <1>7, <2>2, LettingGoKeeps DEF TerminateComposition
<1>8. CASE RunEditSession
  BY <1>1, <1>8, RunEditSessionKeeps
<1>9. ASSUME NEW i \in 0 .. MaxList - 1, UiSelect(i)
      PROVE  Kept
  <2>1. i \in Nat
    BY BoundsAssumption
  <2> QED
    BY <1>9, <2>1, UiSelectKeeps
<1>10. CASE UiFinalize
  BY <1>10, UiFinalizeKeeps
<1>11. CASE UiAbort
  BY <1>11, UiAbortKeeps
<1>12. CASE UiPage
  BY <1>12, UiPageKeeps
<1>13. ASSUME NEW show \in BOOLEAN, UiShow(show)
       PROVE  Kept
  BY <1>13, UiShowKeeps
<1>14. CASE UiEnded
  BY <1>1, <1>14, LettingGoKeeps DEF UiEnded
<1>15. CASE Activate
  <2>1. PICK o \in ModeOutcomes(engine, "Hiragana") : engine' = o.session
    BY <1>15 DEF Activate
  <2> QED
    BY <1>15, <2>1, ActivatingKeeps DEF Activate
<1>16. CASE FailToActivate
  <2>1. PICK o \in ModeOutcomes(engine, "Hiragana") : engine' = o.session
    BY <1>16 DEF FailToActivate
  <2>2. doc' \in Faults(doc)
    BY <1>16 DEF FailToActivate, Faults
  <2> QED
    BY <1>16, <2>1, <2>2, ActivatingKeeps DEF FailToActivate
<1>17. CASE Deactivate
  BY <1>1, <1>17, LettingGoKeeps DEF Deactivate
<1>18. CASE UNCHANGED vars
  BY <1>1, <1>18, Unchanged DEF vars
<1> QED
  BY <1>2, <1>3, <1>4, <1>5, <1>6, <1>7, <1>8, <1>9, <1>10, <1>11, <1>12, <1>13, <1>14, <1>15,
     <1>16, <1>17, <1>18 DEF Next

(* Engine, documents and UI element are sound, and the focused context is  *)
(* open: the invariant the properties follow from.                         *)
THEOREM Inductive == Spec => []IInv
<1>1. IInv /\ [Next]_vars => IInv'
  <2> SUFFICES ASSUME IInv, [Next]_vars
               PROVE  IInv'
    OBVIOUS
  <2>1. Sound(Now')
    BY SoundStep DEF Kept
  <2>2. FocusInv' /\ SettingsInv'
    BY RestStep DEF IInv
  <2> QED
    BY <2>1, <2>2 DEF IInv
<1> QED
  BY InitSound, <1>1, PTL DEF Spec

-----------------------------------------------------------------------------
(* Type correctness.  A session holds each character once, so its text is  *)
(* no longer than there are characters to type.                            *)

LEMMA DistinctIsShort ==
  ASSUME NEW text \in Seq(Chars), Distinct(text)
  PROVE  Cardinality(Chars) \in Nat /\ Len(text) <= Cardinality(Chars)
<1>1. Len(text) \in Nat /\ text \in [1 .. Len(text) -> Chars]
  OBVIOUS
<1>2. text \in Injection(1 .. Len(text), Chars)
  BY <1>1 DEF Distinct, Injection, IsInjective
<1>3. Cardinality(1 .. Len(text)) <= Cardinality(Chars)
  BY <1>2, FS_Injection, BoundsAssumption
<1>4. Cardinality(1 .. Len(text)) = Len(text)
  <2>1. 1 \in Int /\ Len(text) \in Int
    BY <1>1
  <2>2. Cardinality(1 .. Len(text)) = IF 1 > Len(text) THEN 0 ELSE Len(text) - 1 + 1
    BY <2>1, FS_Interval
  <2> QED
    BY <1>1, <2>2
<1>5. Cardinality(Chars) \in Nat
  BY FS_CardinalityType, BoundsAssumption
<1> QED
  BY <1>3, <1>4, <1>5

LEMMA SoundIsTyped == IInv => TypeOK
<1> SUFFICES ASSUME IInv
             PROVE  TypeOK
  OBVIOUS
<1>1. /\ Now \in Turns /\ Good(engine) /\ Distinct(engine.text) /\ Mirrors(element, engine.list)
      /\ Len(doc.queue) <= MaxQueued /\ engine \in Sessions /\ doc \in Docs
      /\ element \in {NoElement} \cup Elements
  BY NowIs, TurnsAre DEF IInv, Sound
<1>2. engine \in [state : {"Direct", "Idle", "Composing", "Converting"},
                  text : BoundedSeq(Chars, Cardinality(Chars)), ahead : 0 .. Cardinality(Chars),
                  list : Lists]
  <2> DEFINE n == Cardinality(Chars)
  <2>1. /\ engine.state \in {"Direct", "Idle", "Composing", "Converting"}
        /\ engine.text \in Seq(Chars) /\ engine.ahead \in Nat /\ engine.list \in Lists
        /\ engine = [state |-> engine.state, text |-> engine.text, ahead |-> engine.ahead,
                     list |-> engine.list]
    BY <1>1 DEF Sessions
  <2>2. n \in Nat /\ Len(engine.text) <= n /\ Len(engine.text) \in Nat
    BY <1>1, <2>1, DistinctIsShort
  <2>3. engine.text \in BoundedSeq(Chars, n)
    BY <2>1, <2>2, BoundedSeqs
  <2>4. engine.ahead \in 0 .. n
    <3>1. engine.state \in {"Direct", "Idle"} => engine.ahead = 0
      BY <1>1 DEF Good, Empty
    <3>2. engine.state = "Composing" => engine.ahead = 0
      BY <1>1 DEF Good
    <3>3. engine.state = "Converting" => engine.ahead < Len(engine.text)
      BY <1>1 DEF Good
    <3> HIDE DEF n
    <3> QED
      BY <2>1, <2>2, <3>1, <3>2, <3>3
  <2> HIDE DEF n
  <2>5. engine \in [state : {"Direct", "Idle", "Composing", "Converting"},
                    text : BoundedSeq(Chars, n), ahead : 0 .. n, list : Lists]
    BY <2>1, <2>3, <2>4
  <2> QED
    BY <2>5 DEF n
<1>3. /\ doc.composition.context \in Contexts \cup {NoContext} /\ doc.composition.text \subseteq Chars
      /\ doc.plain \in [Chars -> Copies]
      /\ \A i \in 1 .. Len(doc.queue) : doc.queue[i] \in EditSessions
      /\ Len(doc.queue) \in 0 .. MaxQueued
      /\ doc.faults \in 0 .. MaxFaults
  <2>1. doc.queue \in Seq(EditSessions) /\ doc.composition \in Compositions
    BY <1>1, DocsAre
  <2>2. Len(doc.queue) \in 0 .. MaxQueued
    BY <1>1, <2>1, BoundsAssumption
  <2>3. doc.faults \in 0 .. MaxFaults /\ doc.plain \in [Chars -> Copies]
    BY <1>1 DEF Docs
  <2> QED
    BY <2>1, <2>2, <2>3, CompositionsAre
<1>4. doc.left \in BOOLEAN
  BY <1>1 DEF Docs
<1>5. element = NoElement \/ element \in [count : 0 .. MaxList, selected : 0 .. MaxList,
        start : 0 .. MaxList, pages : BoundedSeq(0 .. MaxList, MaxList), shown : BOOLEAN]
  BY <1>1 DEF Elements
<1>6. SettingsInv
  BY DEF IInv
<1> QED
  BY <1>2, <1>3, <1>4, <1>5, <1>6 DEF TypeOK, SettingsInv

(* Every variable keeps its type; the text of a session stays as short and *)
(* the page table as bounded as TypeOK says.                               *)
THEOREM TypeCorrect == Spec => []TypeOK
BY Inductive, SoundIsTyped, PTL

-----------------------------------------------------------------------------
(* The properties *)

(* The host shows the engine's own list and highlight, on the highlight's  *)
(* page (UiShowsTheList).                                                  *)
THEOREM ListsAgree == Spec => []UiShowsTheList
<1>1. IInv => UiShowsTheList
  BY NowIs DEF IInv, Sound, Mirrors, UiShowsTheList
<1> QED
  BY Inductive, <1>1, PTL

(* A printing key that is taken lands in the session or a document.        *)
THEOREM TypedKeysLand == Spec => []PrintingKeysLand
<1>1. ASSUME IInv
      PROVE  PrintingKeysLand
  <2> SUFFICES ASSUME NEW key \in {"Letter", "Number", "Mark"}, NEW ch \in Fresh,
                      NEW r \in OnKeyDown(focus.context, key, ch), r.eaten,
                      ~(engine.state = "Converting" /\ engine.ahead > 0), ~SessionWaits,
                      ~(r.turn.doc.faults > doc.faults), focus.context # NoContext
               PROVE  ch \in ToSet(r.turn.engine.text) \/ r.turn.doc.plain[ch] = 1
    BY DEF PrintingKeysLand
  <2>1. /\ Sound(Now) /\ Now.engine = engine /\ Now.doc = doc /\ doc \in Docs
        /\ focus.context \in Contexts \cup {NoContext}
    BY <1>1, NowIs, TurnsAre DEF IInv, Sound, SettingsInv
  <2>2. Pressed(Now, key, ch) /\ Prints(key) /\ doc.plain[ch] = 0
    BY <2>1 DEF Pressed, Prints, ServiceKeys, Keys, Fresh, Held
  <2>3. HandledAtOnce(Now, r.turn, focus.context)
    BY <2>1, <2>2, OnKeyDownIs
  <2>4. Undisturbed(doc, r.turn.doc)
    <3>1. r.turn.doc.faults \in Nat /\ doc.faults \in Nat /\ r.turn.doc.faults >= doc.faults
          /\ r.turn.doc.queue = doc.queue
      BY <2>1, <2>3, DocsAre DEF HandledAtOnce, Follows
    <3> QED
      BY <3>1 DEF Undisturbed, NoneFails, SessionWaits
  <2>5. Lands(r.turn, ch)
    BY <2>1, <2>2, <2>4, OnKeyDownIs
  <2> QED
    BY <2>5 DEF Lands
<1> QED
  BY Inductive, <1>1, PTL

(* A key that was claimed and is handed back has changed nothing.          *)
THEOREM HandedBackUnused == Spec => []ClaimedKeysActOnce
<1>1. ASSUME IInv
      PROVE  ClaimedKeysActOnce
  <2> SUFFICES ASSUME ~SessionWaits, focus.context # NoContext, NEW key \in ServiceKeys,
                      ShouldConsumeKey(key), NEW ch \in Inputs(key),
                      NEW r \in OnKeyDown(focus.context, key, ch), ~(r.turn.doc.faults > doc.faults)
               PROVE  r.eaten \/ r.turn = Now
    BY DEF ClaimedKeysActOnce
  <2>1. /\ Sound(Now) /\ Now.engine = engine /\ Now.doc = doc /\ doc \in Docs
        /\ focus.context \in Contexts \cup {NoContext}
    BY <1>1, NowIs, TurnsAre DEF IInv, Sound, SettingsInv
  <2>2. Pressed(Now, key, ch)
    BY <2>1 DEF Pressed, Inputs, Fresh, Held
  <2>3. HandledAtOnce(Now, r.turn, focus.context)
    BY <2>1, <2>2, OnKeyDownIs
  <2>4. Undisturbed(doc, r.turn.doc)
    <3>1. r.turn.doc.faults \in Nat /\ doc.faults \in Nat /\ r.turn.doc.faults >= doc.faults
          /\ r.turn.doc.queue = doc.queue
      BY <2>1, <2>3, DocsAre DEF HandledAtOnce, Follows
    <3> QED
      BY <3>1 DEF Undisturbed, NoneFails, SessionWaits
  <2>5. ~DiscardsEmptySession(key)
    BY DEF DiscardsEmptySession, ShouldConsumeKey
  <2> QED
    BY <2>1, <2>2, <2>4, <2>5, OnKeyDownIs
<1> QED
  BY Inductive, <1>1, PTL

(* Composition and session part only where an edit session waits, one has  *)
(* come late, or a call of the host fails.                                 *)
THEOREM PartingsExplained == Spec => OnlyLateSessionsPartFromEngine
<1>1. ASSUME IInv, [Next]_vars, CompositionShowsSession, ~CompositionShowsSession'
      PROVE  SessionWaits \/ SessionWaits' \/ Stranded \/ CallFails
  <2> SUFFICES ASSUME ~SessionWaits, ~SessionWaits', ~Stranded, ~CallFails
               PROVE  CompositionShowsSession'
    BY <1>1
  <2>1. Kept /\ Sound(Now) /\ Sound(Now')
    BY <1>1, SoundStep DEF Kept, IInv
  <2>2. /\ Now.doc = doc /\ Now.engine = engine /\ doc \in Docs
        /\ Now'.doc = doc' /\ Now'.engine = engine' /\ doc' \in Docs
    BY <2>1, NowIs, NowNext, TurnsAre DEF Sound
  <2>3. Undisturbed(doc, doc')
    <3>1. doc.faults \in Nat /\ doc'.faults \in Nat /\ doc'.faults >= doc.faults
      BY <2>1, <2>2, DocsAre DEF Kept
    <3> QED
      BY <3>1 DEF Undisturbed, NoneFails, SessionWaits, CallFails
  <2>4. Shown(Now, focus.context)
    <3>1. doc.composition \in Compositions
      BY <2>2, DocsAre
    <3> QED
      BY <1>1, <2>2, <3>1, CompositionsAre
         DEF Shown, CompositionShowsSession, HasComposition, Stranded
  <2>5. PICK c : Shown(Now', c)
    BY <2>1, <2>3, <2>4 DEF Kept
  <2> QED
    BY <2>2, <2>5 DEF Shown, CompositionShowsSession, HasComposition
<1>2. IInv /\ [Next]_vars =>
        [CompositionShowsSession /\ ~CompositionShowsSession' =>
           SessionWaits \/ SessionWaits' \/ Stranded \/ CallFails]_vars
  BY <1>1
<1> QED
  BY Inductive, <1>2, PTL DEF Spec, OnlyLateSessionsPartFromEngine

-----------------------------------------------------------------------------
(* Nothing typed is lost.  A typed character is saved once it stands in a  *)
(* document; the text of the composition and of the sessions that wait     *)
(* hold nothing else but what the engine still has.                        *)

Saved(d) == {ch \in Chars : d.plain[ch] > 0}

(* The composition is gone or new, and what stood in it is saved.          *)
LetGo(d, f) == f.composition.text = {} /\ d.composition.text \subseteq Saved(f)

LEMMA PutSaves ==
  ASSUME NEW d \in Docs, NEW text, NEW f, f.plain = Put(d.plain, text)
  PROVE  Saved(d) \subseteq Saved(f) /\ text \cap Chars \subseteq Saved(f)
<1>1. d.plain \in [Chars -> Copies]
  BY DocsAre
<1>2. ASSUME NEW ch \in Chars, d.plain[ch] > 0 \/ ch \in text
      PROVE  f.plain[ch] > 0
  <2>1. d.plain[ch] \in 0 .. 2
    BY <1>1 DEF Copies
  <2>2. f.plain[ch] = IF ch \in text /\ d.plain[ch] < 2 THEN d.plain[ch] + 1 ELSE d.plain[ch]
    BY DEF Put
  <2> QED
    BY <1>2, <2>1, <2>2
<1> QED
  BY <1>2 DEF Saved

LEMMA SavedAlike ==
  ASSUME NEW d, NEW f, f.plain = d.plain
  PROVE  Saved(f) = Saved(d)
BY DEF Saved

LEMMA ReleasedSaves ==
  ASSUME NEW d \in Docs
  PROVE  Saved(d) \subseteq Saved(Released(d)) /\ LetGo(d, Released(d))
<1>1. d.composition \in Compositions /\ d.composition.text \in SUBSET Chars
  BY DocsAre, CompositionsAre
<1>2. CASE ~HasComposition(d)
  BY <1>2, CompositionsAre DEF Released, HasComposition, LetGo
<1>3. CASE HasComposition(d)
  <2> DEFINE f == Released(d)
  <2>1. f.composition = NoComposition /\ f.plain = Put(d.plain, d.composition.text)
    BY <1>3 DEF Released, Docs
  <2> HIDE DEF f
  <2>2. Saved(d) \subseteq Saved(f) /\ LetGo(d, f)
    BY <1>1, <2>1, PutSaves, CompositionsAre DEF LetGo
  <2> QED
    BY <2>2 DEF f
<1> QED
  BY <1>2, <1>3

LEMMA FaultSaves ==
  ASSUME NEW d \in Docs, NEW f \in Faults(d)
  PROVE  /\ f \in Docs /\ f.composition = d.composition /\ Saved(f) = Saved(d)
         /\ f.queue = d.queue
BY FaultsAre, SavedAlike DEF Follows

LEMMA InsertTextSaves ==
  ASSUME NEW d \in Docs, NEW text \in SUBSET Chars, NEW r \in InsertText(d, text)
  PROVE  /\ Saved(d) \subseteq Saved(r.doc) /\ r.doc.composition = d.composition
         /\ r.ok => text \subseteq Saved(r.doc)
<1>1. CASE r = Ok([d EXCEPT !.plain = Put(@, text)])
  <2> DEFINE f == [d EXCEPT !.plain = Put(@, text)]
  <2>1. f.plain = Put(d.plain, text) /\ f.composition = d.composition
    BY DEF Docs
  <2>2. r.doc = f
    BY <1>1 DEF Ok
  <2> HIDE DEF f
  <2> QED
    BY <2>1, <2>2, PutSaves
<1>2. CASE \E f \in Faults(d) : r = Failed(f)
  BY <1>2, FaultSaves DEF Failed
<1> QED
  BY <1>1, <1>2 DEF InsertText

(* Committing leaves another context's composition alone and ends its own: *)
(* with the new text in its place, or with the old one left there.         *)
LEMMA CommitTextSaves ==
  ASSUME NEW d \in Docs, NEW c, NEW text \in SUBSET Chars, NEW r \in CommitText(d, c, text)
  PROVE  /\ Saved(d) \subseteq Saved(r.doc)
         /\ r.ok => text \subseteq Saved(r.doc)
         /\ IF d.composition.context = c
            THEN /\ r.doc.composition = NoComposition
                 /\ text \subseteq Saved(r.doc) \/ d.composition.text \subseteq Saved(r.doc)
            ELSE r.doc.composition = d.composition
<1>1. CASE d.composition.context # c
  <2>1. r \in InsertText(d, text)
    BY <1>1 DEF CommitText
  <2> QED
    BY <1>1, <2>1, InsertTextSaves
<1>2. ASSUME NEW f \in Docs, Saved(f) = Saved(d), NEW g, g = Ended(f, text) \/ g = [Ended(f, text) EXCEPT !.left = TRUE]
      PROVE  Saved(d) \subseteq Saved(g) /\ text \subseteq Saved(g) /\ g.composition = NoComposition
  <2>1. Ended(f, text).composition = NoComposition /\ Ended(f, text).plain = Put(f.plain, text)
    BY EndedIs
  <2>2. g.composition = NoComposition /\ g.plain = Put(f.plain, text)
    BY <1>2, <2>1 DEF Ended, Docs
  <2> QED
    BY <1>2, <2>2, PutSaves
<1>3. CASE d.composition.context = c /\ r = Ok(Ended(d, text))
  BY <1>2, <1>3 DEF Ok
<1>4. ASSUME d.composition.context = c, NEW f \in Faults(d), r = Failed([Ended(f, text) EXCEPT !.left = TRUE])
      PROVE  Saved(d) \subseteq Saved(r.doc) /\ text \subseteq Saved(r.doc) /\ r.doc.composition = NoComposition
  <2>1. f \in Docs /\ Saved(f) = Saved(d) /\ r.doc = [Ended(f, text) EXCEPT !.left = TRUE]
    BY <1>4, FaultSaves DEF Failed
  <2> QED
    BY <1>2, <2>1
<1>5. ASSUME d.composition.context = c, NEW f \in Faults(d), r \in InsertText(Released(f), text) \/ r = Failed(Released(f))
      PROVE  /\ Saved(d) \subseteq Saved(r.doc) /\ d.composition.text \subseteq Saved(r.doc)
             /\ r.doc.composition = NoComposition /\ (r.ok => text \subseteq Saved(r.doc))
  <2> DEFINE g == Released(f)
  <2>1. f \in Docs /\ Saved(f) = Saved(d) /\ f.composition = d.composition
    BY FaultSaves
  <2>2. g \in Docs /\ g.composition = NoComposition /\ Saved(d) \subseteq Saved(g)
        /\ d.composition.text \subseteq Saved(g)
    BY <2>1, ReleasedIs, ReleasedSaves DEF Follows, LetGo
  <2> HIDE DEF g
  <2>3. CASE r \in InsertText(g, text)
    BY <2>2, <2>3, InsertTextSaves
  <2>4. CASE r = Failed(g)
    BY <2>2, <2>4 DEF Failed
  <2> QED
    BY <1>5, <2>3, <2>4 DEF g
<1>6. \/ d.composition.context # c
      \/ d.composition.context = c /\ r = Ok(Ended(d, text))
      \/ d.composition.context = c /\ \E f \in Faults(d) :
           r \in InsertText(Released(f), text) \/ r = Failed(Released(f))
      \/ d.composition.context = c /\ \E f \in Faults(d) :
           r = Failed([Ended(f, text) EXCEPT !.left = TRUE])
  BY DEF CommitText
<1> QED
  BY <1>1, <1>2, <1>3, <1>4, <1>5, <1>6 DEF Ok

LEMMA EnsureActiveCompositionSaves ==
  ASSUME NEW d \in Docs, NEW c \in Contexts, NEW r \in EnsureActiveComposition(d, c)
  PROVE  /\ Saved(d) \subseteq Saved(r.doc)
         /\ r.doc.composition = d.composition \/ LetGo(d, r.doc)
<1> DEFINE here == IF d.composition.context \in {NoContext, c} THEN d ELSE Released(d)
           fresh == [here EXCEPT !.composition = [context |-> c, text |-> {}]]
           started == IF HasComposition(here) THEN here ELSE fresh
<1>1. /\ here \in Docs /\ Saved(d) \subseteq Saved(here)
      /\ here.composition = d.composition \/ LetGo(d, here)
  BY ReleasedIs, ReleasedSaves DEF Follows
<1> HIDE DEF here
<1>2. /\ started \in Docs /\ Saved(started) = Saved(here)
      /\ started.composition = d.composition \/ LetGo(d, started)
  <2>1. CASE HasComposition(here)
    BY <1>1, <2>1
  <2>2. CASE ~HasComposition(here)
    <3>1. fresh \in Docs
      <4>1. [context |-> c, text |-> {}] \in Compositions
        BY CompositionsAre
      <4> QED
        BY <1>1, <4>1 DEF Docs
    <3>2. fresh.plain = here.plain /\ fresh.composition.text = {}
      BY <1>1 DEF Docs
    <3> HIDE DEF fresh
    <3>3. Saved(fresh) = Saved(here)
      BY <3>2, SavedAlike
    <3>4. d.composition.text \subseteq Saved(here)
      BY <1>1, <2>2, CompositionsAre DEF HasComposition, LetGo
    <3> QED
      BY <2>2, <3>1, <3>2, <3>3, <3>4 DEF LetGo
  <2> QED
    BY <2>1, <2>2
<1> HIDE DEF started
<1>3. CASE r = Ok(started)
  BY <1>1, <1>2, <1>3 DEF Ok
<1>4. ASSUME NEW g \in Docs, g = started \/ g = here, NEW f \in Faults(g), r = Failed(f)
      PROVE  /\ Saved(d) \subseteq Saved(r.doc)
             /\ r.doc.composition = d.composition \/ LetGo(d, r.doc)
  <2>1. r.doc = f /\ f.composition = g.composition /\ Saved(f) = Saved(g)
    BY <1>4, FaultSaves DEF Failed
  <2> QED
    BY <1>1, <1>2, <1>4, <2>1 DEF LetGo
<1>5. \/ r = Ok(started)
      \/ \E f \in Faults(started) : r = Failed(f)
      \/ \E f \in Faults(here) : r = Failed(f)
  BY DEF EnsureActiveComposition, started, fresh, here
<1> QED
  BY <1>1, <1>2, <1>3, <1>4, <1>5

(* Updating leaves what it was asked to, or the composition as it was, or  *)
(* an empty one; what it takes away without a word is its own context's.   *)
LEMMA UpdateCompositionSaves ==
  ASSUME NEW d \in Docs, NEW c \in Contexts, NEW text \in SUBSET Chars,
         NEW r \in UpdateComposition(d, c, text)
  PROVE  /\ Saved(d) \subseteq Saved(r.doc)
         /\ r.ok => /\ r.doc.composition.context = c /\ r.doc.composition.text = text
                    /\ d.composition.context = c \/ d.composition.text \subseteq Saved(r.doc)
         /\ ~r.ok => r.doc.composition = d.composition \/ LetGo(d, r.doc)
<1> DEFINE tried == EnsureActiveComposition(d, c)
           again == UNION {EnsureActiveComposition(Released(q.doc), c) : q \in {q \in tried : ~q.ok}}
           ranges == {q \in tried : q.ok} \cup again
           Stays(f) == /\ f \in Docs /\ Saved(d) \subseteq Saved(f)
                       /\ f.composition = d.composition \/ LetGo(d, f)
<1>1. ASSUME NEW q \in tried
      PROVE  Stays(q.doc) /\ (q.ok => q.doc.composition.context = c)
  BY EnsureActiveCompositionIs, EnsureActiveCompositionSaves DEF Follows
<1>2. ASSUME NEW q \in again
      PROVE  Stays(q.doc) /\ (q.ok => q.doc.composition.context = c)
  <2>1. PICK p \in tried : ~p.ok /\ q \in EnsureActiveComposition(Released(p.doc), c)
    OBVIOUS
  <2> DEFINE g == Released(p.doc)
  <2>2. Stays(p.doc)
    BY <1>1
  <2> HIDE DEF tried, again
  <2>3. g \in Docs /\ Saved(p.doc) \subseteq Saved(g) /\ LetGo(p.doc, g)
    BY <2>2, ReleasedIs, ReleasedSaves DEF Follows
  <2>4. Saved(d) \subseteq Saved(g) /\ LetGo(d, g)
    BY <2>2, <2>3 DEF LetGo
  <2>5. q \in EnsureActiveComposition(g, c)
    BY <2>1
  <2> HIDE DEF g
  <2>6. /\ q.doc \in Docs /\ Saved(g) \subseteq Saved(q.doc)
        /\ q.doc.composition = g.composition \/ LetGo(g, q.doc)
        /\ q.ok => q.doc.composition.context = c
    BY <2>3, <2>5, EnsureActiveCompositionIs, EnsureActiveCompositionSaves DEF Follows
  <2> QED
    BY <2>4, <2>6 DEF LetGo
<1> HIDE DEF tried, again
<1>3. ASSUME NEW q \in ranges
      PROVE  Stays(q.doc) /\ (q.ok => q.doc.composition.context = c)
  BY <1>1, <1>2
<1> HIDE DEF ranges
<1>4. CASE r \in ranges /\ ~r.ok
  BY <1>3, <1>4
<1>5. ASSUME NEW q \in ranges, q.ok, r = Ok([q.doc EXCEPT !.composition.text = text])
      PROVE  /\ r.ok /\ Saved(d) \subseteq Saved(r.doc)
             /\ r.doc.composition.context = c /\ r.doc.composition.text = text
             /\ d.composition.context = c \/ d.composition.text \subseteq Saved(r.doc)
  <2>1. Stays(q.doc) /\ q.doc.composition.context = c
    BY <1>3, <1>5
  <2> DEFINE k == q.doc.composition
             l == [k EXCEPT !.text = text]
             f == [q.doc EXCEPT !.composition = l]
  <2>2. r.doc = f /\ r.ok
    BY <1>5 DEF Ok
  <2>3. l.context = c /\ l.text = text
    <3>1. k \in [context : Contexts \cup {NoContext}, text : SUBSET Chars]
      BY <2>1, DocsAre DEF Compositions
    <3> QED
      BY <2>1, <3>1
  <2> HIDE DEF l
  <2>4. f.composition = l /\ f.plain = q.doc.plain
    BY <2>1 DEF Docs
  <2> HIDE DEF f
  <2>5. Saved(f) = Saved(q.doc)
    BY <2>4, SavedAlike
  <2> QED
    BY <2>1, <2>2, <2>3, <2>4, <2>5 DEF LetGo
<1>6. ASSUME NEW q \in ranges, NEW f \in Faults(q.doc), r = Failed(f)
      PROVE  Stays(r.doc) /\ ~r.ok
  <2>1. Stays(q.doc) /\ r.doc = f /\ ~r.ok
    BY <1>3, <1>6 DEF Failed
  <2>2. f \in Docs /\ f.composition = q.doc.composition /\ Saved(f) = Saved(q.doc)
    BY <2>1, FaultSaves
  <2> QED
    BY <2>1, <2>2 DEF LetGo
<1>7. \/ r \in ranges /\ ~r.ok
      \/ \E q \in ranges : q.ok /\ r = Ok([q.doc EXCEPT !.composition.text = text])
      \/ \E q \in ranges : \E f \in Faults(q.doc) : r = Failed(f)
  BY Zenon DEF UpdateComposition, ranges, again, tried
<1> QED
  BY <1>4, <1>5, <1>6, <1>7

LEMMA ClearCompositionSaves ==
  ASSUME NEW d \in Docs, NEW r \in ClearComposition(d)
  PROVE  Saved(d) \subseteq Saved(r.doc) /\ r.doc.composition = NoComposition
<1>1. CASE ~HasComposition(d)
  BY <1>1 DEF ClearComposition, Ok, HasComposition
<1>2. ASSUME NEW f \in Docs, Saved(f) = Saved(d), NEW text,
             r.doc = Ended(f, text) \/ r.doc = [Ended(f, text) EXCEPT !.left = TRUE]
      PROVE  Saved(d) \subseteq Saved(r.doc) /\ r.doc.composition = NoComposition
  <2> DEFINE g == Ended(f, text)
  <2>1. g \in Docs /\ g.composition = NoComposition /\ g.plain = Put(f.plain, text)
    BY <1>2, EndedIs DEF Follows
  <2> HIDE DEF g
  <2>2. r.doc = g \/ r.doc = [g EXCEPT !.left = TRUE]
    BY <1>2 DEF g
  <2>3. r.doc.composition = NoComposition /\ r.doc.plain = Put(f.plain, text)
    BY <2>1, <2>2 DEF Docs
  <2> QED
    BY <1>2, <2>3, PutSaves
<1>3. \/ ~HasComposition(d)
      \/ r = Ok(Ended(d, {}))
      \/ \E f \in Faults(d) : \/ r = Failed(Ended(f, f.composition.text))
                              \/ r = Ok(Ended(f, f.composition.text))
                              \/ r = Failed([Ended(f, {}) EXCEPT !.left = TRUE])
  BY DEF ClearComposition
<1>4. CASE r = Ok(Ended(d, {}))
  BY <1>2, <1>4 DEF Ok
<1>5. ASSUME NEW f \in Faults(d), \/ r = Failed(Ended(f, f.composition.text))
                                  \/ r = Ok(Ended(f, f.composition.text))
                                  \/ r = Failed([Ended(f, {}) EXCEPT !.left = TRUE])
      PROVE  Saved(d) \subseteq Saved(r.doc) /\ r.doc.composition = NoComposition
  <2>1. f \in Docs /\ Saved(f) = Saved(d)
    BY FaultSaves
  <2>2. \/ r.doc = Ended(f, f.composition.text)
        \/ r.doc = [Ended(f, {}) EXCEPT !.left = TRUE]
    <3> DEFINE g == [Ended(f, {}) EXCEPT !.left = TRUE]
               h == Ended(f, f.composition.text)
    <3>1. r = Failed(g) \/ r = Failed(h) \/ r = Ok(h)
      BY <1>5
    <3> HIDE DEF g, h
    <3>2. r.doc = g \/ r.doc = h
      BY <3>1 DEF Failed, Ok
    <3> QED
      BY <3>2 DEF g, h
  <2> QED
    BY <1>2, <2>1, <2>2
<1> QED
  BY <1>1, <1>3, <1>4, <1>5


(* What the commits that wait, from the i-th edit session on, will put     *)
(* where `c` is; what is owed to a text there: the engine's session, or    *)
(* where that is empty a commit that waits.                                *)
CommitsWaiting(d, c, i) ==
  {ch \in Chars : \E j \in i .. Len(d.queue) :
     d.queue[j].action = "Commit" /\ d.queue[j].context = c /\ ch \in d.queue[j].text}

Owed(typed, d, c, i) == IF typed = {} THEN CommitsWaiting(d, c, i) ELSE typed

(* The session's text stands in the composition or is saved, and the       *)
(* composition's in the session; away from the focused document, where no  *)
(* key reaches it, what the composition holds is saved.                    *)
Standing(typed, d, m) ==
  /\ typed \subseteq d.composition.text \cup Saved(d)
  /\ d.composition.text \subseteq Saved(d) \cup Owed(typed, d, d.composition.context, 1)
  /\ d.composition.context # m => d.composition.text \subseteq Saved(d)

(* An edit session that waits clears nothing and takes nothing away that   *)
(* is not in its own text; an update shows no more than is there already,  *)
(* and no more than is owed by the session or by what comes after it.      *)
Waiting(typed, d, m, i) ==
  LET e == d.queue[i]
  IN /\ e.action # "Clear"
     /\ d.composition.context = e.context => d.composition.text \subseteq e.text \cup Saved(d)
     /\ e.action = "Update" =>
          /\ e.text \subseteq d.composition.text \cup Saved(d)
          /\ e.context # m => e.text \subseteq Saved(d)
          /\ e.text \subseteq Saved(d) \cup Owed(typed, d, e.context, i + 1)
          /\ \A j \in i + 1 .. Len(d.queue) :
               d.queue[j].context = e.context => e.text \subseteq d.queue[j].text \cup Saved(d)

(* `typed` is the session's text and `m` the focused document's context.   *)
Accounted(typed, d, m) ==
  Standing(typed, d, m) /\ \A i \in 1 .. Len(d.queue) : Waiting(typed, d, m, i)

(* As much of it as does not depend on the session.                        *)
Backed(d) ==
  \A i \in 1 .. Len(d.queue) :
    /\ d.queue[i].action # "Clear"
    /\ d.queue[i].action = "Update" => d.queue[i].text \subseteq d.composition.text \cup Saved(d)

LEMMA AccountedIsBacked ==
  ASSUME NEW typed, NEW d, NEW m, Accounted(typed, d, m)
  PROVE  Backed(d) /\ typed \subseteq d.composition.text \cup Saved(d)
BY DEF Accounted, Standing, Waiting, Backed

LEMMA AlikeAccounted ==
  ASSUME NEW typed, NEW d, NEW f, Alike(d, f), NEW m
  PROVE  /\ Saved(f) = Saved(d)
         /\ Accounted(typed, d, m) => Accounted(typed, f, m)
         /\ Backed(d) => Backed(f)
BY SavedAlike DEF Alike, Accounted, Standing, Waiting, Backed, Owed, CommitsWaiting

(* More is saved, and nothing else changes.                                *)
LEMMA MoreSaved ==
  ASSUME NEW typed, NEW d, NEW f, f.queue = d.queue, f.composition = d.composition,
         Saved(d) \subseteq Saved(f), NEW m, Accounted(typed, d, m)
  PROVE  Accounted(typed, f, m)
<1>1. \A c, i : Owed(typed, f, c, i) = Owed(typed, d, c, i)
  BY DEF Owed, CommitsWaiting
<1>2. Standing(typed, f, m)
  BY <1>1 DEF Accounted, Standing
<1>3. ASSUME NEW i \in 1 .. Len(f.queue)
      PROVE  Waiting(typed, f, m, i)
  <2>1. Waiting(typed, d, m, i)
    BY DEF Accounted
  <2> QED
    BY <1>1, <2>1 DEF Waiting
<1> QED
  BY <1>2, <1>3 DEF Accounted

(* Letting the composition go, and the session too if need be, leaves      *)
(* everything that was accounted for saved, whatever is focused then.      *)
LEMMA LettingGoAccounts ==
  ASSUME NEW typed, NEW d, NEW f, f.queue = d.queue, LetGo(d, f), Saved(d) \subseteq Saved(f),
         Backed(d), typed \subseteq d.composition.text \cup Saved(d), NEW m
  PROVE  Accounted(typed, f, m) /\ Accounted({}, f, m) /\ typed \subseteq Saved(f)
<1>1. f.composition.text = {} /\ d.composition.text \cup Saved(d) \subseteq Saved(f)
  BY DEF LetGo
<1>2. \A any : any \subseteq Saved(f) => Standing(any, f, m)
  BY <1>1 DEF Standing
<1>3. ASSUME NEW any, NEW i \in 1 .. Len(f.queue)
      PROVE  Waiting(any, f, m, i)
  <2>1. f.queue[i].action # "Clear" /\ (f.queue[i].action = "Update" => f.queue[i].text \subseteq Saved(f))
    BY <1>1 DEF Backed
  <2> QED
    BY <1>1, <2>1 DEF Waiting
<1> QED
  BY <1>1, <1>2, <1>3 DEF Accounted

(* What a session has left in the end of one that its output asks for.   *)
LeftBy(e) == IF e.action = "Update" THEN e.text ELSE {}

(* An edit session that is granted in the focused document, or where none  *)
(* is focused: no other waits there, and those elsewhere show only what is *)
(* saved.  Where it fails the session may be taken back.                   *)
LEMMA AppliedAccounts ==
  ASSUME NEW d \in Docs, NEW typed, NEW m, Accounted(typed, d, m), NEW e \in EditSessions,
         ~Waits(d, e.context), e.context = m \/ (m = NoContext /\ e.text \subseteq Saved(d)),
         e.action = "Clear" => e.text = {},
         NEW r \in ApplyEngineOutput(d, e)
  PROVE  /\ Saved(d) \subseteq Saved(r.doc) /\ Backed(r.doc)
         /\ r.ok => /\ Accounted(LeftBy(e), r.doc, m)
                    /\ typed \subseteq e.text => typed \subseteq LeftBy(e) \cup Saved(r.doc)
         /\ ~r.ok /\ typed \subseteq e.text => Accounted(typed, r.doc, m)
<1> USE DEF LeftBy
<1> DEFINE f == r.doc
           text == d.composition.text
           c == e.context
           q == d.queue
<1>1. /\ f.queue = q /\ q \in Seq(EditSessions) /\ Len(q) \in Nat
      /\ c \in Contexts /\ c # NoContext /\ e.text \in SUBSET Chars
      /\ e.action \in {"Update", "Clear", "Commit"}
      /\ d.composition \in Compositions
  <2>1. Follows(d, f)
    BY ApplyEngineOutputIs
  <2>2. e.context \in Contexts /\ e.text \in SUBSET Chars /\ e.action \in {"Update", "Clear", "Commit"}
    BY DEF EditSessions
  <2> QED
    BY <2>1, <2>2, DocsAre, BoundsAssumption DEF Follows
<1> HIDE DEF f
<1>2. /\ typed \subseteq text \cup Saved(d)
      /\ text \subseteq Saved(d) \cup Owed(typed, d, d.composition.context, 1)
      /\ d.composition.context # c => text \subseteq Saved(d)
  <2>1. d.composition.context # c => d.composition.context # m \/ text = {}
    BY <1>1, CompositionsAre
  <2> QED
    BY <2>1 DEF Accounted, Standing
<1>3. ASSUME NEW i \in 1 .. Len(q)
      PROVE  /\ q[i].action # "Clear" /\ q[i].context # c
             /\ q[i].action = "Update" => q[i].text \subseteq Saved(d)
             /\ d.composition.context = q[i].context => text \subseteq q[i].text \cup Saved(d)
  <2>1. q[i] \in EditSessions
    BY <1>1
  <2>2. q[i].context # c /\ q[i].context \in Contexts
    BY <2>1 DEF Waits, EditSessions
  <2>3. q[i].context # m
    BY <2>2, BoundsAssumption
  <2>4. Waiting(typed, d, m, i)
    BY DEF Accounted
  <2> QED
    BY <2>2, <2>3, <2>4 DEF Waiting
<1> HIDE DEF q
<1>4. ASSUME Saved(d) \subseteq Saved(f),
             \/ f.composition.text = {} \/ f.composition = d.composition \/ f.composition.context = c
      PROVE  Backed(f) /\ \A any : \A i \in 1 .. Len(f.queue) : Waiting(any, f, m, i)
  <2>1. ASSUME NEW any, NEW i \in 1 .. Len(q)
        PROVE  Waiting(any, f, m, i)
    <3>1. f.composition.context = q[i].context => f.composition.text \subseteq q[i].text \cup Saved(f)
      BY <1>3, <1>4
    <3> QED
      BY <1>1, <1>3, <1>4, <3>1 DEF Waiting
  <2> QED
    BY <1>1, <1>3, <1>4, <2>1 DEF Backed
<1>5. \A any : f.composition.text = {} /\ any \subseteq Saved(f) => Standing(any, f, m)
  BY DEF Standing
<1>6. ASSUME f.composition = d.composition, Saved(d) \subseteq Saved(f)
      PROVE  Standing(typed, f, m)
  <2>1. Owed(typed, f, c, 1) = Owed(typed, d, c, 1)
        /\ Owed(typed, f, d.composition.context, 1) = Owed(typed, d, d.composition.context, 1)
    BY <1>1 DEF Owed, CommitsWaiting, q
  <2> QED
    BY <1>6, <2>1 DEF Accounted, Standing
<1>7. CASE e.action = "Commit"
  <2>1. r \in CommitText(d, c, e.text) /\ LeftBy(e) = {}
    BY <1>7 DEF ApplyEngineOutput
  <2>2. /\ Saved(d) \subseteq Saved(f)
        /\ r.ok => e.text \subseteq Saved(f)
        /\ IF d.composition.context = c
           THEN /\ f.composition = NoComposition
                /\ e.text \subseteq Saved(f) \/ text \subseteq Saved(f)
           ELSE f.composition = d.composition
    BY <1>1, <2>1, CommitTextSaves DEF f
  <2>3. Backed(f) /\ \A any : \A i \in 1 .. Len(f.queue) : Waiting(any, f, m, i)
    BY <1>4, <2>2, CompositionsAre
  <2>4. r.ok => Standing({}, f, m)
    <3>1. CASE d.composition.context = c
      BY <1>5, <2>2, <3>1, CompositionsAre
    <3>2. CASE d.composition.context # c
      BY <1>2, <2>2, <3>2 DEF Standing
    <3> QED
      BY <3>1, <3>2
  <2>5. typed \subseteq e.text => Standing(typed, f, m)
    <3>1. CASE d.composition.context = c
      <4>1. typed \subseteq e.text => typed \subseteq Saved(f)
        BY <1>2, <2>2, <3>1
      <4> QED
        BY <1>5, <2>2, <3>1, <4>1, CompositionsAre
    <3>2. CASE d.composition.context # c
      BY <1>6, <2>2, <3>2
    <3> QED
      BY <3>1, <3>2
  <2> QED
    BY <2>1, <2>2, <2>3, <2>4, <2>5 DEF Accounted, f
<1>8. CASE e.action = "Update"
  <2>1. r \in UpdateComposition(d, c, e.text) /\ LeftBy(e) = e.text
    BY <1>8 DEF ApplyEngineOutput
  <2>2. /\ Saved(d) \subseteq Saved(f)
        /\ r.ok => f.composition.context = c /\ f.composition.text = e.text
        /\ ~r.ok => f.composition = d.composition \/ LetGo(d, f)
    BY <1>1, <2>1, UpdateCompositionSaves DEF f
  <2>3. Backed(f) /\ \A any : \A i \in 1 .. Len(f.queue) : Waiting(any, f, m, i)
    BY <1>4, <2>2 DEF LetGo
  <2>4. r.ok => Standing(e.text, f, m)
    <3>1. r.ok => e.text \subseteq Saved(f) \cup Owed(e.text, f, f.composition.context, 1)
      BY DEF Owed
    <3> QED
      BY <2>2, <3>1 DEF Standing
  <2>5. ~r.ok => Standing(typed, f, m)
    BY <1>2, <1>5, <1>6, <2>2 DEF LetGo
  <2> QED
    BY <2>1, <2>2, <2>3, <2>4, <2>5 DEF Accounted, f
<1>9. CASE e.action = "Clear"
  <2>1. r \in ClearComposition(d) /\ LeftBy(e) = {}
    BY <1>9 DEF ApplyEngineOutput
  <2>2. Saved(d) \subseteq Saved(f) /\ f.composition.text = {}
    BY <2>1, ClearCompositionSaves, CompositionsAre DEF f
  <2>3. Backed(f) /\ \A any : \A i \in 1 .. Len(f.queue) : Waiting(any, f, m, i)
    BY <1>4, <2>2
  <2>4. Standing({}, f, m) /\ e.text = {}
    BY <1>5, <1>9, <2>2
  <2> QED
    BY <2>1, <2>2, <2>3, <2>4 DEF Accounted, f
<1> QED
  BY <1>1, <1>7, <1>8, <1>9


(* What the edit sessions that wait have in them.                          *)
OnItsWay(d) == {ch \in Chars : \E i \in 1 .. Len(d.queue) : ch \in d.queue[i].text}

Deferred(d, e) == [d EXCEPT !.queue = Append(@, e)]

(* An edit session that the host keeps owes what the session had.          *)
LEMMA QueuedAccounts ==
  ASSUME NEW d \in Docs, NEW typed, typed # {}, NEW m, Accounted(typed, d, m),
         NEW e \in EditSessions, e.action # "Clear", e.context = m \/ m = NoContext,
         typed \subseteq e.text, e.action = "Update" => e.text = typed,
         NEW f, f = Deferred(d, e)
  PROVE  /\ Saved(f) = Saved(d) /\ Accounted(LeftBy(e), f, m)
         /\ typed \subseteq OnItsWay(f)
<1> USE DEF LeftBy, Deferred
<1> DEFINE q == d.queue
           n == Len(q)
           text == d.composition.text
           c == e.context
<1>1. /\ q \in Seq(EditSessions) /\ n \in Nat /\ d.composition \in Compositions
      /\ c \in Contexts /\ c # NoContext /\ e.text \in SUBSET Chars
      /\ e.action \in {"Update", "Commit"}
  <2>1. c \in Contexts /\ e.text \in SUBSET Chars /\ e.action \in {"Update", "Clear", "Commit"}
    BY DEF EditSessions
  <2> QED
    BY <2>1, DocsAre, BoundsAssumption
<1>2. /\ f.composition = d.composition /\ Saved(f) = Saved(d)
      /\ f.queue = Append(q, e)
  BY SavedAlike DEF Docs
<1>3. /\ Len(f.queue) = n + 1 /\ f.queue[n + 1] = e
      /\ \A i \in 1 .. n : f.queue[i] = q[i]
  BY <1>1, <1>2
<1> HIDE DEF q, n
<1>4. /\ typed \subseteq text \cup Saved(d) /\ text \subseteq Saved(d) \cup typed
      /\ d.composition.context # m => text \subseteq Saved(d)
      /\ d.composition.context # c => text \subseteq Saved(d)
  <2>1. d.composition.context # c => d.composition.context # m \/ text = {}
    BY <1>1, CompositionsAre
  <2> QED
    BY <2>1 DEF Accounted, Standing, Owed
<1>5. ASSUME NEW i \in 1 .. n
      PROVE  /\ q[i].action # "Clear"
             /\ d.composition.context = q[i].context => text \subseteq q[i].text \cup Saved(d)
             /\ q[i].action = "Update" =>
                  /\ q[i].text \subseteq text \cup Saved(d)
                  /\ q[i].context # m => q[i].text \subseteq Saved(d)
                  /\ q[i].context # c => q[i].text \subseteq Saved(d)
                  /\ q[i].text \subseteq Saved(d) \cup typed
                  /\ \A j \in i + 1 .. n :
                       q[j].context = q[i].context => q[i].text \subseteq q[j].text \cup Saved(d)
  <2>1. q[i] \in EditSessions
    BY <1>1 DEF n
  <2>2. q[i].context # NoContext
    BY <2>1, BoundsAssumption DEF EditSessions
  <2>3. Waiting(typed, d, m, i)
    BY DEF Accounted, n, q
  <2> QED
    BY <2>2, <2>3 DEF Waiting, Owed, n, q
<1>6. \A i \in 1 .. n + 1 : typed \subseteq Owed(LeftBy(e), f, c, i)
  <2> TAKE i \in 1 .. n + 1
  <2>1. CASE e.action = "Update"
    BY <2>1 DEF Owed
  <2>2. CASE e.action = "Commit"
    <3>1. n + 1 \in i .. Len(f.queue)
      BY <1>1, <1>3
    <3>2. e.text \subseteq CommitsWaiting(f, c, i)
      BY <1>1, <1>3, <2>2, <3>1 DEF CommitsWaiting
    <3> QED
      BY <2>2, <3>2 DEF Owed
  <2> QED
    BY <1>1, <2>1, <2>2
<1>7. Standing(LeftBy(e), f, m)
  <2>1. 1 \in 1 .. n + 1
    BY <1>1
  <2>2. text \subseteq Saved(d) \cup Owed(LeftBy(e), f, d.composition.context, 1)
    BY <1>4, <1>6, <2>1
  <2> QED
    BY <1>1, <1>2, <1>4, <2>2 DEF Standing
<1>8. ASSUME NEW i \in 1 .. n
      PROVE  Waiting(LeftBy(e), f, m, i)
  <2>1. f.queue[i] = q[i] /\ i + 1 \in 1 .. n + 1
    BY <1>1, <1>3
  <2>2. q[i].action = "Update" => q[i].text \subseteq Saved(d) \cup Owed(LeftBy(e), f, q[i].context, i + 1)
    BY <1>5, <1>6, <2>1
  <2>3. ASSUME q[i].action = "Update", NEW j \in i + 1 .. Len(f.queue), f.queue[j].context = q[i].context
        PROVE  q[i].text \subseteq f.queue[j].text \cup Saved(d)
    <3>1. CASE j \in i + 1 .. n
      <4>1. f.queue[j] = q[j]
        BY <1>1, <1>3, <3>1
      <4> QED
        BY <1>5, <2>3, <3>1, <4>1
    <3>2. CASE j = n + 1
      BY <1>3, <1>5, <2>3, <3>2
    <3> QED
      BY <1>1, <1>3, <3>1, <3>2
  <2> QED
    BY <1>2, <1>5, <2>1, <2>2, <2>3 DEF Waiting
<1>9. Waiting(LeftBy(e), f, m, n + 1)
  <2>1. e.action = "Update" => e.text \subseteq Owed(LeftBy(e), f, c, n + 2)
    BY DEF Owed
  <2>2. n + 1 + 1 .. Len(f.queue) = {} /\ n + 1 + 1 = n + 2
    BY <1>1, <1>3
  <2>3. e.action = "Update" /\ c # m => e.text \subseteq Saved(d)
    <3>1. e.action = "Update" /\ c # m => m = NoContext /\ (d.composition.context # m \/ text = {})
      BY <1>1, CompositionsAre
    <3> QED
      BY <1>4, <3>1
  <2> QED
    BY <1>1, <1>2, <1>3, <1>4, <2>1, <2>2, <2>3 DEF Waiting
<1>10. Accounted(LeftBy(e), f, m)
  <2>1. \A i \in 1 .. Len(f.queue) : i \in 1 .. n \/ i = n + 1
    BY <1>1, <1>3
  <2> QED
    BY <1>7, <1>8, <1>9, <2>1 DEF Accounted
<1>11. typed \subseteq OnItsWay(f)
  <2>1. n + 1 \in 1 .. Len(f.queue)
    BY <1>1, <1>3
  <2> QED
    BY <1>1, <1>3, <2>1 DEF OnItsWay
<1> QED
  BY <1>2, <1>10, <1>11

(* The host runs the first of the edit sessions it has kept; the engine    *)
(* does not hear of it.                                                    *)
LEMMA RunAccounts ==
  ASSUME NEW d \in Docs, NEW typed, NEW m, Accounted(typed, d, m), d.queue # <<>>,
         NEW r \in ApplyEngineOutput([d EXCEPT !.queue = Tail(@)], Head(d.queue))
  PROVE  Accounted(typed, r.doc, m) /\ Saved(d) \subseteq Saved(r.doc)
<1> DEFINE q == d.queue
           n == Len(q)
           e == Head(q)
           g == [d EXCEPT !.queue = Tail(q)]
           f == r.doc
           text == d.composition.text
           c == e.context
<1>1. /\ q \in Seq(EditSessions) /\ n \in Nat /\ n >= 1 /\ d.composition \in Compositions
      /\ e = q[1] /\ e \in EditSessions /\ Tail(q) \in Seq(EditSessions)
      /\ Len(Tail(q)) = n - 1 /\ \A i \in 1 .. n - 1 : Tail(q)[i] = q[i + 1]
  BY DocsAre
<1>2. /\ c \in Contexts /\ c # NoContext /\ e.text \in SUBSET Chars
      /\ e.action \in {"Update", "Clear", "Commit"}
  BY <1>1, BoundsAssumption DEF EditSessions
<1>3. /\ g \in Docs /\ g.queue = Tail(q) /\ g.composition = d.composition /\ Saved(g) = Saved(d)
  <2>1. g \in Docs
    BY <1>1 DEF Docs
  <2>2. g.queue = Tail(q) /\ g.composition = d.composition /\ g.plain = d.plain
    BY DEF Docs
  <2> HIDE DEF g
  <2> QED
    BY <2>1, <2>2, SavedAlike
<1>4. r \in ApplyEngineOutput(g, e)
  OBVIOUS
<1> HIDE DEF e, g, f
<1>5. f.queue = Tail(q)
  BY <1>1, <1>3, <1>4, ApplyEngineOutputIs DEF Follows, f
<1> HIDE DEF q, n
<1>6. /\ Len(f.queue) = n - 1
      /\ \A i \in 1 .. n - 1 : f.queue[i] = q[i + 1] /\ i + 1 \in 1 .. n
  BY <1>1, <1>5
<1>7. \A k : \A i \in 1 .. n : Owed(typed, d, k, i + 1) = Owed(typed, f, k, i)
  <2> SUFFICES ASSUME NEW k, NEW i \in 1 .. n
               PROVE  CommitsWaiting(d, k, i + 1) = CommitsWaiting(f, k, i)
    BY DEF Owed
  <2>1. ASSUME NEW ch \in Chars, NEW j \in i + 1 .. n, q[j].action = "Commit", q[j].context = k,
               ch \in q[j].text
        PROVE  \E l \in i .. n - 1 : f.queue[l].action = "Commit" /\ f.queue[l].context = k
                                     /\ ch \in f.queue[l].text
    <3>1. j - 1 \in i .. n - 1 /\ j - 1 \in 1 .. n - 1 /\ (j - 1) + 1 = j
      BY <1>1
    <3>2. f.queue[j - 1] = q[j]
      BY <1>6, <3>1
    <3> QED
      BY <2>1, <3>1, <3>2
  <2>2. ASSUME NEW ch \in Chars, NEW l \in i .. n - 1, f.queue[l].action = "Commit",
               f.queue[l].context = k, ch \in f.queue[l].text
        PROVE  \E j \in i + 1 .. n : q[j].action = "Commit" /\ q[j].context = k /\ ch \in q[j].text
    <3>1. l + 1 \in i + 1 .. n /\ l \in 1 .. n - 1
      BY <1>1
    <3> QED
      BY <1>6, <2>2, <3>1
  <2> QED
    BY <1>6, <2>1, <2>2 DEF CommitsWaiting, q, n
<1>8. ASSUME NEW k, e.action # "Commit" \/ k # c
      PROVE  Owed(typed, d, k, 1) = Owed(typed, f, k, 1)
  <2>1. CommitsWaiting(d, k, 1) = CommitsWaiting(d, k, 1 + 1)
    <3>1. \A j \in 1 .. n : j = 1 \/ j \in 1 + 1 .. n
      BY <1>1
    <3>2. \A j \in 1 + 1 .. n : j \in 1 .. n
      BY <1>1
    <3>3. ~(q[1].action = "Commit" /\ q[1].context = k)
      BY <1>1, <1>8
    <3> QED
      BY <3>1, <3>2, <3>3 DEF CommitsWaiting, q, n
  <2>2. 1 \in 1 .. n
    BY <1>1
  <2>3. Owed(typed, d, k, 1) = Owed(typed, d, k, 1 + 1)
    BY <2>1 DEF Owed
  <2> QED
    BY <1>7, <2>2, <2>3
<1>9. /\ typed \subseteq text \cup Saved(d)
      /\ text \subseteq Saved(d) \cup Owed(typed, d, d.composition.context, 1)
      /\ d.composition.context # m => text \subseteq Saved(d)
  BY DEF Accounted, Standing
<1>10. /\ e.action # "Clear"
       /\ d.composition.context = c => text \subseteq e.text \cup Saved(d)
       /\ e.action = "Update" =>
            /\ e.text \subseteq text \cup Saved(d)
            /\ c # m => e.text \subseteq Saved(d)
            /\ e.text \subseteq Saved(d) \cup Owed(typed, f, c, 1)
            /\ \A j \in 2 .. n : q[j].context = c => e.text \subseteq q[j].text \cup Saved(d)
  <2>1. 1 \in 1 .. n /\ 1 + 1 = 2
    BY <1>1
  <2>2. Waiting(typed, d, m, 1)
    BY <2>1 DEF Accounted, n, q
  <2> QED
    BY <1>1, <1>7, <2>1, <2>2 DEF Waiting, n, q
<1>11. ASSUME Saved(d) \subseteq Saved(f), text \subseteq f.composition.text \cup Saved(f),
              \A i \in 2 .. n : f.composition.context = q[i].context =>
                                  f.composition.text \subseteq q[i].text \cup Saved(f)
       PROVE  \A i \in 1 .. Len(f.queue) : Waiting(typed, f, m, i)
  <2> TAKE i \in 1 .. Len(f.queue)
  <2>1. i \in 1 .. n - 1 /\ i \in 1 .. n /\ i + 1 \in 1 .. n /\ i + 1 \in 2 .. n /\ f.queue[i] = q[i + 1]
    BY <1>1, <1>6
  <2>2. Waiting(typed, d, m, i + 1)
    BY <2>1 DEF Accounted, n, q
  <2>3. Owed(typed, d, q[i + 1].context, i + 1 + 1) = Owed(typed, f, q[i + 1].context, i + 1)
    BY <1>7, <2>1
  <2>4. ASSUME q[i + 1].action = "Update", NEW j \in i + 1 .. Len(f.queue),
               f.queue[j].context = q[i + 1].context
        PROVE  q[i + 1].text \subseteq f.queue[j].text \cup Saved(f)
    <3>1. j \in 1 .. n - 1 /\ j + 1 \in i + 1 + 1 .. n
      BY <1>1, <1>6
    <3> QED
      BY <1>6, <1>11, <2>2, <2>4, <3>1 DEF Waiting, n, q
  <2> QED
    BY <1>11, <2>1, <2>2, <2>3, <2>4 DEF Waiting, q
<1>12. CASE e.action = "Commit"
  <2>1. r \in CommitText(g, c, e.text)
    BY <1>4, <1>12 DEF ApplyEngineOutput
  <2>2. /\ Saved(d) \subseteq Saved(f)
        /\ IF d.composition.context = c
           THEN f.composition = NoComposition /\ text \subseteq Saved(f)
           ELSE f.composition = d.composition
    BY <1>2, <1>3, <1>10, <2>1, CommitTextSaves DEF f
  <2>3. \A i \in 1 .. Len(f.queue) : Waiting(typed, f, m, i)
    <3>1. ASSUME NEW i \in 2 .. n, d.composition.context = q[i].context
          PROVE  text \subseteq q[i].text \cup Saved(d)
      <4>1. Waiting(typed, d, m, i)
        <5>1. i \in 1 .. n
          BY <1>1
        <5> QED
          BY <5>1 DEF Accounted, n, q
      <4> QED
        BY <3>1, <4>1 DEF Waiting, q
    <3> QED
      BY <1>11, <2>2, <3>1, CompositionsAre
  <2>4. Standing(typed, f, m)
    <3>1. CASE d.composition.context = c
      BY <1>9, <2>2, <3>1, CompositionsAre DEF Standing
    <3>2. CASE d.composition.context # c
      BY <1>8, <1>9, <2>2, <3>2 DEF Standing
    <3> QED
      BY <3>1, <3>2
  <2> QED
    BY <2>2, <2>3, <2>4 DEF Accounted, f
<1>13. CASE e.action = "Update"
  <2>1. r \in UpdateComposition(g, c, e.text)
    BY <1>4, <1>13 DEF ApplyEngineOutput
  <2>2. /\ Saved(d) \subseteq Saved(f)
        /\ r.ok => /\ f.composition.context = c /\ f.composition.text = e.text
                   /\ d.composition.context = c \/ text \subseteq Saved(f)
        /\ ~r.ok => f.composition = d.composition \/ LetGo(d, f)
    BY <1>2, <1>3, <2>1, UpdateCompositionSaves DEF f, LetGo
  <2>3. CASE r.ok
    <3>1. text \subseteq f.composition.text \cup Saved(f)
      BY <1>10, <2>2, <2>3
    <3>2. \A i \in 2 .. n : f.composition.context = q[i].context =>
                              f.composition.text \subseteq q[i].text \cup Saved(f)
      BY <1>10, <1>13, <2>2, <2>3
    <3>3. Standing(typed, f, m)
      BY <1>9, <1>10, <1>13, <2>2, <2>3, <3>1 DEF Standing
    <3> QED
      BY <1>11, <2>2, <3>1, <3>2, <3>3 DEF Accounted, f
  <2>4. CASE f.composition = d.composition
    <3>1. ASSUME NEW i \in 2 .. n, d.composition.context = q[i].context
          PROVE  text \subseteq q[i].text \cup Saved(d)
      <4>1. Waiting(typed, d, m, i)
        <5>1. i \in 1 .. n
          BY <1>1
        <5> QED
          BY <5>1 DEF Accounted, n, q
      <4> QED
        BY <3>1, <4>1 DEF Waiting, q
    <3>2. \A i \in 1 .. Len(f.queue) : Waiting(typed, f, m, i)
      BY <1>11, <2>2, <2>4, <3>1
    <3>3. Standing(typed, f, m)
      BY <1>8, <1>9, <1>13, <2>2, <2>4 DEF Standing
    <3> QED
      BY <2>2, <3>2, <3>3 DEF Accounted, f
  <2>5. CASE LetGo(d, f)
    <3>1. \A i \in 1 .. Len(f.queue) : Waiting(typed, f, m, i)
      BY <1>11, <2>2, <2>5 DEF LetGo
    <3>2. Standing(typed, f, m)
      BY <1>9, <2>2, <2>5 DEF Standing, LetGo
    <3> QED
      BY <2>2, <3>1, <3>2 DEF Accounted, f
  <2> QED
    BY <2>2, <2>3, <2>4, <2>5
<1> QED
  BY <1>2, <1>10, <1>12, <1>13


(* A request, granted at once or kept for later.  One the host may keep is *)
(* made of the session's own text.                                         *)
LEMMA RequestAccounts ==
  ASSUME NEW d \in Docs, NEW typed, NEW m, Accounted(typed, d, m), NEW e \in EditSessions,
         e.context = m \/ (m = NoContext /\ e.text \subseteq Saved(d)),
         e.action = "Clear" => e.text = {}, NEW synchronous \in BOOLEAN,
         ~synchronous => typed # {} /\ e.text = typed /\ e.action # "Clear",
         NEW r \in RequestEditSession(d, e, synchronous)
  PROVE  /\ Backed(r.doc) /\ Saved(d) \subseteq Saved(r.doc) /\ OnItsWay(d) \subseteq OnItsWay(r.doc)
         /\ r.ok => /\ Accounted(LeftBy(e), r.doc, m)
                    /\ typed \subseteq e.text =>
                         typed \subseteq LeftBy(e) \cup Saved(r.doc) \cup OnItsWay(r.doc)
         /\ ~r.ok /\ typed \subseteq e.text => Accounted(typed, r.doc, m)
<1>1. ASSUME NEW f \in Faults(d) \cup {d}, r = Failed(f)
      PROVE  /\ ~r.ok /\ Accounted(typed, r.doc, m) /\ Saved(d) \subseteq Saved(r.doc)
             /\ OnItsWay(d) \subseteq OnItsWay(r.doc)
  <2>1. Alike(d, f)
    BY FaultsAre DEF Alike, Follows
  <2>2. r.doc = f /\ ~r.ok
    BY <1>1 DEF Failed
  <2> QED
    BY <2>1, <2>2, AlikeAccounted DEF Alike, OnItsWay
<1>2. ASSUME ~Waits(d, e.context), r \in ApplyEngineOutput(d, e)
      PROVE  /\ Backed(r.doc) /\ Saved(d) \subseteq Saved(r.doc) /\ OnItsWay(d) \subseteq OnItsWay(r.doc)
             /\ r.ok => /\ Accounted(LeftBy(e), r.doc, m)
                        /\ typed \subseteq e.text => typed \subseteq LeftBy(e) \cup Saved(r.doc)
             /\ ~r.ok /\ typed \subseteq e.text => Accounted(typed, r.doc, m)
  <2>1. r.doc.queue = d.queue
    BY <1>2, ApplyEngineOutputIs DEF Follows
  <2>2. OnItsWay(d) \subseteq OnItsWay(r.doc)
    BY <2>1 DEF OnItsWay
  <2> QED
    BY <1>2, <2>2, AppliedAccounts
<1>3. ASSUME ~synchronous, r \in Queued(d, e)
      PROVE  /\ Accounted(LeftBy(e), r.doc, m) /\ Saved(r.doc) = Saved(d) /\ typed \subseteq OnItsWay(r.doc)
             /\ OnItsWay(d) \subseteq OnItsWay(r.doc) /\ r.ok
  <2> DEFINE f == Deferred(d, e)
  <2>1. r.doc = f /\ r.ok
    BY <1>3 DEF Queued, Ok, Deferred
  <2>2. f.queue = Append(d.queue, e) /\ d.queue \in Seq(EditSessions)
    BY DocsAre DEF Docs, Deferred
  <2>3. /\ typed # {} /\ typed \subseteq e.text /\ e.action # "Clear"
        /\ e.context = m \/ m = NoContext
        /\ e.action = "Update" => e.text = typed
    BY <1>3
  <2>4. Accounted(LeftBy(e), f, m) /\ Saved(f) = Saved(d) /\ typed \subseteq OnItsWay(f)
    BY <2>3, QueuedAccounts
  <2> HIDE DEF f
  <2>5. \A i \in 1 .. Len(d.queue) : i \in 1 .. Len(f.queue) /\ f.queue[i] = d.queue[i]
    BY <2>2
  <2>6. OnItsWay(d) \subseteq OnItsWay(f)
    BY <2>5 DEF OnItsWay
  <2> QED
    BY <2>1, <2>4, <2>6
<1>4. \/ \E f \in Faults(d) \cup {d} : r = Failed(f)
      \/ ~Waits(d, e.context) /\ r \in ApplyEngineOutput(d, e)
      \/ ~synchronous /\ r \in Queued(d, e)
  BY DEF RequestEditSession
<1> QED
  BY <1>1, <1>2, <1>3, <1>4, AccountedIsBacked

(* Of a turn: what its session, its documents and its waiting edit         *)
(* sessions hold is accounted for; a handler that is to keep everything    *)
(* keeps it somewhere.                                                     *)
TextIn(t) == ToSet(t.engine.text)
Accounts(t, m) == Accounted(TextIn(t), t.doc, m)
Everywhere(t) == TextIn(t) \cup Saved(t.doc) \cup OnItsWay(t.doc)
Preserves(t, u, m, all) == Accounts(u, m) /\ (all => Everywhere(t) \subseteq Everywhere(u))

LEMMA PreservesOn ==
  ASSUME NEW t, NEW u, NEW v, NEW m, NEW all, Preserves(t, u, m, all), Preserves(u, v, m, all)
  PROVE  Preserves(t, v, m, all)
BY DEF Preserves

LEMMA PreservesNothingNew ==
  ASSUME NEW t, NEW u, u.engine.text = t.engine.text, Alike(t.doc, u.doc), NEW m, Accounts(t, m), NEW all
  PROVE  Preserves(t, u, m, all)
<1>1. TextIn(u) = TextIn(t) /\ Saved(u.doc) = Saved(t.doc) /\ OnItsWay(u.doc) = OnItsWay(t.doc)
  BY AlikeAccounted DEF TextIn, OnItsWay, Alike
<1>2. Accounts(u, m)
  BY <1>1, AlikeAccounted DEF Accounts
<1> QED
  BY <1>1, <1>2 DEF Preserves, Everywhere

(* An output leaves a session with a text only where it updates.           *)
Leaves(o) == o.action # "Update" => o.session.text = <<>>
Whole(t, o) == TextIn(t) \subseteq ToSet(TextOf(o))

LEMMA ProperLeaves ==
  ASSUME NEW s, NEW o, Proper(s, o)
  PROVE  Leaves(o)
<1>1. \A state : Empty(state).text = <<>>
  BY DEF Empty
<1>2. CASE o.action = "Commit"
  BY <1>1, <1>2 DEF Proper, Leaves
<1>3. CASE o.action = "Clear"
  <2>1. o.session = Empty(o.session.state)
    BY <1>3 DEF Proper, Good, IsOpen, Sessions
  <2> QED
    BY <1>1, <2>1 DEF Leaves
<1> QED
  BY <1>2, <1>3 DEF Leaves, Proper

LEMMA DispatchAccounts ==
  ASSUME NEW t, Sound(t), NEW m, Accounts(t, m), NEW c \in Contexts, NEW o, Ready(o), Leaves(o),
         c = m \/ (m = NoContext /\ ToSet(TextOf(o)) \subseteq Saved(t.doc)),
         NEW synchronous \in BOOLEAN,
         ~synchronous => TextIn(t) # {} /\ ToSet(TextOf(o)) = TextIn(t) /\ o.action # "Clear",
         NEW r \in DispatchEngineOutput(t, c, o, synchronous)
  PROVE  /\ Backed(r.turn.doc) /\ Saved(t.doc) \subseteq Saved(r.turn.doc)
         /\ OnItsWay(t.doc) \subseteq OnItsWay(r.turn.doc)
         /\ r.ok => Preserves(t, r.turn, m, Whole(t, o))
         /\ ~r.ok /\ Whole(t, o) => Accounted(TextIn(t), r.turn.doc, m)
<1> DEFINE e == Edit(c, o)
           left == LeftBy(e)
           moved == [t EXCEPT !.engine = o.session]
<1>1. t \in Turns /\ t.doc \in Docs /\ o.session \in Sessions
  BY TurnsAre DEF Sound, Ready, Good
<1>2. moved \in Turns /\ moved.engine = o.session
  BY <1>1, TurnsAre
<1>3. PICK q \in RequestEditSession(t.doc, e, synchronous) :
        r \in IF q.ok THEN {Done(u) : u \in UpdateCandidateUi([moved EXCEPT !.doc = q.doc])}
              ELSE {Undone([moved EXCEPT !.doc = q.doc])}
  BY DEF DispatchEngineOutput, Edit
<1>4. /\ e \in EditSessions /\ e.context = c /\ e.action = o.action /\ e.text = ToSet(TextOf(o))
      /\ o.action \in {"Update", "Clear", "Commit"}
  BY EditsAre DEF Ready
<1> HIDE DEF e
<1>5. e.action = "Clear" => e.text = {}
  BY <1>4, EmptyText DEF Leaves, TextOf
<1>6. left = ToSet(o.session.text)
  BY <1>4, EmptyText DEF Leaves, TextOf, LeftBy
<1>7. q.doc \in Docs
  BY <1>1, <1>3, <1>4, RequestEditSessionIs DEF Keeps
<1>8. /\ Backed(q.doc) /\ Saved(t.doc) \subseteq Saved(q.doc) /\ OnItsWay(t.doc) \subseteq OnItsWay(q.doc)
      /\ q.ok => /\ Accounted(left, q.doc, m)
                 /\ TextIn(t) \subseteq e.text =>
                      TextIn(t) \subseteq left \cup Saved(q.doc) \cup OnItsWay(q.doc)
      /\ ~q.ok /\ TextIn(t) \subseteq e.text => Accounted(TextIn(t), q.doc, m)
  <2>1. e.context = m \/ (m = NoContext /\ e.text \subseteq Saved(t.doc))
    BY <1>4
  <2>2. ~synchronous => TextIn(t) # {} /\ e.text = TextIn(t) /\ e.action # "Clear"
    BY <1>4
  <2>4. Accounted(TextIn(t), t.doc, m)
    BY DEF Accounts
  <2> QED
    BY <1>1, <1>3, <1>4, <1>5, <2>1, <2>2, <2>4, RequestAccounts
<1> HIDE DEF left, moved
<1> DEFINE v == [moved EXCEPT !.doc = q.doc]
<1>9. v \in Turns /\ v.engine = o.session /\ v.doc = q.doc
  BY <1>2, <1>7, TurnsAre
<1>10. CASE ~q.ok
  <2>1. r = Undone(v)
    BY <1>3, <1>10
  <2> HIDE DEF v
  <2>2. r.turn = v /\ ~r.ok
    BY <2>1 DEF Undone
  <2> QED
    BY <1>4, <1>8, <1>9, <1>10, <2>2 DEF Whole
<1>11. CASE q.ok
  <2>1. PICK u \in UpdateCandidateUi(v) : r = Done(u)
    BY <1>3, <1>11
  <2> HIDE DEF v
  <2>2. r.turn = u /\ r.ok
    BY <2>1 DEF Done
  <2>3. u.engine = o.session /\ Alike(q.doc, u.doc)
    BY <1>9, UpdateCandidateUiIs
  <2>4. /\ Saved(u.doc) = Saved(q.doc) /\ Backed(u.doc) /\ Accounted(left, u.doc, m)
        /\ OnItsWay(u.doc) = OnItsWay(q.doc)
    BY <1>8, <1>11, <2>3, AlikeAccounted DEF Alike, OnItsWay
  <2>5. TextIn(u) = left
    BY <1>6, <2>3 DEF TextIn
  <2>6. Whole(t, o) => TextIn(t) \subseteq left \cup Saved(u.doc) \cup OnItsWay(u.doc)
    BY <1>4, <1>8, <1>11, <2>4 DEF Whole
  <2>7. Preserves(t, u, m, Whole(t, o))
    BY <1>8, <2>4, <2>5, <2>6 DEF Preserves, Accounts, Everywhere
  <2> QED
    BY <1>8, <2>2, <2>4, <2>7
<1> QED
  BY <1>10, <1>11

(* Discarding the session leaves its text in the document.                 *)
LEMMA DiscardAccounts ==
  ASSUME NEW t \in Turns, Backed(t.doc), NEW m
  PROVE  /\ Accounts(DiscardSessionAndCloseUi(t), m)
         /\ TextIn(t) \subseteq t.doc.composition.text \cup Saved(t.doc) =>
              Preserves(t, DiscardSessionAndCloseUi(t), m, TRUE)
         /\ t.doc.composition.text \cup Saved(t.doc) \subseteq Saved(DiscardSessionAndCloseUi(t).doc)
         /\ OnItsWay(t.doc) \subseteq OnItsWay(DiscardSessionAndCloseUi(t).doc)
<1> DEFINE v == [t EXCEPT !.engine = Discarded(@), !.doc = Released(@)]
           u == DiscardSessionAndCloseUi(t)
           f == Released(t.doc)
<1>1. t.doc \in Docs /\ Discarded(t.engine).text = <<>>
  BY TurnsAre DEF Discarded, Empty
<1>2. f.queue = t.doc.queue /\ LetGo(t.doc, f) /\ Saved(t.doc) \subseteq Saved(f)
  BY <1>1, ReleasedIs, ReleasedSaves DEF Follows
<1>3. u.engine = Discarded(t.engine) /\ u.doc = f
  BY DEF DiscardSessionAndCloseUi, CloseCandidateUi, Turns
<1> HIDE DEF u, f
<1>4. TextIn(u) = {}
  BY <1>1, <1>3, EmptyText DEF TextIn
<1>5. Accounts(u, m)
  <2>1. {} \subseteq t.doc.composition.text \cup Saved(t.doc)
    OBVIOUS
  <2> QED
    BY <1>2, <1>3, <1>4, <2>1, LettingGoAccounts DEF Accounts
<1>6. OnItsWay(u.doc) = OnItsWay(t.doc)
  BY <1>2, <1>3 DEF OnItsWay
<1>7. ASSUME TextIn(t) \subseteq t.doc.composition.text \cup Saved(t.doc)
      PROVE  Preserves(t, u, m, TRUE)
  <2>1. TextIn(t) \subseteq Saved(u.doc)
    BY <1>2, <1>3, <1>7 DEF LetGo
  <2> QED
    BY <1>2, <1>3, <1>5, <1>6, <2>1 DEF Preserves, Everywhere
<1> QED
  BY <1>2, <1>3, <1>5, <1>6, <1>7 DEF u, LetGo


(* A handler works where the focus is, or nowhere.                         *)
Here(c, m) == c \in Contexts \cup {NoContext} /\ (c = m \/ c = NoContext)

LEMMA TryDispatchAccounts ==
  ASSUME NEW t, Sound(t), NEW m, Accounts(t, m), NEW c, Here(c, m), NEW o, Ready(o), Leaves(o),
         NEW r \in TryDispatchOutput(t, c, o)
  PROVE  /\ r.ok => Preserves(t, r.turn, m, Whole(t, o))
         /\ ~r.ok => Preserves(t, DiscardSessionAndCloseUi(r.turn), m, Whole(t, o))
         /\ Whole(t, o) => Preserves(t, r.turn, m, TRUE)
<1>1. t \in Turns /\ t.engine \in Sessions /\ Accounted(TextIn(t), t.doc, m)
  BY TurnsAre DEF Sound, Accounts
<1>2. ASSUME NEW u \in Turns, u.engine = t.engine, Backed(u.doc),
             Saved(t.doc) \subseteq Saved(u.doc), OnItsWay(t.doc) \subseteq OnItsWay(u.doc),
             Whole(t, o) => Accounted(TextIn(t), u.doc, m)
      PROVE  /\ Preserves(t, DiscardSessionAndCloseUi(u), m, Whole(t, o))
             /\ Whole(t, o) => Preserves(t, u, m, TRUE)
  <2> DEFINE v == DiscardSessionAndCloseUi(u)
  <2>1. TextIn(u) = TextIn(t)
    BY <1>2 DEF TextIn
  <2>2. Whole(t, o) => Preserves(t, u, m, TRUE) /\ TextIn(t) \subseteq u.doc.composition.text \cup Saved(u.doc)
    BY <1>2, <2>1, AccountedIsBacked DEF Preserves, Accounts, Everywhere
  <2>3. /\ Accounts(v, m) /\ u.doc.composition.text \cup Saved(u.doc) \subseteq Saved(v.doc)
        /\ OnItsWay(u.doc) \subseteq OnItsWay(v.doc)
    BY <1>2, DiscardAccounts
  <2> QED
    BY <1>2, <2>2, <2>3 DEF Preserves, Everywhere
<1>3. CASE c = NoContext
  <2> DEFINE u == CloseCandidateUi(t)
  <2>1. r = Undone(u)
    BY <1>3 DEF TryDispatchOutput
  <2>2. u \in Turns /\ u.engine = t.engine /\ u.doc = t.doc
    BY <1>1, ClosedIs
  <2> HIDE DEF u
  <2>3. r.turn = u /\ ~r.ok
    BY <2>1 DEF Undone
  <2> QED
    BY <1>1, <1>2, <2>2, <2>3, AccountedIsBacked
<1>4. CASE c # NoContext
  <2>1. c \in Contexts /\ c = m
    BY <1>4 DEF Here
  <2>2. PICK q \in DispatchEngineOutput(t, c, o, TRUE) :
          r = IF q.ok THEN q ELSE Undone(CloseCandidateUi(RolledBack(q.turn, t.engine)))
    BY <1>4 DEF TryDispatchOutput
  <2>3. TRUE \in BOOLEAN /\ q.turn \in Turns
    BY <2>1, <2>2, DispatchEngineOutputIs
  <2>4. /\ Backed(q.turn.doc) /\ Saved(t.doc) \subseteq Saved(q.turn.doc)
        /\ OnItsWay(t.doc) \subseteq OnItsWay(q.turn.doc)
        /\ q.ok => Preserves(t, q.turn, m, Whole(t, o))
        /\ ~q.ok /\ Whole(t, o) => Accounted(TextIn(t), q.turn.doc, m)
    BY <2>1, <2>2, <2>3, DispatchAccounts
  <2>5. CASE q.ok
    BY <2>2, <2>4, <2>5 DEF Preserves
  <2>6. CASE ~q.ok
    <3> DEFINE v == RolledBack(q.turn, t.engine)
               u == CloseCandidateUi(v)
    <3>1. r = Undone(u)
      BY <2>2, <2>6
    <3>2. v \in Turns /\ v.engine = t.engine /\ v.doc = q.turn.doc
      BY <1>1, <2>3, TurnsAre DEF RolledBack
    <3> HIDE DEF v
    <3>3. u \in Turns /\ u.engine = t.engine /\ u.doc = q.turn.doc
      BY <3>2, ClosedIs
    <3> HIDE DEF u
    <3>4. r.turn = u /\ ~r.ok
      BY <3>1 DEF Undone
    <3> QED
      BY <1>2, <2>4, <2>6, <3>3, <3>4
  <2> QED
    BY <2>5, <2>6
<1> QED
  BY <1>3, <1>4

(* What a key or a call of the window gives keeps the session's text, but  *)
(* for the keys that erase it or change the mode.                          *)
KeepsAll(key) == key \notin {"Erase", "Backspace", "Toggle", "Latin"}

LEMMA CarriedWhole ==
  ASSUME NEW t, Sound(t), NEW o, Proper(t.engine, o), Carries(t.engine, o, {}, TRUE)
  PROVE  Ready(o) /\ Leaves(o) /\ Whole(t, o) /\ ToSet(TextOf(o)) = TextIn(t)
<1>1. {} \cap ToSet(t.engine.text) = {}
  OBVIOUS
<1>2. Ready(o)
  BY <1>1 DEF Ready, Proper, Carries, Sound
<1> QED
  BY <1>2, ProperLeaves DEF Carries, Whole, TextIn

LEMMA KeyLeaves ==
  ASSUME NEW t, Sound(t), NEW key, NEW ch, Pressed(t, key, ch),
         NEW o \in Outcomes(t.engine, EngineKey(t.engine, key), ch)
  PROVE  Ready(o) /\ Leaves(o) /\ (KeepsAll(key) => Whole(t, o))
<1> DEFINE s == t.engine
           k == EngineKey(s, key)
<1>1. Ready(o) /\ Leaves(o)
  BY KeyOutcome, ProperLeaves
<1>2. k \in Keys /\ (Types(k) => ch \in Chars) /\ Good(s) /\ MaxList \in Nat
  BY EngineKeyIs, BoundsAssumption DEF Pressed, Sound
<1>3. KeepsAll(key) => KeepsText(k)
  BY DEF KeepsAll, KeepsText, EngineKey, Pressed, ServiceKeys, Keys
<1>4. \/ Carries(s, o, {ch}, TRUE)
      \/ Carries(s, o, {}, KeepsText(k))
  <2>1. o \in Outcomes(s, k, ch)
    OBVIOUS
  <2> HIDE DEF s, k
  <2> QED
    BY <1>2, <2>1, EveryKey
<1>5. KeepsAll(key) => ToSet(s.text) \subseteq ToSet(TextOf(o))
  <2> HIDE DEF s, k
  <2> QED
    BY <1>3, <1>4 DEF Carries
<1> QED
  BY <1>1, <1>5 DEF Whole, TextIn

LEMMA TryCommitAccounts ==
  ASSUME NEW t, Sound(t), NEW m, Accounts(t, m), NEW c, Here(c, m), NEW r \in TryCommitOpenSession(t, c)
  PROVE  Preserves(t, r.turn, m, TRUE)
<1> DEFINE commits ==
             IF t.engine.state = "Converting" THEN FinalizeCandidateSelection(t.engine) ELSE {}
<1>1. t \in Turns /\ Good(t.engine) /\ t.engine \in Sessions
  BY TurnsAre DEF Sound
<1>2. CASE r.turn = t
  BY <1>2 DEF Preserves
<1>3. ASSUME c # NoContext, NEW o \in commits, NEW q \in DispatchEngineOutput(t, c, o, TRUE),
             r = IF q.ok THEN q ELSE Undone(RolledBack(q.turn, t.engine))
      PROVE  Preserves(t, r.turn, m, TRUE)
  <2>1. c \in Contexts /\ c = m /\ o \in FinalizeCandidateSelection(t.engine)
    BY <1>3 DEF Here
  <2>2. Ready(o) /\ Leaves(o) /\ Whole(t, o)
    BY <1>1, <2>1, EveryFinalize, CarriedWhole, BoundsAssumption
  <2>3. TRUE \in BOOLEAN /\ q \in DispatchEngineOutput(t, c, o, TRUE)
    BY <1>3
  <2> HIDE DEF commits
  <2>4. /\ q.turn \in Turns /\ Saved(t.doc) \subseteq Saved(q.turn.doc)
        /\ OnItsWay(t.doc) \subseteq OnItsWay(q.turn.doc)
        /\ q.ok => Preserves(t, q.turn, m, Whole(t, o))
        /\ ~q.ok /\ Whole(t, o) => Accounted(TextIn(t), q.turn.doc, m)
    <3>1. q.turn \in Turns
      BY <2>1, <2>2, <2>3, DispatchEngineOutputIs
    <3> QED
      BY <2>1, <2>2, <2>3, <3>1, DispatchAccounts
  <2>5. CASE q.ok
    BY <1>3, <2>2, <2>4, <2>5 DEF Preserves
  <2>6. CASE ~q.ok
    <3> DEFINE u == RolledBack(q.turn, t.engine)
    <3>1. r = Undone(u)
      BY <1>3, <2>6
    <3>2. u.engine = t.engine /\ u.doc = q.turn.doc
      BY <1>1, <2>4, TurnsAre DEF RolledBack
    <3> HIDE DEF u
    <3>3. r.turn = u /\ TextIn(u) = TextIn(t)
      BY <3>1, <3>2 DEF Undone, TextIn
    <3> QED
      BY <2>2, <2>4, <2>6, <3>2, <3>3 DEF Preserves, Accounts, Everywhere
  <2> QED
    BY <2>5, <2>6
<1>4. \/ r.turn = t
      \/ c # NoContext /\ \E o \in commits : \E q \in DispatchEngineOutput(t, c, o, TRUE) :
           r = IF q.ok THEN q ELSE Undone(RolledBack(q.turn, t.engine))
  <2>1. CASE c = NoContext
    BY <2>1 DEF TryCommitOpenSession, Undone
  <2>2. CASE c # NoContext /\ commits = {}
    <3>1. r = Done(t)
      BY <2>2 DEF TryCommitOpenSession
    <3> QED
      BY <3>1 DEF Done
  <2>3. CASE c # NoContext /\ commits # {}
    <3>1. r \in UNION {{IF q.ok THEN q ELSE Undone(RolledBack(q.turn, t.engine)) :
                         q \in DispatchEngineOutput(t, c, o, TRUE)} : o \in commits}
      BY <2>3, Zenon DEF TryCommitOpenSession
    <3> HIDE DEF commits
    <3> QED
      BY <2>3, <3>1
  <2> QED
    BY <2>1, <2>2, <2>3
<1> QED
  BY <1>2, <1>3, <1>4

LEMMA ProcessedAccounts ==
  ASSUME NEW t, Sound(t), NEW m, Accounts(t, m), NEW c, Here(c, m), NEW key, NEW ch,
         Pressed(t, key, ch), NEW r \in Processed(t, c, key, ch)
  PROVE  Preserves(t, r.turn, m, KeepsAll(key))
<1>1. PICK o \in Outcomes(t.engine, EngineKey(t.engine, key), ch) :
        r \in IF ~o.consumed THEN {Declined([t EXCEPT !.engine = o.session])}
              ELSE {IF q.ok THEN Eaten(q.turn) ELSE Declined(DiscardSessionAndCloseUi(q.turn)) :
                      q \in TryDispatchOutput(t, c, o)}
  BY DEF Processed
<1>2. Proper(t.engine, o) /\ Ready(o) /\ Leaves(o) /\ (KeepsAll(key) => Whole(t, o))
  BY <1>1, KeyOutcome, KeyLeaves
<1>3. CASE ~o.consumed
  <2>1. o.session = t.engine
    BY <1>2, <1>3 DEF Proper
  <2>2. [t EXCEPT !.engine = t.engine] = t
    BY TurnsAre DEF Sound, Turns
  <2>3. r = Declined(t)
    BY <1>1, <1>3, <2>1, <2>2
  <2>4. r.turn = t
    BY <2>3 DEF Declined
  <2> QED
    BY <2>4 DEF Preserves
<1>4. CASE o.consumed
  <2>1. PICK q \in TryDispatchOutput(t, c, o) :
          r = IF q.ok THEN Eaten(q.turn) ELSE Declined(DiscardSessionAndCloseUi(q.turn))
    BY <1>1, <1>4
  <2>2. /\ q.ok => Preserves(t, q.turn, m, Whole(t, o))
        /\ ~q.ok => Preserves(t, DiscardSessionAndCloseUi(q.turn), m, Whole(t, o))
    BY <1>2, TryDispatchAccounts
  <2>3. r.turn = IF q.ok THEN q.turn ELSE DiscardSessionAndCloseUi(q.turn)
    BY <2>1 DEF Eaten, Declined
  <2> QED
    BY <1>2, <2>2, <2>3 DEF Preserves
<1> QED
  BY <1>3, <1>4

LEMMA RestartedAccounts ==
  ASSUME NEW t, Sound(t), NEW m, Accounts(t, m), NEW c, Here(c, m), NEW key, NEW ch,
         Pressed(t, key, ch), NEW u \in Restarted(t, c, key, ch)
  PROVE  Preserves(t, u, m, KeepsAll(key))
<1>1. PICK o \in Outcomes(t.engine, EngineKey(t.engine, key), ch) :
        u \in IF ~o.consumed THEN {t}
              ELSE {IF q.ok THEN q.turn ELSE DiscardSessionAndCloseUi(q.turn) :
                      q \in TryDispatchOutput(t, c, o)}
  BY DEF Restarted
<1>2. Ready(o) /\ Leaves(o) /\ (KeepsAll(key) => Whole(t, o))
  BY <1>1, KeyLeaves
<1>3. CASE ~o.consumed
  BY <1>1, <1>3 DEF Preserves
<1>4. CASE o.consumed
  <2>1. PICK q \in TryDispatchOutput(t, c, o) :
          u = IF q.ok THEN q.turn ELSE DiscardSessionAndCloseUi(q.turn)
    BY <1>1, <1>4
  <2>2. /\ q.ok => Preserves(t, q.turn, m, Whole(t, o))
        /\ ~q.ok => Preserves(t, DiscardSessionAndCloseUi(q.turn), m, Whole(t, o))
    BY <1>2, TryDispatchAccounts
  <2> QED
    BY <1>2, <2>1, <2>2 DEF Preserves
<1> QED
  BY <1>3, <1>4


LEMMA FullWidthAccounts ==
  ASSUME NEW t, Sound(t), t.engine.state = "Direct", NEW m, Accounts(t, m), NEW c, Here(c, m),
         NEW ch \in Chars, NEW u \in CommittedFullWidth(t, c, ch)
  PROVE  Preserves(t, u, m, TRUE)
<1> DEFINE o == [Commits(<<ch>>) EXCEPT !.session = t.engine]
<1>1. /\ t \in Turns /\ Good(t.engine) /\ Distinct(t.engine.text) /\ t.engine.text = <<>>
      /\ TextIn(t) = {} /\ Accounted(TextIn(t), t.doc, m)
  BY EmptyIsGood, EmptyText, BoundsAssumption DEF Sound, Good, TextIn, Accounts
<1>2. CASE c = NoContext
  <2>1. u = DiscardSessionAndCloseUi(t)
    BY <1>2 DEF CommittedFullWidth
  <2> QED
    BY <1>1, <2>1, DiscardAccounts, AccountedIsBacked
<1>3. CASE c # NoContext
  <2>1. PICK q \in DispatchEngineOutput(t, c, o, TRUE) : u = CloseCandidateUi(q.turn)
    BY <1>3 DEF CommittedFullWidth
  <2>2. o.session = t.engine /\ o.action = "Commit" /\ o.sent = <<ch>>
    BY DEF Commits
  <2>3. <<ch>> \in Seq(Chars) /\ c \in Contexts /\ c = m /\ TRUE \in BOOLEAN
    BY <1>3 DEF Here
  <2> HIDE DEF o
  <2>4. Ready(o) /\ Leaves(o) /\ Whole(t, o)
    BY <1>1, <2>2, <2>3 DEF Ready, Leaves, Whole, TextOf
  <2>5. /\ q.turn \in Turns /\ q.turn.engine = t.engine
        /\ Saved(t.doc) \subseteq Saved(q.turn.doc) /\ OnItsWay(t.doc) \subseteq OnItsWay(q.turn.doc)
        /\ q.ok => Preserves(t, q.turn, m, Whole(t, o))
        /\ ~q.ok /\ Whole(t, o) => Accounted(TextIn(t), q.turn.doc, m)
    <3>1. q.turn \in Turns /\ q.turn.engine = o.session
      BY <2>1, <2>3, <2>4, DispatchEngineOutputIs
    <3> QED
      BY <2>1, <2>2, <2>3, <2>4, <3>1, DispatchAccounts
  <2>6. TextIn(q.turn) = TextIn(t)
    BY <2>5 DEF TextIn
  <2>7. Preserves(t, q.turn, m, TRUE)
    BY <2>4, <2>5, <2>6 DEF Preserves, Accounts, Everywhere
  <2>8. u.engine = q.turn.engine /\ u.doc = q.turn.doc
    BY <2>1, <2>5, ClosedIs
  <2> QED
    BY <2>7, <2>8 DEF Preserves, Accounts, Everywhere, TextIn
<1> QED
  BY <1>2, <1>3

LEMMA TypedAccounts ==
  ASSUME NEW t, Sound(t), NEW m, Accounts(t, m), NEW c, NEW ch
  PROVE  Preserves(t, Typed(t, c, ch), m, TRUE)
<1> DEFINE u == Typed(t, c, ch)
           plain == IF c = NoContext THEN t.doc.plain ELSE Put(t.doc.plain, {ch})
           d == [t.doc EXCEPT !.plain = plain]
<1>1. t \in Turns /\ t.doc \in Docs
  BY TurnsAre DEF Sound
<1>2. u = [t EXCEPT !.doc = d]
  BY DEF Typed
<1>3. d.plain = plain /\ d.queue = t.doc.queue /\ d.composition = t.doc.composition
  BY <1>1 DEF Docs
<1>4. Saved(t.doc) \subseteq Saved(d)
  <2> HIDE DEF d
  <2>1. CASE c = NoContext
    BY <1>3, <2>1, SavedAlike
  <2>2. CASE c # NoContext
    BY <1>1, <1>3, <2>2, PutSaves
  <2> QED
    BY <2>1, <2>2
<1> HIDE DEF d, plain
<1>5. u.engine = t.engine /\ u.doc = d
  BY <1>1, <1>2 DEF Turns
<1> HIDE DEF u
<1>6. Accounted(TextIn(t), d, m)
  BY <1>3, <1>4, MoreSaved DEF Accounts
<1>7. Preserves(t, u, m, TRUE)
  BY <1>3, <1>4, <1>5, <1>6 DEF Preserves, Accounts, Everywhere, TextIn, OnItsWay
<1> QED
  BY <1>7 DEF u

LEMMA OnKeyDownAccounts ==
  ASSUME Sound(Now), NEW m, Accounts(Now, m), NEW c, Here(c, m), NEW key, NEW ch,
         Pressed(Now, key, ch), NEW r \in OnKeyDown(c, key, ch)
  PROVE  Preserves(Now, r.turn, m, KeepsAll(key))
<1>1. /\ Now.engine = engine /\ Now.doc = doc /\ Now \in Turns /\ c \in Contexts \cup {NoContext}
      /\ Prints(key) => ch \in Chars /\ ch \notin ToSet(engine.text)
  BY NowIs DEF Sound, Pressed, Here
<1>2. CASE r = Declined(Now)
  BY <1>2 DEF Declined, Preserves
<1>3. CASE r = Declined(DiscardSessionAndCloseUi(Now))
  <2>1. r.turn = DiscardSessionAndCloseUi(Now)
    BY <1>3 DEF Declined
  <2>2. Preserves(Now, r.turn, m, TRUE)
    BY <1>1, <2>1, DiscardAccounts, AccountedIsBacked DEF Accounts
  <2> QED
    BY <2>2 DEF Preserves
<1>4. ASSUME engine.state = "Direct", key = "Letter", NEW u \in CommittedFullWidth(Now, c, ch), r = Eaten(u)
      PROVE  Preserves(Now, r.turn, m, KeepsAll(key))
  <2>1. r.turn = u /\ ch \in Chars
    BY <1>1, <1>4 DEF Eaten, Prints
  <2>2. Preserves(Now, r.turn, m, TRUE)
    BY <1>1, <1>4, <2>1, FullWidthAccounts
  <2> QED
    BY <2>2 DEF Preserves
<1>5. ASSUME r \in Processed(Now, c, key, ch)
      PROVE  Preserves(Now, r.turn, m, KeepsAll(key))
  BY <1>5, ProcessedAccounts
<1>6. ASSUME NEW q \in TryCommitOpenSession(Now, c),
             r \in IF ~q.ok THEN Processed(q.turn, c, key, ch)
                   ELSE IF Prints(key) THEN {Eaten(t) : t \in Restarted(q.turn, c, key, ch)}
                   ELSE {Eaten(q.turn)}
      PROVE  Preserves(Now, r.turn, m, KeepsAll(key))
  <2>1. /\ HandledAtOnce(Now, q.turn, c) /\ ToSet(q.turn.engine.text) \subseteq ToSet(engine.text)
        /\ Preserves(Now, q.turn, m, TRUE)
    BY <1>1, TryCommitOpenSessionIs, TryCommitAccounts
  <2>2. Sound(q.turn) /\ Pressed(q.turn, key, ch) /\ Accounts(q.turn, m)
    BY <1>1, <2>1 DEF HandledAtOnce, Handled, Pressed, Preserves
  <2>3. CASE ~q.ok
    <3>1. r \in Processed(q.turn, c, key, ch)
      BY <1>6, <2>3
    <3>2. Preserves(q.turn, r.turn, m, KeepsAll(key))
      BY <2>2, <3>1, ProcessedAccounts
    <3> QED
      BY <2>1, <3>2 DEF Preserves
  <2>4. CASE q.ok /\ ~Prints(key)
    <3>1. r = Eaten(q.turn)
      BY <1>6, <2>4
    <3>2. r.turn = q.turn
      BY <3>1 DEF Eaten
    <3> QED
      BY <2>1, <3>2 DEF Preserves
  <2>5. CASE q.ok /\ Prints(key)
    <3>1. PICK u \in Restarted(q.turn, c, key, ch) : r = Eaten(u)
      BY <1>6, <2>5
    <3>2. r.turn = u
      BY <3>1 DEF Eaten
    <3>3. Preserves(q.turn, u, m, KeepsAll(key))
      BY <2>2, <3>1, RestartedAccounts
    <3> QED
      BY <2>1, <3>2, <3>3 DEF Preserves
  <2> QED
    BY <2>3, <2>4, <2>5
<1>7. \/ r = Declined(Now) \/ r = Declined(DiscardSessionAndCloseUi(Now))
      \/ /\ engine.state = "Direct" /\ key = "Letter"
         /\ \E u \in CommittedFullWidth(Now, c, ch) : r = Eaten(u)
      \/ r \in Processed(Now, c, key, ch)
      \/ \E q \in TryCommitOpenSession(Now, c) :
           r \in IF ~q.ok THEN Processed(q.turn, c, key, ch)
                 ELSE IF Prints(key) THEN {Eaten(t) : t \in Restarted(q.turn, c, key, ch)}
                 ELSE {Eaten(q.turn)}
  BY DEF OnKeyDown
<1> QED
  BY <1>2, <1>3, <1>4, <1>5, <1>6, <1>7

(* The loss of the focus: the edit session it asks for may wait.           *)
LEMMA HandleFocusLossAccounts ==
  ASSUME NEW t, Sound(t), NEW m, Accounts(t, m), NEW c \in Contexts \cup {NoContext},
         Here(c, m) \/ m = NoContext, NEW u \in HandleFocusLoss(t, c)
  PROVE  Preserves(t, u, m, TRUE)
<1> DEFINE commits == IF t.engine.state = "Composing" THEN {Commits(t.engine.text)}
                      ELSE FinalizeCandidateSelection(t.engine)
<1>1. /\ t \in Turns /\ t.doc \in Docs /\ Good(t.engine) /\ t.engine.text \in Seq(Chars)
      /\ Accounted(TextIn(t), t.doc, m)
  BY TurnsAre DEF Sound, Good, Sessions, Accounts
<1>2. CASE u = t
  BY <1>2 DEF Preserves
<1>3. CASE u = GivenUp(t)
  BY <1>1, <1>3, DiscardAccounts, AccountedIsBacked DEF GivenUp
<1>4. ASSUME IsOpen(t.engine), c # NoContext, NEW o \in commits,
             NEW q \in DispatchEngineOutput(t, c, o, FALSE),
             u = IF q.ok THEN q.turn ELSE GivenUp(q.turn)
      PROVE  Preserves(t, u, m, TRUE)
  <2>1. c \in Contexts
    BY <1>4
  <2>2. Proper(t.engine, o) /\ Carries(t.engine, o, {}, TRUE)
    <3>1. CASE t.engine.state = "Composing"
      BY <1>1, <1>4, <3>1, CommittedProperly, SentText, BoundsAssumption
    <3>2. CASE t.engine.state # "Composing"
      BY <1>1, <1>4, <3>2, EveryFinalize, BoundsAssumption
    <3> QED
      BY <3>1, <3>2
  <2> HIDE DEF commits
  <2>3. Ready(o) /\ Leaves(o) /\ Whole(t, o) /\ ToSet(TextOf(o)) = TextIn(t)
    BY <2>2, CarriedWhole
  <2>4. TextIn(t) # {}
    BY <1>1, <1>4, EmptyText DEF TextIn, Good, IsOpen
  <2>5. o.action # "Clear"
    <3>1. o.action = "Clear" => o.session.text = <<>>
      BY <2>3 DEF Leaves
    <3> QED
      BY <2>3, <2>4, <3>1, EmptyText DEF TextOf
  <2>6. c = m \/ (m = NoContext /\ ToSet(TextOf(o)) \subseteq Saved(t.doc))
    <3>1. CASE m # NoContext
      BY <1>4, <3>1 DEF Here
    <3>2. CASE m = NoContext
      <4>1. t.doc.composition \in Compositions
        BY <1>1, DocsAre
      <4>2. t.doc.composition.text \subseteq Saved(t.doc)
        BY <1>1, <3>2, <4>1, CompositionsAre DEF Accounted, Standing
      <4> QED
        BY <1>1, <2>3, <3>2, <4>2 DEF Accounted, Standing
    <3> QED
      BY <3>1, <3>2
  <2>7. FALSE \in BOOLEAN /\ q \in DispatchEngineOutput(t, c, o, FALSE)
    BY <1>4
  <2>8. /\ q.turn \in Turns /\ q.turn.engine = o.session
        /\ Backed(q.turn.doc) /\ Saved(t.doc) \subseteq Saved(q.turn.doc)
        /\ OnItsWay(t.doc) \subseteq OnItsWay(q.turn.doc)
        /\ q.ok => Preserves(t, q.turn, m, Whole(t, o))
        /\ ~q.ok /\ Whole(t, o) => Accounted(TextIn(t), q.turn.doc, m)
    <3>1. q.turn \in Turns /\ q.turn.engine = o.session
      BY <2>1, <2>3, <2>7, DispatchEngineOutputIs
    <3> QED
      BY <2>1, <2>3, <2>4, <2>5, <2>6, <2>7, <3>1, DispatchAccounts
  <2>9. CASE q.ok
    BY <1>4, <2>3, <2>8, <2>9 DEF Preserves
  <2>10. CASE ~q.ok
    <3>1. u = DiscardSessionAndCloseUi(q.turn)
      BY <1>4, <2>10 DEF GivenUp
    <3>2. TextIn(t) \subseteq q.turn.doc.composition.text \cup Saved(q.turn.doc)
      BY <2>3, <2>8, <2>10, AccountedIsBacked
    <3>3. /\ Accounts(u, m) /\ OnItsWay(q.turn.doc) \subseteq OnItsWay(u.doc)
          /\ q.turn.doc.composition.text \cup Saved(q.turn.doc) \subseteq Saved(u.doc)
      BY <2>8, <3>1, DiscardAccounts
    <3> QED
      BY <2>8, <3>2, <3>3 DEF Preserves, Everywhere
  <2> QED
    BY <2>9, <2>10
<1>5. \/ u = t \/ u = GivenUp(t)
      \/ IsOpen(t.engine) /\ c # NoContext /\ \E o \in commits : \E q \in DispatchEngineOutput(t, c, o, FALSE) :
           u = IF q.ok THEN q.turn ELSE GivenUp(q.turn)
  BY DEF HandleFocusLoss
<1> QED
  BY <1>2, <1>3, <1>4, <1>5


-----------------------------------------------------------------------------
(* Each action leaves everything accounted for where the focus then is,    *)
(* and one that is to keep everything keeps it somewhere.                  *)
Lasts(all) ==
  Accounts(Now', focus'.manager) /\ (all => Everywhere(Now) \subseteq Everywhere(Now'))

LEMMA TakenLasts ==
  ASSUME NEW m, NEW u \in Turns, NEW all, Preserves(Now, u, m, all), Take(u), focus'.manager = m
  PROVE  Lasts(all)
<1>1. Now' = u
  BY TakenIs
<1> QED
  BY <1>1 DEF Lasts, Preserves

LEMMA KeyDownAccounts ==
  ASSUME IInv, Accounts(Now, focus.manager), NEW key \in ServiceKeys, NEW ch \in Inputs(key),
         KeyDown(key, ch)
  PROVE  Lasts(KeepsAll(key))
<1> DEFINE m == focus.manager
<1>1. Sound(Now) /\ FocusInv /\ SettingsInv /\ Now.engine = engine /\ Now.doc = doc /\ focus' = focus
  BY NowIs DEF IInv, KeyDown
<1>2. Pressed(Now, key, ch)
  BY <1>1 DEF Pressed, Inputs, Fresh, Held
<1>3. PICK c \in Targets : \E r \in OnKeyDown(c, key, ch) :
        Take(IF Prints(key) /\ ~r.eaten THEN Typed(r.turn, c, ch) ELSE r.turn)
  BY DEF KeyDown
<1>4. PICK r \in OnKeyDown(c, key, ch) :
        Take(IF Prints(key) /\ ~r.eaten THEN Typed(r.turn, c, ch) ELSE r.turn)
  BY <1>3
<1>5. Here(c, m) /\ c \in Contexts \cup {NoContext}
  BY <1>1 DEF Targets, Top, FocusInv, SettingsInv, Here
<1>6. Preserves(Now, r.turn, m, KeepsAll(key)) /\ Sound(r.turn)
  BY <1>1, <1>2, <1>5, OnKeyDownAccounts, OnKeyDownIs DEF HandledAtOnce, Handled
<1>7. Preserves(r.turn, Typed(r.turn, c, ch), m, TRUE) /\ Typed(r.turn, c, ch) \in Turns
  BY <1>6, TypedAccounts, TypedIs DEF Preserves, HandledAtOnce, Handled, Sound
<1>8. Preserves(Now, Typed(r.turn, c, ch), m, KeepsAll(key))
  BY <1>6, <1>7 DEF Preserves
<1>9. focus'.manager = m /\ r.turn \in Turns
  BY <1>1, <1>6 DEF Sound
<1>10. CASE Prints(key) /\ ~r.eaten
  BY <1>4, <1>7, <1>8, <1>9, <1>10, TakenLasts
<1>11. CASE ~(Prints(key) /\ ~r.eaten)
  BY <1>4, <1>6, <1>9, <1>11, TakenLasts
<1> QED
  BY <1>10, <1>11

LEMMA LoseForegroundAccounts ==
  ASSUME IInv, Accounts(Now, focus.manager), LoseForeground
  PROVE  Lasts(TRUE)
<1> DEFINE m == focus.manager
           c == focus.context
<1>1. Sound(Now) /\ c \in Contexts \cup {NoContext} /\ Here(c, m) /\ focus'.manager = m
  BY DEF IInv, FocusInv, SettingsInv, Here, LoseForeground
<1>2. PICK t \in HandleFocusLoss(Now, c) : Take(CloseCandidateUi(t))
  BY DEF LoseForeground
<1>3. Preserves(Now, t, m, TRUE) /\ t \in Turns
  BY <1>1, <1>2, HandleFocusLossAccounts, HandleFocusLossIs DEF Handled, Sound
<1>4. /\ CloseCandidateUi(t) \in Turns /\ CloseCandidateUi(t).engine = t.engine
      /\ CloseCandidateUi(t).doc = t.doc
  BY <1>3, ClosedIs
<1>5. Preserves(Now, CloseCandidateUi(t), m, TRUE)
  BY <1>3, <1>4 DEF Preserves, Accounts, Everywhere, TextIn
<1> QED
  BY <1>1, <1>2, <1>4, <1>5, TakenLasts

(* A composition is let go: nothing in it is lost, wherever the focus is   *)
(* next.                                                                   *)
LEMMA ReleasingPreserves ==
  ASSUME NEW t \in Turns, NEW m, Accounts(t, m), NEW u, u.engine = t.engine,
         NEW f, f = Released(t.doc), Alike(f, u.doc), NEW n
  PROVE  Preserves(t, u, n, TRUE)
<1>1. t.doc \in Docs /\ TextIn(u) = TextIn(t) /\ Accounted(TextIn(t), t.doc, m)
  BY TurnsAre DEF TextIn, Accounts
<1>2. f.queue = t.doc.queue /\ LetGo(t.doc, f) /\ Saved(t.doc) \subseteq Saved(f)
  BY <1>1, ReleasedIs, ReleasedSaves DEF Follows
<1>3. Accounted(TextIn(t), f, n)
  BY <1>1, <1>2, LettingGoAccounts, AccountedIsBacked
<1>4. Accounted(TextIn(t), u.doc, n) /\ Saved(u.doc) = Saved(f) /\ u.doc.queue = t.doc.queue
  BY <1>2, <1>3, AlikeAccounted DEF Alike
<1> QED
  BY <1>1, <1>2, <1>4 DEF Preserves, Accounts, Everywhere, OnItsWay

LEMMA MoveFocusAccounts ==
  ASSUME IInv, Accounts(Now, focus.manager),
         NEW manager \in Contexts \cup {NoContext}, NEW previous \in Contexts \cup {NoContext},
         MoveFocus(manager, previous)
  PROVE  Lasts(TRUE)
<1> DEFINE m == focus.manager
           c == Top(previous)
<1>1. Sound(Now) /\ c \in Contexts \cup {NoContext} /\ (Here(c, m) \/ m = NoContext)
      /\ focus'.manager = manager
  BY DEF IInv, FocusInv, SettingsInv, Top, MoveFocus, Here
<1>2. PICK t \in IF c = NoContext THEN {Now} ELSE HandleFocusLoss(Now, c) :
        Take(CloseCandidateUi([t EXCEPT !.doc = IF manager = focus.manager THEN @ ELSE Released(@)]))
  BY DEF MoveFocus
<1> HIDE DEF c
<1>3. Preserves(Now, t, m, TRUE) /\ t \in Turns
  <2>1. CASE t = Now
    BY <1>1, <2>1 DEF Preserves, Sound
  <2>2. CASE t \in HandleFocusLoss(Now, c)
    BY <1>1, <2>2, HandleFocusLossAccounts, HandleFocusLossIs DEF Handled, Sound
  <2> QED
    BY <1>2, <2>1, <2>2
<1> DEFINE d == IF manager = focus.manager THEN t.doc ELSE Released(t.doc)
           v == [t EXCEPT !.doc = d]
           u == CloseCandidateUi(v)
<1>4. d \in Docs
  BY <1>3, TurnsAre, ReleasedIs DEF Follows
<1>5. v \in Turns /\ v.engine = t.engine /\ v.doc = d
  BY <1>3, <1>4, TurnsAre
<1>6. Take(u)
  BY <1>2
<1> HIDE DEF v
<1>7. u \in Turns /\ u.engine = t.engine /\ u.doc = d
  BY <1>5, ClosedIs
<1> HIDE DEF u
<1>8. Preserves(t, u, manager, TRUE)
  <2>1. CASE manager = focus.manager
    BY <1>3, <1>7, <2>1, PreservesNothingNew DEF Preserves, Alike
  <2>2. CASE manager # focus.manager
    <3>1. u.doc = Released(t.doc) /\ Alike(Released(t.doc), u.doc) /\ Accounts(t, m)
      BY <1>3, <1>7, <2>2 DEF Alike, Preserves
    <3> QED
      BY <1>3, <1>7, <3>1, ReleasingPreserves
  <2> QED
    BY <2>1, <2>2
<1>9. Preserves(Now, u, manager, TRUE)
  BY <1>3, <1>8 DEF Preserves
<1> QED
  BY <1>1, <1>6, <1>7, <1>9, TakenLasts

(* Only the document and the element change; the composition is let go, or *)
(* the focus stays.                                                        *)
LEMMA LettingGoLasts ==
  ASSUME Sound(Now), Accounts(Now, focus.manager), UNCHANGED engine,
         \/ Alike(doc, doc') /\ focus'.manager = focus.manager
         \/ Alike(Released(doc), doc')
  PROVE  Lasts(TRUE)
<1>1. /\ Now \in Turns /\ Now.doc = doc /\ Now.engine = engine
      /\ Now'.engine = engine /\ Now'.doc = doc'
  BY NowIs, NowNext DEF Sound
<1>2. Preserves(Now, Now', focus'.manager, TRUE)
  <2>1. CASE Alike(doc, doc') /\ focus'.manager = focus.manager
    BY <1>1, <2>1, PreservesNothingNew
  <2>2. CASE Alike(Released(doc), doc')
    <3>1. Alike(Released(Now.doc), Now'.doc) /\ Now'.engine = Now.engine
      BY <1>1, <2>2
    <3> DEFINE u == Now'
    <3> HIDE DEF u
    <3>2. Alike(Released(Now.doc), u.doc) /\ u.engine = Now.engine
      BY <3>1 DEF u
    <3>3. Preserves(Now, u, focus'.manager, TRUE)
      BY <1>1, <3>2, ReleasingPreserves
    <3> QED
      BY <3>3 DEF u
  <2> QED
    BY <2>1, <2>2
<1> QED
  BY <1>2 DEF Lasts, Preserves

LEMMA RunEditSessionAccounts ==
  ASSUME Sound(Now), Accounts(Now, focus.manager), RunEditSession
  PROVE  Lasts(FALSE)
<1>1. /\ Now \in Turns /\ Now.doc = doc /\ Now.engine = engine /\ doc \in Docs
      /\ Now'.engine = engine /\ Now'.doc = doc' /\ focus' = focus
  BY NowIs, NowNext, TurnsAre DEF Sound, RunEditSession
<1>2. PICK r \in ApplyEngineOutput([doc EXCEPT !.queue = Tail(@)], Head(doc.queue)) : doc' = r.doc
  BY DEF RunEditSession
<1>3. doc.queue # <<>> /\ Accounted(TextIn(Now), doc, focus.manager)
  BY <1>1 DEF RunEditSession, Accounts
<1>4. Accounted(TextIn(Now), doc', focus.manager)
  BY <1>1, <1>2, <1>3, RunAccounts
<1> QED
  BY <1>1, <1>4 DEF Lasts, Accounts, TextIn

LEMMA UiDrivenAccounts ==
  ASSUME NEW t, Sound(t), NEW m, Accounts(t, m), Here(focus.context, m), NEW outputs,
         \A o \in outputs : Ready(o) /\ Leaves(o) /\ Whole(t, o), NEW u \in UiDriven(t, outputs)
  PROVE  Preserves(t, u, m, TRUE)
<1>1. CASE focus.context = NoContext
  <2>1. u = CloseCandidateUi(t)
    BY <1>1 DEF UiDriven
  <2>2. u.engine = t.engine /\ u.doc = t.doc
    BY <2>1, ClosedIs DEF Sound
  <2> QED
    BY <2>2 DEF Preserves, Accounts, Everywhere, TextIn
<1>2. CASE focus.context # NoContext
  <2>1. PICK o \in outputs : u \in {r.turn : r \in TryDispatchOutput(t, focus.context, o)}
    BY <1>2 DEF UiDriven
  <2>2. PICK r \in TryDispatchOutput(t, focus.context, o) : u = r.turn
    BY <2>1
  <2>3. Whole(t, o) => Preserves(t, r.turn, m, TRUE)
    BY <2>1, <2>2, TryDispatchAccounts
  <2> QED
    BY <2>1, <2>2, <2>3
<1> QED
  BY <1>1, <1>2

LEMMA UiSelectAccounts ==
  ASSUME IInv, Accounts(Now, focus.manager), NEW i \in Nat, UiSelect(i)
  PROVE  Lasts(TRUE)
<1> DEFINE m == focus.manager
           outputs == SetCandidateSelection(engine, i)
<1>1. /\ Sound(Now) /\ Here(focus.context, m) /\ focus.context \in Contexts \cup {NoContext}
      /\ Now.engine = engine /\ Good(engine) /\ focus' = focus /\ Now.doc = doc
  BY NowIs DEF IInv, SettingsInv, FocusInv, Here, Sound, UiSelect
<1>2. \A o \in outputs : Ready(o) /\ Leaves(o) /\ Whole(Now, o)
  <2> TAKE o \in outputs
  <2>1. Good(engine) /\ o \in SetCandidateSelection(engine, i) /\ MaxList \in Nat
    BY <1>1, BoundsAssumption
  <2> HIDE DEF outputs
  <2>2. Proper(Now.engine, o) /\ Carries(Now.engine, o, {}, TRUE)
    BY <1>1, <2>1, EverySelection
  <2> QED
    BY <1>1, <2>2, CarriedWhole
<1>3. CASE UNCHANGED <<engine, doc, element>>
  BY <1>1, <1>3, LettingGoLasts DEF Alike
<1>4. ASSUME NEW t \in UiDriven(Now, outputs),
             Take([t EXCEPT !.element = IF @ = NoElement THEN @ ELSE SelectedHere(element, @, i)])
      PROVE  Lasts(TRUE)
  <2> HIDE DEF outputs
  <2>1. Preserves(Now, t, m, TRUE) /\ t \in Turns
    BY <1>1, <1>2, <1>4, UiDrivenAccounts, UiDrivenIs DEF HandledAtOnce, Handled, Sound
  <2>2. engine' = t.engine /\ doc' = t.doc
    BY <1>4, <2>1 DEF Take, Turns
  <2>3. Now'.engine = t.engine /\ Now'.doc = t.doc
    BY <2>2, NowNext
  <2> QED
    BY <1>1, <2>1, <2>3 DEF Lasts, Preserves, Accounts, Everywhere, TextIn
<1> QED
  BY <1>3, <1>4 DEF UiSelect

LEMMA UiEndAccounts ==
  ASSUME IInv, Accounts(Now, focus.manager), NEW outputs, UiEnd(outputs),
         \A o \in outputs : Proper(engine, o) /\ Carries(engine, o, {}, TRUE)
  PROVE  Lasts(TRUE)
<1> DEFINE m == focus.manager
           e == IF element = NoElement THEN NoElement ELSE [element EXCEPT !.shown = FALSE]
           hidden == Hidden(Now)
<1>1. /\ Sound(Now) /\ Here(focus.context, m) /\ focus.context \in Contexts \cup {NoContext}
      /\ Now \in Turns /\ Now.engine = engine /\ Now.element = element /\ focus' = focus
      /\ element \in {NoElement} \cup Elements /\ Mirrors(element, engine.list)
  BY NowIs, TurnsAre DEF IInv, SettingsInv, FocusInv, Here, Sound, UiEnd
<1>2. e \in {NoElement} \cup Elements /\ Mirrors(e, engine.list)
  BY <1>1, ShowingMirrors DEF Mirrors
<1>3. hidden = [Now EXCEPT !.element = e]
  BY <1>1 DEF Hidden
<1> HIDE DEF e, hidden
<1>4. hidden.engine = engine /\ hidden.doc = Now.doc /\ hidden \in Turns
  BY <1>1, <1>2, <1>3, TurnsAre
<1>5. HandledAtOnce(Now, hidden, focus.context)
  BY <1>1, <1>2, <1>3, MirroringHandled
<1>6. Sound(hidden) /\ Preserves(Now, hidden, m, TRUE)
  BY <1>1, <1>4, <1>5 DEF HandledAtOnce, Handled, Preserves, Accounts, Everywhere, TextIn
<1>7. PICK t \in IF outputs = {} THEN {hidden} ELSE UiDriven(hidden, outputs) : Take(t)
  BY DEF UiEnd, hidden
<1>8. Preserves(Now, t, m, TRUE) /\ t \in Turns
  <2>1. CASE t = hidden
    BY <1>4, <1>6, <2>1
  <2>2. CASE t \in UiDriven(hidden, outputs)
    <3>1. \A o \in outputs : Ready(o) /\ Leaves(o) /\ Whole(hidden, o)
      BY <1>4, <1>6, CarriedWhole
    <3>2. Preserves(hidden, t, m, TRUE) /\ HandledAtOnce(hidden, t, focus.context)
      BY <1>1, <1>6, <2>2, <3>1, UiDrivenAccounts, UiDrivenIs DEF Preserves
    <3> QED
      BY <1>6, <3>2 DEF Preserves, HandledAtOnce, Handled, Sound
  <2> QED
    BY <1>7, <2>1, <2>2
<1> QED
  BY <1>1, <1>7, <1>8, TakenLasts

(* Activation changes the mode at most, and a session at rest is empty.    *)
LEMMA ActivatingKeepsText ==
  ASSUME Good(engine), NEW o \in ModeOutcomes(engine, "Hiragana"), engine' = o.session
  PROVE  engine'.text = engine.text
<1>1. CASE engine.state = "Direct"
  <2>1. engine' = Empty("Idle")
    BY <1>1 DEF ModeOutcomes, Shows
  <2>2. engine = Empty("Direct")
    BY <1>1 DEF Good
  <2> QED
    BY <2>1, <2>2, EmptyIsGood, BoundsAssumption
<1>2. CASE engine.state # "Direct"
  BY <1>2 DEF ModeOutcomes, Shows
<1> QED
  BY <1>1, <1>2

LEMMA ActivatingAccounts ==
  ASSUME IInv, Accounts(Now, focus.manager), NEW o \in ModeOutcomes(engine, "Hiragana"),
         engine' = o.session, Alike(doc, doc'), UNCHANGED focus
  PROVE  Lasts(TRUE)
<1>1. /\ Now \in Turns /\ Now.doc = doc /\ Now.engine = engine
      /\ Now'.engine = engine' /\ Now'.doc = doc' /\ Good(engine)
  BY NowIs, NowNext DEF IInv, Sound
<1>2. engine'.text = engine.text
  BY <1>1, ActivatingKeepsText
<1>3. Preserves(Now, Now', focus.manager, TRUE)
  BY <1>1, <1>2, PreservesNothingNew
<1> QED
  BY <1>3 DEF Lasts, Preserves


-----------------------------------------------------------------------------
(* What is typed is accounted for in every state, and stays.               *)

ErasesText == \E key \in {"Erase", "Backspace", "Toggle", "Latin"} : KeyDown(key, NoChar)

Passes == Lasts(FALSE) /\ (Lasts(TRUE) \/ ErasesText \/ SessionWaits)

LEMMA AccountsStart == Init => Accounts(Now, focus.manager)
<1> SUFFICES ASSUME Init
             PROVE  Accounts(Now, focus.manager)
  OBVIOUS
<1>1. Now.doc = doc /\ Now.engine = engine
  BY NowIs
<1>2. TextIn(Now) = {}
  BY <1>1, EmptyIsGood, EmptyText, BoundsAssumption DEF Init, TextIn
<1>3. doc.queue = <<>> /\ doc.composition = NoComposition
  BY DEF Init
<1> QED
  BY <1>1, <1>2, <1>3, CompositionsAre DEF Accounts, Accounted, Standing

LEMMA AccountsStep ==
  ASSUME IInv, Accounts(Now, focus.manager), [Next]_vars
  PROVE  Passes
<1>1. Sound(Now) /\ doc \in Docs /\ Now.doc = doc
  BY NowIs, TurnsAre DEF IInv, Sound
<1>2. Lasts(TRUE) => Passes
  BY DEF Lasts, Passes
<1>3. Alike(doc, doc) /\ Alike(Released(doc), Released(doc))
  BY DEF Alike
<1>4. ASSUME NEW key \in ServiceKeys, NEW ch \in Inputs(key), KeyDown(key, ch)
      PROVE  Passes
  <2>1. Lasts(KeepsAll(key))
    BY <1>4, KeyDownAccounts
  <2>2. CASE KeepsAll(key)
    BY <1>2, <2>1, <2>2 DEF Lasts
  <2>3. CASE ~KeepsAll(key)
    <3>1. ch = NoChar
      BY <1>4, <2>3 DEF KeepsAll, Inputs, Prints
    <3> QED
      BY <1>4, <2>1, <2>3, <3>1 DEF Lasts, KeepsAll, ErasesText, Passes
  <2> QED
    BY <2>2, <2>3
<1>5. CASE LoseForeground
  BY <1>2, <1>5, LoseForegroundAccounts
<1>6. ASSUME NEW manager \in Contexts \cup {NoContext}, NEW previous \in Contexts \cup {NoContext},
             MoveFocus(manager, previous)
      PROVE  Passes
  BY <1>2, <1>6, MoveFocusAccounts
<1>7. ASSUME NEW c \in Contexts, PushContext(c)
      PROVE  Passes
  BY <1>1, <1>2, <1>3, <1>7, LettingGoLasts DEF PushContext
<1>8. ASSUME NEW c \in Contexts, PopContext(c)
      PROVE  Passes
  <2>1. doc' \in {doc, Released(doc)} /\ engine' = engine /\ focus'.manager = focus.manager
    BY <1>1, <1>8 DEF PopContext, IInv, SettingsInv
  <2> QED
    BY <1>1, <1>2, <1>3, <2>1, LettingGoLasts
<1>9. CASE TerminateComposition
  <2>1. PICK left : doc' = [Released(doc) EXCEPT !.left = left]
    BY <1>9 DEF TerminateComposition
  <2>2. Released(doc) \in Docs
    BY <1>1, ReleasedIs DEF Follows
  <2>3. Alike(Released(doc), doc')
    BY <2>1, <2>2 DEF Alike, Docs
  <2> QED
    BY <1>1, <1>2, <1>9, <2>3, LettingGoLasts DEF TerminateComposition
<1>10. CASE RunEditSession
  BY <1>1, <1>10, RunEditSessionAccounts DEF RunEditSession, SessionWaits, Passes
<1>11. ASSUME NEW i \in 0 .. MaxList - 1, UiSelect(i)
       PROVE  Passes
  <2>1. i \in Nat
    BY BoundsAssumption
  <2> QED
    BY <1>2, <1>11, <2>1, UiSelectAccounts
<1>12. Good(engine)
  BY <1>1, NowIs DEF Sound
<1>13. CASE UiFinalize
  <2>1. \A o \in FinalizeCandidateSelection(engine) : Proper(engine, o) /\ Carries(engine, o, {}, TRUE)
    BY <1>12, EveryFinalize, BoundsAssumption
  <2> QED
    BY <1>2, <1>13, <2>1, UiEndAccounts DEF UiFinalize
<1>14. CASE UiAbort
  <2>1. \A o \in AbortCandidateSelection(engine) : Proper(engine, o) /\ Carries(engine, o, {}, TRUE)
    BY <1>12, EveryAbort, BoundsAssumption
  <2> QED
    BY <1>2, <1>14, <2>1, UiEndAccounts DEF UiAbort
<1>15. ASSUME UNCHANGED <<engine, doc, focus>>
       PROVE  Passes
  BY <1>1, <1>2, <1>3, <1>15, LettingGoLasts
<1>16. ASSUME Activate \/ FailToActivate
       PROVE  Passes
  <2>1. PICK o \in ModeOutcomes(engine, "Hiragana") : engine' = o.session
    BY <1>16 DEF Activate, FailToActivate
  <2>2. doc' = doc \/ doc' \in Faults(doc)
    BY <1>16 DEF Activate, FailToActivate, Faults
  <2>3. Alike(doc, doc')
    BY <1>1, <1>3, <2>2, FaultsAre DEF Alike, Follows
  <2>4. UNCHANGED focus
    BY <1>16 DEF Activate, FailToActivate
  <2> QED
    BY <1>2, <2>1, <2>3, <2>4, ActivatingAccounts
<1>17. CASE Deactivate
  BY <1>1, <1>2, <1>3, <1>17, LettingGoLasts DEF Deactivate
<1>18. UNCHANGED vars \/ UiPage \/ UiEnded \/ (\E show \in BOOLEAN : UiShow(show)) =>
         UNCHANGED <<engine, doc, focus>>
  BY DEF vars, UiPage, UiEnded, UiShow
<1> QED
  BY <1>4, <1>5, <1>6, <1>7, <1>8, <1>9, <1>10, <1>11, <1>13, <1>14, <1>15, <1>16, <1>17, <1>18
     DEF Next

(* Where no edit session waits, a character has a copy where it is         *)
(* everywhere accounted for, and is accounted for where it has a copy.     *)
LEMMA CopiesAreAccounted ==
  ASSUME IInv, Accounts(Now, focus.manager), ~SessionWaits, NEW ch, CopiesOf(ch) > 0, ch \in Chars
  PROVE  ch \in Everywhere(Now)
<1>1. /\ Now.doc = doc /\ Now.engine = engine /\ doc \in Docs /\ doc.queue = <<>>
      /\ Accounted(ToSet(engine.text), doc, focus.manager)
  BY NowIs, TurnsAre DEF IInv, Sound, Accounts, TextIn, SessionWaits
<1>2. CommitsWaiting(doc, doc.composition.context, 1) = {}
  BY <1>1 DEF CommitsWaiting
<1>3. doc.composition.text \subseteq Saved(doc) \cup ToSet(engine.text)
  BY <1>1, <1>2 DEF Accounted, Standing, Owed
<1>4. doc.plain[ch] > 0 \/ Held(ch)
  <2>1. doc.plain[ch] \in 0 .. 2
    BY <1>1, DocsAre DEF Copies
  <2> QED
    BY <2>1 DEF CopiesOf
<1>5. Held(ch) => ch \in doc.composition.text \/ ch \in ToSet(engine.text)
  BY <1>1 DEF Held
<1> QED
  BY <1>1, <1>3, <1>4, <1>5 DEF Everywhere, TextIn, Saved

LEMMA AccountedHaveCopies ==
  ASSUME IInv', NEW ch \in Chars, (ch \in Everywhere(Now))'
  PROVE  CopiesOf(ch)' > 0
<1>1. /\ Now'.doc = doc' /\ Now'.engine = engine' /\ doc' \in Docs
  BY NowNext, TurnsAre DEF IInv, Sound
<1>2. doc'.plain[ch] \in 0 .. 2
  BY <1>1, DocsAre DEF Copies
<1>3. doc'.plain[ch] > 0 \/ Held(ch)'
  BY <1>1 DEF Everywhere, TextIn, Saved, OnItsWay, Held
<1> QED
  BY <1>2, <1>3 DEF CopiesOf

(* Nothing typed is lost: the inductive invariant is that the session's    *)
(* text, the composition and the edit sessions that wait are accounted for *)
(* by one another and by the documents.                                    *)
THEOREM NothingIsLost == Spec => NothingTypedVanishes
<1> DEFINE Inv == IInv /\ Accounts(Now, focus.manager)
<1>1. Init => Inv
  BY InitSound, AccountsStart
<1>2. Inv /\ IInv' /\ [Next]_vars => Inv'
  BY AccountsStep DEF Passes, Lasts
<1>3. Inv /\ IInv' /\ [Next]_vars =>
        [(\E ch \in Chars : CopiesOf(ch) > 0 /\ CopiesOf(ch)' = 0) =>
           \/ \E key \in {"Erase", "Backspace", "Toggle", "Latin"} : KeyDown(key, NoChar)
           \/ SessionWaits]_vars
  <2> SUFFICES ASSUME Inv, IInv', [Next]_vars, NEW ch \in Chars, CopiesOf(ch) > 0, CopiesOf(ch)' = 0,
                      ~SessionWaits
               PROVE  ErasesText
    BY DEF ErasesText
  <2>1. Lasts(TRUE) \/ ErasesText
    BY AccountsStep DEF Passes
  <2>2. ch \in Everywhere(Now)
    BY CopiesAreAccounted
  <2>3. Lasts(TRUE) => CopiesOf(ch)' > 0
    <3>1. Lasts(TRUE) => (ch \in Everywhere(Now))'
      BY <2>2 DEF Lasts, Everywhere
    <3> QED
      BY <3>1, AccountedHaveCopies
  <2>4. ~(CopiesOf(ch)' > 0)
    BY CopiesOf(ch)' = 0
  <2> QED
    BY <2>1, <2>3, <2>4
<1>4. Inv => IInv
  OBVIOUS
<1> HIDE DEF Inv
<1> QED
  BY Inductive, <1>1, <1>2, <1>3, PTL DEF Spec, NothingTypedVanishes

-----------------------------------------------------------------------------
(* What is typed once stands once.  A character has a single copy where no *)
(* document has it, or one document and nothing else.                      *)

Single(t, ch) ==
  \/ t.doc.plain[ch] = 0
  \/ /\ t.doc.plain[ch] = 1
     /\ ch \notin t.doc.composition.text \cup TextIn(t) \cup OnItsWay(t.doc)

Unseen(t, ch) == t.doc.plain[ch] = 0 /\ ch \notin t.doc.composition.text \cup TextIn(t)

(* No edit session waits, and no composition is elsewhere than in `c`.     *)
Quiet(t, c) == t.doc.queue = <<>> /\ t.doc.composition.context \in {NoContext, c}

(* A handler that no failing call disturbs keeps single copies single,     *)
(* with the characters it has typed, and what is not there it does not     *)
(* bring.                                                                  *)
KeepsSingle(t, u, c, typed) ==
  NoneFails(t.doc, u.doc) /\ Quiet(t, c) /\ (\A ch \in typed : t.doc.plain[ch] = 0) =>
    /\ Quiet(u, c)
    /\ \A ch \in Chars : /\ Single(t, ch) => Single(u, ch)
                         /\ Unseen(t, ch) /\ ch \notin typed => Unseen(u, ch)

LEMMA NothingOnItsWay ==
  ASSUME NEW d, d.queue = <<>>
  PROVE  OnItsWay(d) = {}
BY DEF OnItsWay

LEMMA SameKeepsSingle ==
  ASSUME NEW t, NEW u, u.engine.text = t.engine.text, Alike(t.doc, u.doc), NEW c, NEW typed
  PROVE  KeepsSingle(t, u, c, typed)
<1>1. TextIn(u) = TextIn(t) /\ OnItsWay(u.doc) = OnItsWay(t.doc)
  BY DEF TextIn, OnItsWay, Alike
<1> QED
  BY <1>1 DEF KeepsSingle, Quiet, Single, Unseen, Alike

LEMMA KeepsSingleOn ==
  ASSUME NEW t, Sound(t), NEW c, NEW u, Follows(t.doc, u.doc), NEW v, Follows(u.doc, v.doc),
         KeepsSingle(t, u, c, {}), NEW typed, KeepsSingle(u, v, c, typed),
         \A ch \in typed : ch \in Chars /\ (t.doc.plain[ch] = 0 => Unseen(t, ch))
  PROVE  KeepsSingle(t, v, c, typed)
<1>1. NoneFails(t.doc, v.doc) => NoneFails(t.doc, u.doc) /\ NoneFails(u.doc, v.doc)
  BY FollowsOn, TurnsAre DEF Sound
<1> SUFFICES ASSUME NoneFails(t.doc, v.doc), Quiet(t, c), \A ch \in typed : t.doc.plain[ch] = 0
             PROVE  /\ Quiet(v, c)
                    /\ \A ch \in Chars : /\ Single(t, ch) => Single(v, ch)
                                         /\ Unseen(t, ch) /\ ch \notin typed => Unseen(v, ch)
  BY DEF KeepsSingle
<1>2. Quiet(u, c) /\ \A ch \in Chars : /\ Single(t, ch) => Single(u, ch)
                                       /\ Unseen(t, ch) => Unseen(u, ch)
  BY <1>1 DEF KeepsSingle
<1>3. \A ch \in typed : u.doc.plain[ch] = 0
  BY <1>2 DEF Unseen
<1> QED
  BY <1>1, <1>2, <1>3 DEF KeepsSingle

(* Discarding the session puts the composition's text into the document,   *)
(* and nothing has it any more.                                            *)
LEMMA DiscardKeepsSingle ==
  ASSUME NEW t \in Turns, NEW c, NEW typed
  PROVE  KeepsSingle(t, DiscardSessionAndCloseUi(t), c, typed)
<1> DEFINE u == DiscardSessionAndCloseUi(t)
           f == Released(t.doc)
<1>1. t.doc \in Docs /\ t.doc.plain \in [Chars -> Copies] /\ t.doc.composition \in Compositions
  BY TurnsAre, DocsAre
<1>2. f.queue = t.doc.queue /\ f.composition = NoComposition
  BY <1>1, ReleasedIs DEF Follows
<1>3. u.engine = Discarded(t.engine) /\ u.doc = f
  BY DEF DiscardSessionAndCloseUi, CloseCandidateUi, Turns
<1>4. f.plain = Put(t.doc.plain, t.doc.composition.text)
  <2>1. CASE HasComposition(t.doc)
    BY <1>1, <2>1 DEF Released, Docs
  <2>2. CASE ~HasComposition(t.doc)
    <3>1. f = t.doc /\ t.doc.composition.text = {}
      BY <2>2, CompositionsAre DEF Released, HasComposition
    <3>2. Put(t.doc.plain, {}) = t.doc.plain
      BY <1>1 DEF Put
    <3> QED
      BY <3>1, <3>2
  <2> QED
    BY <2>1, <2>2
<1>5. \A ch \in Chars : f.plain[ch] = IF ch \in t.doc.composition.text /\ t.doc.plain[ch] < 2
                                      THEN t.doc.plain[ch] + 1 ELSE t.doc.plain[ch]
  BY <1>4 DEF Put
<1> HIDE DEF u, f
<1>6. TextIn(u) = {}
  <2>1. Discarded(t.engine).text = <<>>
    BY DEF Discarded, Empty
  <2> QED
    BY <1>3, <2>1, EmptyText DEF TextIn
<1>7. ASSUME Quiet(t, c)
      PROVE  /\ Quiet(u, c)
             /\ \A ch \in Chars : /\ Single(t, ch) => Single(u, ch)
                                  /\ Unseen(t, ch) => Unseen(u, ch)
  <2>1. Quiet(u, c) /\ u.doc.composition.text = {} /\ OnItsWay(u.doc) = {}
    BY <1>2, <1>3, <1>7, CompositionsAre, NothingOnItsWay DEF Quiet
  <2> QED
    BY <1>3, <1>5, <1>6, <2>1 DEF Single, Unseen
<1> QED
  BY <1>7 DEF KeepsSingle, u

(* An edit session applied undisturbed.                                    *)
LEMMA AppliedKeepsSingle ==
  ASSUME NEW t, Sound(t), NEW c \in Contexts, NEW o, Ready(o), Leaves(o), NEW typed,
         ToSet(TextOf(o)) \subseteq TextIn(t) \cup typed,
         NEW u, u.engine = o.session, u.doc.queue = t.doc.queue,
         Applied(t.doc, Edit(c, o), u.doc)
  PROVE  KeepsSingle(t, u, c, typed)
<1> DEFINE e == Edit(c, o)
<1>1. e.context = c /\ e.action = o.action /\ e.text = ToSet(TextOf(o))
  BY EditsAre
<1>2. t.doc \in Docs /\ t.doc.plain \in [Chars -> Copies] /\ t.doc.composition \in Compositions
  BY TurnsAre, DocsAre DEF Sound
<1> HIDE DEF e
<1>3. Applied(t.doc, e, u.doc) /\ o.action \in {"Update", "Clear", "Commit"}
  BY DEF e, Ready
<1> SUFFICES ASSUME Quiet(t, c), \A ch \in typed : t.doc.plain[ch] = 0
             PROVE  /\ Quiet(u, c)
                    /\ \A ch \in Chars : /\ Single(t, ch) => Single(u, ch)
                                         /\ Unseen(t, ch) /\ ch \notin typed => Unseen(u, ch)
  BY DEF KeepsSingle
<1>4. OnItsWay(u.doc) = {} /\ u.doc.queue = <<>>
  BY NothingOnItsWay DEF Quiet
<1>5. CASE o.action = "Commit"
  <2>1. TextIn(u) = {}
    BY <1>5, EmptyText DEF Leaves, TextIn
  <2>2. u.doc.composition = NoComposition
    BY <1>1, <1>2, <1>3, <1>5, CompositionsAre DEF Applied, Quiet
  <2>3. u.doc.plain = Put(t.doc.plain, ToSet(TextOf(o)))
    BY <1>1, <1>3, <1>5 DEF Applied
  <2>4. \A ch \in Chars : u.doc.plain[ch] = IF ch \in ToSet(TextOf(o)) /\ t.doc.plain[ch] < 2
                                            THEN t.doc.plain[ch] + 1 ELSE t.doc.plain[ch]
    BY <2>3 DEF Put
  <2> QED
    BY <1>4, <2>1, <2>2, <2>4, CompositionsAre DEF Quiet, Single, Unseen
<1>6. CASE o.action = "Update"
  <2>1. TextIn(u) = ToSet(TextOf(o))
    BY <1>6 DEF TextIn, TextOf
  <2>2. /\ u.doc.composition = [context |-> c, text |-> ToSet(TextOf(o))]
        /\ u.doc.plain = t.doc.plain
    BY <1>1, <1>3, <1>6 DEF Applied, Quiet
  <2> QED
    BY <1>4, <2>1, <2>2 DEF Quiet, Single, Unseen
<1>7. CASE o.action = "Clear"
  <2>1. TextIn(u) = {}
    BY <1>7, EmptyText DEF Leaves, TextIn
  <2>2. u.doc.composition = NoComposition /\ u.doc.plain = t.doc.plain
    BY <1>1, <1>3, <1>7 DEF Applied
  <2> QED
    BY <1>4, <2>1, <2>2, CompositionsAre DEF Quiet, Single, Unseen
<1> QED
  BY <1>3, <1>5, <1>6, <1>7

LEMMA TryDispatchKeepsSingle ==
  ASSUME NEW t, Sound(t), NEW c \in Contexts \cup {NoContext}, NEW o, Ready(o), Leaves(o), NEW typed,
         ToSet(TextOf(o)) \subseteq TextIn(t) \cup typed, NEW r \in TryDispatchOutput(t, c, o)
  PROVE  /\ KeepsSingle(t, r.turn, c, typed)
         /\ ~r.ok => KeepsSingle(t, DiscardSessionAndCloseUi(r.turn), c, typed)
<1> DEFINE u == r.turn
           v == DiscardSessionAndCloseUi(u)
<1>1. /\ u \in Turns /\ Follows(t.doc, u.doc) /\ Len(u.doc.queue) <= MaxQueued
      /\ r.ok => u.engine = o.session
      /\ ~r.ok => u.engine = t.engine
      /\ c # NoContext /\ Undisturbed(t.doc, u.doc) => r.ok /\ Applied(t.doc, Edit(c, o), u.doc)
      /\ c = NoContext => u.doc = t.doc
  <2>1. /\ HandledAtOnce(t, u, c)
        /\ r.ok => u.engine = o.session
        /\ ~r.ok => u.engine = t.engine
        /\ c # NoContext /\ Undisturbed(t.doc, u.doc) => r.ok /\ Applied(t.doc, Edit(c, o), u.doc)
        /\ c = NoContext => u.doc = t.doc
    BY TryDispatchOutputIs
  <2> HIDE DEF u
  <2> QED
    BY <2>1 DEF HandledAtOnce, Handled, Sound
<1>2. Follows(u.doc, v.doc) /\ KeepsSingle(u, v, c, typed)
  BY <1>1, DiscardHandled, DiscardKeepsSingle
<1>3. NoneFails(t.doc, v.doc) => NoneFails(t.doc, u.doc)
  BY <1>1, <1>2, FollowsOn, TurnsAre DEF Sound
<1>4. NoneFails(t.doc, u.doc) /\ Quiet(t, c) => Undisturbed(t.doc, u.doc)
  BY <1>1 DEF Undisturbed, Quiet, Follows
<1>5. c = NoContext => ~r.ok
  BY DEF TryDispatchOutput, Undone
<1> HIDE DEF u, v
<1>6. CASE c = NoContext
  <2>1. u.engine = t.engine /\ u.doc = t.doc
    BY <1>1, <1>5, <1>6
  <2>2. KeepsSingle(t, u, c, typed)
    BY <2>1, SameKeepsSingle DEF Alike
  <2>3. KeepsSingle(t, v, c, typed)
    BY <1>2, <2>1 DEF KeepsSingle, Quiet, Single, Unseen, TextIn
  <2> QED
    BY <2>2, <2>3 DEF u, v
<1>7. CASE c # NoContext
  <2>1. KeepsSingle(t, u, c, typed)
    <3>1. CASE NoneFails(t.doc, u.doc) /\ Quiet(t, c)
      <4>1. r.ok /\ Applied(t.doc, Edit(c, o), u.doc) /\ c \in Contexts
        BY <1>1, <1>4, <1>7, <3>1
      <4>2. u.engine = o.session /\ u.doc.queue = t.doc.queue
        BY <1>1, <4>1 DEF Follows
      <4> QED
        BY <4>1, <4>2, AppliedKeepsSingle
    <3>2. CASE ~(NoneFails(t.doc, u.doc) /\ Quiet(t, c))
      BY <3>2 DEF KeepsSingle
    <3> QED
      BY <3>1, <3>2
  <2>2. ~r.ok => KeepsSingle(t, v, c, typed)
    BY <1>1, <1>3, <1>4, <1>7 DEF KeepsSingle
  <2> QED
    BY <2>1, <2>2 DEF u, v
<1> QED
  BY <1>6, <1>7

(* The character a key types.                                              *)
TypedBy(key, ch) == IF Prints(key) THEN {ch} ELSE {}

LEMMA KeyTypes ==
  ASSUME NEW t, Sound(t), NEW key, NEW ch, Pressed(t, key, ch),
         NEW o \in Outcomes(t.engine, EngineKey(t.engine, key), ch)
  PROVE  ToSet(TextOf(o)) \subseteq TextIn(t) \cup TypedBy(key, ch)
<1> DEFINE s == t.engine
           k == EngineKey(s, key)
<1>1. k \in Keys /\ (Types(k) => ch \in Chars /\ Prints(key)) /\ Good(s) /\ MaxList \in Nat
  BY EngineKeyIs, BoundsAssumption DEF Pressed, Sound
<1>2. \/ Types(k) /\ Carries(s, o, {ch}, TRUE)
      \/ Carries(s, o, {}, KeepsText(k))
  <2>1. o \in Outcomes(s, k, ch)
    OBVIOUS
  <2> HIDE DEF s, k
  <2> QED
    BY <1>1, <2>1, EveryKey
<1> QED
  BY <1>1, <1>2 DEF Carries, TextIn, TypedBy

LEMMA ProcessedKeepsSingle ==
  ASSUME NEW t, Sound(t), NEW c \in Contexts \cup {NoContext}, NEW key, NEW ch,
         Pressed(t, key, ch), NEW r \in Processed(t, c, key, ch)
  PROVE  KeepsSingle(t, r.turn, c, TypedBy(key, ch))
<1>1. PICK o \in Outcomes(t.engine, EngineKey(t.engine, key), ch) :
        r \in IF ~o.consumed THEN {Declined([t EXCEPT !.engine = o.session])}
              ELSE {IF q.ok THEN Eaten(q.turn) ELSE Declined(DiscardSessionAndCloseUi(q.turn)) :
                      q \in TryDispatchOutput(t, c, o)}
  BY DEF Processed
<1>2. /\ Proper(t.engine, o) /\ Ready(o) /\ Leaves(o)
      /\ ToSet(TextOf(o)) \subseteq TextIn(t) \cup TypedBy(key, ch)
  BY <1>1, KeyOutcome, KeyLeaves, KeyTypes
<1>3. CASE ~o.consumed
  <2>1. o.session = t.engine
    BY <1>2, <1>3 DEF Proper
  <2>2. [t EXCEPT !.engine = t.engine] = t
    BY TurnsAre DEF Sound, Turns
  <2>3. r = Declined(t)
    BY <1>1, <1>3, <2>1, <2>2
  <2>4. r.turn = t
    BY <2>3 DEF Declined
  <2> QED
    BY <2>4, SameKeepsSingle DEF Alike
<1>4. CASE o.consumed
  <2>1. PICK q \in TryDispatchOutput(t, c, o) :
          r = IF q.ok THEN Eaten(q.turn) ELSE Declined(DiscardSessionAndCloseUi(q.turn))
    BY <1>1, <1>4
  <2>2. r.turn = IF q.ok THEN q.turn ELSE DiscardSessionAndCloseUi(q.turn)
    BY <2>1 DEF Eaten, Declined
  <2> QED
    BY <1>2, <2>1, <2>2, TryDispatchKeepsSingle
<1> QED
  BY <1>3, <1>4

LEMMA RestartedKeepsSingle ==
  ASSUME NEW t, Sound(t), NEW c \in Contexts \cup {NoContext}, NEW key, NEW ch,
         Pressed(t, key, ch), NEW u \in Restarted(t, c, key, ch)
  PROVE  KeepsSingle(t, u, c, TypedBy(key, ch))
<1>1. PICK o \in Outcomes(t.engine, EngineKey(t.engine, key), ch) :
        u \in IF ~o.consumed THEN {t}
              ELSE {IF q.ok THEN q.turn ELSE DiscardSessionAndCloseUi(q.turn) :
                      q \in TryDispatchOutput(t, c, o)}
  BY DEF Restarted
<1>2. Ready(o) /\ Leaves(o) /\ ToSet(TextOf(o)) \subseteq TextIn(t) \cup TypedBy(key, ch)
  BY <1>1, KeyLeaves, KeyTypes
<1>3. CASE ~o.consumed
  BY <1>1, <1>3, SameKeepsSingle DEF Alike
<1>4. CASE o.consumed
  <2>1. PICK q \in TryDispatchOutput(t, c, o) :
          u = IF q.ok THEN q.turn ELSE DiscardSessionAndCloseUi(q.turn)
    BY <1>1, <1>4
  <2> QED
    BY <1>2, <2>1, TryDispatchKeepsSingle
<1> QED
  BY <1>3, <1>4

LEMMA FullWidthKeepsSingle ==
  ASSUME NEW t, Sound(t), t.engine.state = "Direct", NEW c \in Contexts \cup {NoContext},
         NEW ch \in Chars, NEW u \in CommittedFullWidth(t, c, ch)
  PROVE  KeepsSingle(t, u, c, {ch})
<1> DEFINE o == [Commits(<<ch>>) EXCEPT !.session = t.engine]
<1>1. /\ t \in Turns /\ t.doc \in Docs /\ Good(t.engine) /\ Distinct(t.engine.text)
      /\ t.engine.text = <<>>
  BY EmptyIsGood, TurnsAre, BoundsAssumption DEF Sound, Good
<1>2. CASE c = NoContext
  <2>1. u = DiscardSessionAndCloseUi(t)
    BY <1>2 DEF CommittedFullWidth
  <2> QED
    BY <1>1, <2>1, DiscardKeepsSingle
<1>3. CASE c # NoContext
  <2>1. PICK q \in DispatchEngineOutput(t, c, o, TRUE) : u = CloseCandidateUi(q.turn)
    BY <1>3 DEF CommittedFullWidth
  <2>2. o.session = t.engine /\ o.action = "Commit" /\ o.sent = <<ch>>
    BY DEF Commits
  <2>3. <<ch>> \in Seq(Chars) /\ ToSet(<<ch>>) = {ch} /\ c \in Contexts /\ TRUE \in BOOLEAN
    BY <1>3 DEF ToSet
  <2> HIDE DEF o
  <2>4. Ready(o) /\ Leaves(o) /\ ToSet(TextOf(o)) \subseteq TextIn(t) \cup {ch}
    BY <1>1, <2>2, <2>3 DEF Ready, Leaves, TextOf
  <2>5. /\ q.turn \in Turns /\ q.turn.engine = o.session /\ Follows(t.doc, q.turn.doc)
        /\ t.doc.queue = <<>> /\ q.turn.doc.queue = <<>> /\ NoneFails(t.doc, q.turn.doc) =>
             Applied(t.doc, Edit(c, o), q.turn.doc)
    BY <2>1, <2>3, <2>4, DispatchEngineOutputIs
  <2>6. u.engine = o.session /\ u.doc = q.turn.doc
    BY <2>1, <2>5, ClosedIs
  <2>7. CASE NoneFails(t.doc, u.doc) /\ Quiet(t, c)
    <3>1. u.doc.queue = t.doc.queue /\ Applied(t.doc, Edit(c, o), u.doc)
      BY <2>5, <2>6, <2>7 DEF Follows, Quiet
    <3> QED
      BY <2>3, <2>4, <2>6, <3>1, AppliedKeepsSingle
  <2>8. CASE ~(NoneFails(t.doc, u.doc) /\ Quiet(t, c))
    BY <2>8 DEF KeepsSingle
  <2> QED
    BY <2>7, <2>8
<1> QED
  BY <1>2, <1>3

LEMMA TryCommitKeepsSingle ==
  ASSUME NEW t, Sound(t), NEW c \in Contexts \cup {NoContext}, NEW r \in TryCommitOpenSession(t, c)
  PROVE  KeepsSingle(t, r.turn, c, {})
<1> DEFINE commits ==
             IF t.engine.state = "Converting" THEN FinalizeCandidateSelection(t.engine) ELSE {}
<1>1. t \in Turns /\ Good(t.engine) /\ t.engine \in Sessions
  BY TurnsAre DEF Sound
<1>2. CASE r.turn = t
  BY <1>2, SameKeepsSingle DEF Alike
<1>3. ASSUME c # NoContext, NEW o \in commits, NEW q \in DispatchEngineOutput(t, c, o, TRUE),
             r = IF q.ok THEN q ELSE Undone(RolledBack(q.turn, t.engine))
      PROVE  KeepsSingle(t, r.turn, c, {})
  <2>1. c \in Contexts /\ o \in FinalizeCandidateSelection(t.engine)
    BY <1>3
  <2>2. Ready(o) /\ Leaves(o) /\ ToSet(TextOf(o)) \subseteq TextIn(t) \cup {}
    BY <1>1, <2>1, EveryFinalize, CarriedWhole, BoundsAssumption
  <2>3. TRUE \in BOOLEAN /\ q \in DispatchEngineOutput(t, c, o, TRUE)
    BY <1>3
  <2> HIDE DEF commits
  <2>4. /\ q.turn \in Turns /\ q.turn.engine = o.session /\ Follows(t.doc, q.turn.doc)
        /\ t.doc.queue = <<>> /\ q.turn.doc.queue = <<>> /\ NoneFails(t.doc, q.turn.doc) =>
             q.ok /\ Applied(t.doc, Edit(c, o), q.turn.doc)
    BY <2>1, <2>2, <2>3, DispatchEngineOutputIs
  <2>5. r.turn.doc = q.turn.doc
    <3>1. CASE q.ok
      BY <1>3, <3>1
    <3>2. CASE ~q.ok
      <4> DEFINE u == RolledBack(q.turn, t.engine)
      <4>1. r = Undone(u)
        BY <1>3, <3>2
      <4>2. u.doc = q.turn.doc
        BY <1>1, <2>4, TurnsAre DEF RolledBack
      <4> HIDE DEF u
      <4> QED
        BY <4>1, <4>2 DEF Undone
    <3> QED
      BY <3>1, <3>2
  <2>6. CASE NoneFails(t.doc, q.turn.doc) /\ Quiet(t, c)
    <3>1. q.turn.doc.queue = t.doc.queue /\ Applied(t.doc, Edit(c, o), q.turn.doc) /\ q.ok
      BY <2>4, <2>6 DEF Follows, Quiet
    <3>2. r.turn = q.turn
      BY <1>3, <3>1
    <3> QED
      BY <2>1, <2>2, <2>4, <3>1, <3>2, AppliedKeepsSingle
  <2>7. CASE ~(NoneFails(t.doc, q.turn.doc) /\ Quiet(t, c))
    BY <2>5, <2>7 DEF KeepsSingle
  <2> QED
    BY <2>6, <2>7
<1>4. \/ r.turn = t
      \/ c # NoContext /\ \E o \in commits : \E q \in DispatchEngineOutput(t, c, o, TRUE) :
           r = IF q.ok THEN q ELSE Undone(RolledBack(q.turn, t.engine))
  <2>1. CASE c = NoContext
    BY <2>1 DEF TryCommitOpenSession, Undone
  <2>2. CASE c # NoContext /\ commits = {}
    <3>1. r = Done(t)
      BY <2>2 DEF TryCommitOpenSession
    <3> QED
      BY <3>1 DEF Done
  <2>3. CASE c # NoContext /\ commits # {}
    <3>1. r \in UNION {{IF q.ok THEN q ELSE Undone(RolledBack(q.turn, t.engine)) :
                         q \in DispatchEngineOutput(t, c, o, TRUE)} : o \in commits}
      BY <2>3, Zenon DEF TryCommitOpenSession
    <3> HIDE DEF commits
    <3> QED
      BY <2>3, <3>1
  <2> QED
    BY <2>1, <2>2, <2>3
<1> QED
  BY <1>2, <1>3, <1>4

LEMMA OnKeyDownKeepsSingle ==
  ASSUME Sound(Now), NEW c \in Contexts \cup {NoContext}, NEW key, NEW ch, Pressed(Now, key, ch),
         Prints(key) => Unseen(Now, ch), NEW r \in OnKeyDown(c, key, ch)
  PROVE  KeepsSingle(Now, r.turn, c, TypedBy(key, ch))
<1> DEFINE typed == TypedBy(key, ch)
<1>1. /\ Now.engine = engine /\ Now.doc = doc /\ Now \in Turns
      /\ Prints(key) => ch \in Chars /\ ch \notin ToSet(engine.text)
      /\ \A x \in typed : x \in Chars /\ (Now.doc.plain[x] = 0 => Unseen(Now, x))
  BY NowIs DEF Sound, Pressed, TypedBy
<1>2. CASE r = Declined(Now)
  <2>1. r.turn = Now
    BY <1>2 DEF Declined
  <2> QED
    BY <2>1, SameKeepsSingle DEF Alike
<1>3. CASE r = Declined(DiscardSessionAndCloseUi(Now))
  <2>1. r.turn = DiscardSessionAndCloseUi(Now)
    BY <1>3 DEF Declined
  <2> QED
    BY <1>1, <2>1, DiscardKeepsSingle
<1>4. ASSUME engine.state = "Direct", key = "Letter", NEW u \in CommittedFullWidth(Now, c, ch), r = Eaten(u)
      PROVE  KeepsSingle(Now, r.turn, c, typed)
  <2>1. r.turn = u /\ ch \in Chars /\ typed = {ch}
    BY <1>1, <1>4 DEF Eaten, Prints, TypedBy
  <2>2. KeepsSingle(Now, u, c, {ch})
    BY <1>1, <1>4, <2>1, FullWidthKeepsSingle
  <2> QED
    BY <2>1, <2>2
<1>5. ASSUME r \in Processed(Now, c, key, ch)
      PROVE  KeepsSingle(Now, r.turn, c, typed)
  BY <1>5, ProcessedKeepsSingle
<1>6. ASSUME NEW q \in TryCommitOpenSession(Now, c),
             r \in IF ~q.ok THEN Processed(q.turn, c, key, ch)
                   ELSE IF Prints(key) THEN {Eaten(t) : t \in Restarted(q.turn, c, key, ch)}
                   ELSE {Eaten(q.turn)}
      PROVE  KeepsSingle(Now, r.turn, c, typed)
  <2>1. /\ HandledAtOnce(Now, q.turn, c) /\ ToSet(q.turn.engine.text) \subseteq ToSet(engine.text)
        /\ KeepsSingle(Now, q.turn, c, {})
    BY <1>1, TryCommitOpenSessionIs, TryCommitKeepsSingle
  <2>2. Sound(q.turn) /\ Pressed(q.turn, key, ch) /\ Follows(Now.doc, q.turn.doc)
    BY <1>1, <2>1 DEF HandledAtOnce, Handled, Pressed
  <2>3. ASSUME NEW v, Follows(q.turn.doc, v.doc), KeepsSingle(q.turn, v, c, typed)
        PROVE  KeepsSingle(Now, v, c, typed)
    <3> HIDE DEF typed
    <3> QED
      BY <1>1, <2>1, <2>2, <2>3, KeepsSingleOn
  <2>4. CASE ~q.ok
    <3>1. r \in Processed(q.turn, c, key, ch)
      BY <1>6, <2>4
    <3>2. KeepsSingle(q.turn, r.turn, c, typed) /\ Follows(q.turn.doc, r.turn.doc)
      BY <2>2, <3>1, ProcessedKeepsSingle, ProcessedIs DEF HandledAtOnce
    <3> QED
      BY <2>3, <3>2
  <2>5. CASE q.ok /\ ~Prints(key)
    <3>1. r = Eaten(q.turn)
      BY <1>6, <2>5
    <3>2. r.turn = q.turn /\ typed = {}
      BY <2>5, <3>1 DEF Eaten, TypedBy
    <3> QED
      BY <2>1, <3>2
  <2>6. CASE q.ok /\ Prints(key)
    <3>1. PICK u \in Restarted(q.turn, c, key, ch) : r = Eaten(u)
      BY <1>6, <2>6
    <3>2. r.turn = u
      BY <3>1 DEF Eaten
    <3>3. KeepsSingle(q.turn, u, c, typed) /\ Follows(q.turn.doc, u.doc)
      BY <2>2, <3>1, RestartedKeepsSingle, RestartedIs DEF HandledAtOnce
    <3> QED
      BY <2>3, <3>2, <3>3
  <2> QED
    BY <2>4, <2>5, <2>6
<1>7. \/ r = Declined(Now) \/ r = Declined(DiscardSessionAndCloseUi(Now))
      \/ /\ engine.state = "Direct" /\ key = "Letter"
         /\ \E u \in CommittedFullWidth(Now, c, ch) : r = Eaten(u)
      \/ r \in Processed(Now, c, key, ch)
      \/ \E q \in TryCommitOpenSession(Now, c) :
           r \in IF ~q.ok THEN Processed(q.turn, c, key, ch)
                 ELSE IF Prints(key) THEN {Eaten(t) : t \in Restarted(q.turn, c, key, ch)}
                 ELSE {Eaten(q.turn)}
  BY DEF OnKeyDown
<1> QED
  BY <1>2, <1>3, <1>4, <1>5, <1>6, <1>7

(* The application's copy of a key handed back is the only one: the        *)
(* service has used none.                                                  *)
LEMMA TypedKeepsSingle ==
  ASSUME NEW t \in Turns, NEW c, NEW ch \in Chars, Unseen(t, ch), Quiet(t, c)
  PROVE  \A x \in Chars : Single(t, x) => Single(Typed(t, c, ch), x)
<1> DEFINE u == Typed(t, c, ch)
           plain == IF c = NoContext THEN t.doc.plain ELSE Put(t.doc.plain, {ch})
           d == [t.doc EXCEPT !.plain = plain]
<1>1. t.doc \in Docs /\ t.doc.plain \in [Chars -> Copies]
  BY TurnsAre, DocsAre
<1>2. u = [t EXCEPT !.doc = d]
  BY DEF Typed
<1>3. d.plain = plain /\ d.queue = <<>> /\ d.composition = t.doc.composition
  BY <1>1 DEF Docs, Quiet
<1>4. \A x \in Chars : x # ch => plain[x] = t.doc.plain[x]
  BY DEF Put
<1>5. plain[ch] \in {0, 1}
  BY DEF Put, Unseen
<1> HIDE DEF d, plain
<1>6. u.engine = t.engine /\ u.doc = d
  BY <1>2 DEF Turns
<1> HIDE DEF u
<1>7. TextIn(u) = TextIn(t) /\ OnItsWay(u.doc) = {} /\ OnItsWay(t.doc) = {}
  BY <1>3, <1>6, NothingOnItsWay DEF TextIn, Quiet
<1>8. \A x \in Chars : Single(t, x) => Single(u, x)
  BY <1>3, <1>4, <1>5, <1>6, <1>7 DEF Single, Unseen
<1> QED
  BY <1>8 DEF u

(* The loss of the focus may leave the only edit session waiting, with the *)
(* text the session had.                                                   *)
LEMMA DeferredRequest ==
  ASSUME NEW d, d.queue = <<>>, NEW e, NEW r \in RequestEditSession(d, e, FALSE), d \in Docs,
         e \in EditSessions, NoneFails(d, r.doc)
  PROVE  r.ok /\ ((Follows(d, r.doc) /\ Applied(d, e, r.doc)) \/ r.doc = Deferred(d, e))
<1>1. CASE r \in ApplyEngineOutput(d, e)
  BY <1>1, ApplyEngineOutputIs
<1>2. CASE r \in Queued(d, e)
  BY <1>2 DEF Queued, Ok, Deferred
<1>3. ~\E f \in Faults(d) : r = Failed(f)
  BY FaultsAre DEF Failed
<1> QED
  BY <1>1, <1>2, <1>3 DEF RequestEditSession

LEMMA DeferredDispatch ==
  ASSUME NEW t, Sound(t), t.doc.queue = <<>>, NEW c \in Contexts, NEW o, Ready(o),
         NEW r \in DispatchEngineOutput(t, c, o, FALSE), NoneFails(t.doc, r.turn.doc)
  PROVE  /\ r.ok /\ r.turn.engine = o.session
         /\ \/ r.turn.doc.queue = t.doc.queue /\ Applied(t.doc, Edit(c, o), r.turn.doc)
            \/ r.turn.doc = Deferred(t.doc, Edit(c, o))
<1> DEFINE moved == [t EXCEPT !.engine = o.session]
<1>1. t \in Turns /\ t.doc \in Docs /\ o.session \in Sessions
  BY TurnsAre DEF Sound, Ready, Good
<1>2. moved \in Turns /\ moved.engine = o.session /\ moved.doc = t.doc
  BY <1>1, TurnsAre
<1>3. PICK q \in RequestEditSession(t.doc, Edit(c, o), FALSE) :
        r \in IF q.ok THEN {Done(u) : u \in UpdateCandidateUi([moved EXCEPT !.doc = q.doc])}
              ELSE {Undone([moved EXCEPT !.doc = q.doc])}
  BY DEF DispatchEngineOutput, Edit
<1>4. Edit(c, o) \in EditSessions /\ FALSE \in BOOLEAN
  BY EditsAre
<1>5. Keeps(t.doc, q.doc)
  BY <1>1, <1>3, <1>4, RequestEditSessionIs
<1> HIDE DEF moved
<1> DEFINE v == [moved EXCEPT !.doc = q.doc]
<1>6. v \in Turns /\ v.engine = o.session /\ v.doc = q.doc
  BY <1>2, <1>5, TurnsAre DEF Keeps
<1>7. r.turn = v \/ \E u \in UpdateCandidateUi(v) : r = Done(u)
  BY <1>3 DEF Undone
<1> HIDE DEF v
<1>8. /\ r.turn.engine = o.session /\ Follows(q.doc, r.turn.doc)
      /\ NoneFails(q.doc, r.turn.doc) => r.turn.doc = q.doc
  <2>1. q.doc \in Docs /\ Follows(q.doc, q.doc)
    BY <1>5, DocsAre DEF Keeps
  <2>2. CASE r.turn = v
    BY <1>6, <2>1, <2>2
  <2>3. ASSUME NEW u \in UpdateCandidateUi(v), r = Done(u)
        PROVE  /\ r.turn.engine = o.session /\ Follows(q.doc, r.turn.doc)
               /\ NoneFails(q.doc, r.turn.doc) => r.turn.doc = q.doc
    <3>1. r.turn = u
      BY <2>3 DEF Done
    <3> QED
      BY <1>6, <3>1, UpdateCandidateUiIs
  <2> QED
    BY <1>7, <2>2, <2>3
<1>9. NoneFails(t.doc, q.doc) /\ r.turn.doc = q.doc
  <2>1. t.doc.faults \in Nat /\ q.doc.faults \in Nat /\ r.turn.doc.faults \in Nat
    BY <1>1, <1>5, <1>8, DocsAre DEF Keeps, Follows
  <2> QED
    BY <1>5, <1>8, <2>1 DEF Keeps, Follows, NoneFails
<1>10. /\ q.ok
       /\ \/ Follows(t.doc, q.doc) /\ Applied(t.doc, Edit(c, o), q.doc)
          \/ q.doc = Deferred(t.doc, Edit(c, o))
  BY <1>1, <1>3, <1>4, <1>9, DeferredRequest
<1>11. r.ok
  BY <1>3, <1>10 DEF Done
<1> QED
  BY <1>8, <1>9, <1>10, <1>11 DEF Follows

(* Singles stay single at the loss of the focus.                           *)
LEMMA HandleFocusLossSingles ==
  ASSUME NEW t, Sound(t), NEW c \in Contexts \cup {NoContext}, Quiet(t, c),
         NEW u \in HandleFocusLoss(t, c), NoneFails(t.doc, u.doc), NEW ch \in Chars, Single(t, ch)
  PROVE  Single(u, ch)
<1> DEFINE commits == IF t.engine.state = "Composing" THEN {Commits(t.engine.text)}
                      ELSE FinalizeCandidateSelection(t.engine)
<1>1. /\ t \in Turns /\ t.doc \in Docs /\ Good(t.engine) /\ t.engine.text \in Seq(Chars)
      /\ t.doc.queue = <<>>
  BY TurnsAre DEF Sound, Good, Sessions, Quiet
<1>2. CASE u = t
  BY <1>2
<1>3. CASE u = GivenUp(t)
  <2>1. KeepsSingle(t, u, c, {})
    BY <1>1, <1>3, DiscardKeepsSingle DEF GivenUp
  <2> QED
    BY <2>1 DEF KeepsSingle
<1>4. ASSUME c # NoContext, NEW o \in commits,
             NEW q \in DispatchEngineOutput(t, c, o, FALSE),
             u = IF q.ok THEN q.turn ELSE GivenUp(q.turn)
      PROVE  Single(u, ch)
  <2>1. c \in Contexts /\ FALSE \in BOOLEAN
    BY <1>4
  <2>2. Proper(t.engine, o) /\ Carries(t.engine, o, {}, TRUE)
    <3>1. CASE t.engine.state = "Composing"
      BY <1>1, <1>4, <3>1, CommittedProperly, SentText, BoundsAssumption
    <3>2. CASE t.engine.state # "Composing"
      BY <1>1, <1>4, <3>2, EveryFinalize, BoundsAssumption
    <3> QED
      BY <3>1, <3>2
  <2> HIDE DEF commits
  <2>3. Ready(o) /\ Leaves(o) /\ ToSet(TextOf(o)) = TextIn(t)
    BY <2>2, CarriedWhole
  <2>4. NoneFails(t.doc, q.turn.doc)
    <3>1. q.turn \in Turns /\ Keeps(t.doc, q.turn.doc) /\ (q.ok => Sound(q.turn))
      BY <1>4, <2>1, <2>3, DispatchEngineOutputIs
    <3>2. CASE q.ok
      BY <1>4, <3>2
    <3>3. CASE ~q.ok
      <4>1. u = DiscardSessionAndCloseUi(q.turn)
        BY <1>4, <3>3 DEF GivenUp
      <4>2. Len(q.turn.doc.queue) <= MaxQueued
        BY <3>1 DEF Keeps, Sound
      <4>3. Follows(q.turn.doc, u.doc)
        BY <3>1, <4>1, <4>2, DiscardHandled
      <4>4. t.doc.faults \in Nat /\ q.turn.doc.faults \in Nat /\ u.doc.faults \in Nat
        BY <1>1, <3>1, <4>3, DocsAre DEF Keeps, Follows
      <4> QED
        BY <3>1, <4>3, <4>4 DEF Keeps, Follows, NoneFails
    <3> QED
      BY <3>2, <3>3
  <2>5. /\ q.ok /\ q.turn.engine = o.session
        /\ \/ q.turn.doc.queue = t.doc.queue /\ Applied(t.doc, Edit(c, o), q.turn.doc)
           \/ q.turn.doc = Deferred(t.doc, Edit(c, o))
    BY <1>1, <1>4, <2>1, <2>3, <2>4, DeferredDispatch
  <2>6. u = q.turn
    BY <1>4, <2>5
  <2>7. CASE q.turn.doc.queue = t.doc.queue /\ Applied(t.doc, Edit(c, o), q.turn.doc)
    <3>1. ToSet(TextOf(o)) \subseteq TextIn(t) \cup {}
      BY <2>3
    <3>2. KeepsSingle(t, u, c, {})
      BY <2>1, <2>3, <2>5, <2>6, <2>7, <3>1, AppliedKeepsSingle
    <3> QED
      BY <2>4, <2>6, <3>2 DEF KeepsSingle
  <2>8. CASE q.turn.doc = Deferred(t.doc, Edit(c, o))
    <3> DEFINE e == Edit(c, o)
    <3>1. e \in EditSessions /\ e.text = TextIn(t)
      BY <2>1, <2>3, EditsAre
    <3> HIDE DEF e
    <3>2. u.doc.plain = t.doc.plain /\ u.doc.composition = t.doc.composition /\ u.doc.queue = <<e>>
      BY <1>1, <2>6, <2>8 DEF Deferred, Docs, e
    <3>3. OnItsWay(u.doc) = TextIn(t) \cap Chars
      BY <3>1, <3>2 DEF OnItsWay
    <3>4. TextIn(u) \subseteq TextIn(t)
      BY <2>3, <2>5, <2>6, EmptyText DEF Leaves, TextIn, TextOf, Ready
    <3> QED
      BY <3>2, <3>3, <3>4 DEF Single
  <2> QED
    BY <2>5, <2>7, <2>8
<1>5. \/ u = t \/ u = GivenUp(t)
      \/ c # NoContext /\ \E o \in commits : \E q \in DispatchEngineOutput(t, c, o, FALSE) :
           u = IF q.ok THEN q.turn ELSE GivenUp(q.turn)
  BY DEF HandleFocusLoss
<1> QED
  BY <1>2, <1>3, <1>4, <1>5

LEMMA UiDrivenKeepsSingle ==
  ASSUME NEW t, Sound(t), focus.context \in Contexts \cup {NoContext}, NEW outputs,
         \A o \in outputs : Ready(o) /\ Leaves(o) /\ ToSet(TextOf(o)) = TextIn(t),
         NEW u \in UiDriven(t, outputs)
  PROVE  KeepsSingle(t, u, focus.context, {})
<1>1. CASE focus.context = NoContext
  <2>1. u = CloseCandidateUi(t)
    BY <1>1 DEF UiDriven
  <2>2. u.engine = t.engine /\ u.doc = t.doc
    BY <2>1, ClosedIs DEF Sound
  <2> QED
    BY <2>2, SameKeepsSingle DEF Alike
<1>2. CASE focus.context # NoContext
  <2>1. PICK o \in outputs : u \in {r.turn : r \in TryDispatchOutput(t, focus.context, o)}
    BY <1>2 DEF UiDriven
  <2>2. PICK r \in TryDispatchOutput(t, focus.context, o) : u = r.turn
    BY <2>1
  <2>3. ToSet(TextOf(o)) \subseteq TextIn(t) \cup {}
    BY <2>1
  <2> QED
    BY <2>1, <2>2, <2>3, TryDispatchKeepsSingle
<1> QED
  BY <1>1, <1>2

-----------------------------------------------------------------------------
(* Each action on its own ground keeps single copies single.               *)

SinglesStay == \A ch \in Chars : Single(Now, ch) => Single(Now', ch)

(* No edit session waits, nothing fails, and the composition is where the  *)
(* focus is.                                                               *)
Calm == ~SessionWaits /\ ~Stranded /\ ~CallFails

LEMMA CalmIs ==
  ASSUME IInv, Calm
  PROVE  /\ Now.doc = doc /\ Now.engine = engine /\ Now \in Turns /\ doc \in Docs /\ doc.queue = <<>>
         /\ doc.composition.context \in {NoContext, focus.context}
         /\ focus.context \in {NoContext, focus.manager} /\ Quiet(Now, focus.context)
         /\ doc' \in Docs /\ doc'.faults >= doc.faults => NoneFails(doc, doc')
<1>1. /\ Now.doc = doc /\ Now.engine = engine /\ Now \in Turns /\ doc \in Docs /\ doc.queue = <<>>
      /\ doc.composition.context \in {NoContext, focus.context} /\ doc.faults \in Nat
  BY NowIs, TurnsAre, DocsAre DEF IInv, Sound, Calm, SessionWaits, Stranded
<1>2. focus.context \in {NoContext, focus.manager}
  BY DEF IInv, FocusInv
<1>3. ASSUME doc' \in Docs, doc'.faults >= doc.faults
      PROVE  doc'.faults = doc.faults
  <2>1. ~(doc'.faults > doc.faults)
    BY DEF Calm, CallFails
  <2> QED
    BY <1>1, <1>3, <2>1, DocsAre
<1> QED
  BY <1>1, <1>2, <1>3 DEF Quiet, NoneFails

(* A handler that keeps single copies single is taken over by the step.    *)
LEMMA TakenSingles ==
  ASSUME IInv, Calm, NEW c, Quiet(Now, c), NEW u, KeepsSingle(Now, u, c, {}),
         Now'.engine = u.engine, Now'.doc = u.doc, u.doc \in Docs, u.doc.faults >= doc.faults
  PROVE  SinglesStay
<1>1. NoneFails(Now.doc, u.doc)
  BY CalmIs, NowNext
<1>2. TextIn(Now') = TextIn(u)
  BY DEF TextIn
<1> QED
  BY <1>1, <1>2 DEF KeepsSingle, SinglesStay, Single

LEMMA TypedNowhere ==
  ASSUME NEW t \in Turns, NEW ch
  PROVE  Typed(t, NoContext, ch).engine = t.engine /\ Alike(t.doc, Typed(t, NoContext, ch).doc)
BY TurnsAre DEF Typed, Alike, Turns, Docs

LEMMA KeyDownSingles ==
  ASSUME IInv, Calm, NEW key \in ServiceKeys, NEW ch \in Inputs(key), KeyDown(key, ch)
  PROVE  SinglesStay
<1>1. Sound(Now) /\ FocusInv /\ SettingsInv /\ Now.engine = engine /\ Now.doc = doc /\ Now \in Turns
  BY CalmIs DEF IInv
<1>2. Pressed(Now, key, ch) /\ (Prints(key) => ch \in Chars /\ Unseen(Now, ch))
  BY <1>1 DEF Pressed, Inputs, Fresh, Held, Unseen, TextIn
<1>3. PICK c \in Targets : \E r \in OnKeyDown(c, key, ch) :
        Take(IF Prints(key) /\ ~r.eaten THEN Typed(r.turn, c, ch) ELSE r.turn)
  BY DEF KeyDown
<1>4. PICK r \in OnKeyDown(c, key, ch) :
        Take(IF Prints(key) /\ ~r.eaten THEN Typed(r.turn, c, ch) ELSE r.turn)
  BY <1>3
<1>5. c \in Contexts \cup {NoContext} /\ Quiet(Now, c)
  <2>1. c \in Contexts \cup {NoContext} /\ (focus.context = NoContext \/ c = focus.context)
    BY <1>1 DEF Targets, Top, FocusInv, SettingsInv
  <2> QED
    BY <1>1, <2>1, CalmIs DEF Quiet
<1>6. /\ HandledAtOnce(Now, r.turn, c) /\ KeepsSingle(Now, r.turn, c, TypedBy(key, ch))
      /\ r.turn \in Turns /\ Follows(doc, r.turn.doc)
      /\ c # NoContext /\ Undisturbed(doc, r.turn.doc) => r.eaten \/ r.turn = Now \/ DiscardsEmptySession(key)
  BY <1>1, <1>2, <1>4, <1>5, OnKeyDownIs, OnKeyDownKeepsSingle DEF HandledAtOnce, Handled, Sound
<1>7. Typed(r.turn, c, ch) \in Turns /\ Follows(r.turn.doc, Typed(r.turn, c, ch).doc)
  BY <1>6, TypedIs DEF HandledAtOnce, Handled, Sound
<1>8. \A x \in TypedBy(key, ch) : Now.doc.plain[x] = 0
  BY <1>2 DEF TypedBy, Unseen
<1>9. NoneFails(Now.doc, r.turn.doc) =>
        Quiet(r.turn, c) /\ \A x \in Chars : Single(Now, x) => Single(r.turn, x)
  BY <1>5, <1>6, <1>8 DEF KeepsSingle
<1>10. CASE ~(Prints(key) /\ ~r.eaten)
  <2>1. Now' = r.turn
    BY <1>4, <1>6, <1>10, TakenIs
  <2>2. r.turn.doc = doc' /\ doc' \in Docs /\ doc'.faults >= doc.faults
    BY <1>6, <2>1, NowNext DEF Follows
  <2> QED
    BY <1>1, <1>9, <2>1, <2>2, CalmIs DEF SinglesStay
<1>11. CASE Prints(key) /\ ~r.eaten
  <2> DEFINE v == Typed(r.turn, c, ch)
  <2>1. Now' = v
    BY <1>4, <1>7, <1>11, TakenIs
  <2>2. v.doc = doc' /\ ch \in Chars
    BY <1>2, <1>11, <2>1, NowNext
  <2>3. NoneFails(doc, r.turn.doc)
    <3> HIDE DEF v
    <3>1. Follows(doc, v.doc) /\ (NoneFails(doc, v.doc) => NoneFails(doc, r.turn.doc))
      BY <1>6, <1>7, FollowsOn, CalmIs DEF v
    <3> QED
      BY <2>2, <3>1, CalmIs DEF Follows
  <2>4. CASE c = NoContext
    <3>1. v.engine = r.turn.engine /\ Alike(r.turn.doc, v.doc)
      BY <1>6, <2>4, TypedNowhere
    <3> HIDE DEF v
    <3>2. TextIn(v) = TextIn(r.turn) /\ OnItsWay(v.doc) = OnItsWay(r.turn.doc)
      BY <3>1 DEF TextIn, OnItsWay, Alike
    <3>3. \A x \in Chars : Single(r.turn, x) => Single(v, x)
      BY <3>1, <3>2 DEF Single, Alike
    <3> QED
      BY <1>1, <1>9, <2>1, <2>3, <3>3 DEF SinglesStay
  <2>5. CASE c # NoContext
    <3>1. ~DiscardsEmptySession(key)
      BY <1>11 DEF Prints, DiscardsEmptySession
    <3>2. Undisturbed(doc, r.turn.doc)
      BY <1>6, <2>3, CalmIs DEF Undisturbed, Follows
    <3>3. r.turn = Now
      BY <1>6, <1>11, <2>5, <3>1, <3>2
    <3> QED
      BY <1>1, <1>2, <1>5, <2>1, <2>2, <1>11, <3>3, TypedKeepsSingle DEF SinglesStay
  <2> QED
    BY <2>4, <2>5
<1> QED
  BY <1>10, <1>11

LEMMA LoseForegroundSingles ==
  ASSUME IInv, Calm, LoseForeground
  PROVE  SinglesStay
<1> DEFINE c == focus.context
<1>1. Sound(Now) /\ c \in Contexts \cup {NoContext} /\ Quiet(Now, c)
  BY CalmIs DEF IInv, SettingsInv
<1>2. PICK t \in HandleFocusLoss(Now, c) : Take(CloseCandidateUi(t))
  BY DEF LoseForeground
<1>3. t \in Turns /\ Keeps(Now.doc, t.doc)
  BY <1>1, <1>2, HandleFocusLossIs DEF Handled, Sound
<1>4. /\ CloseCandidateUi(t) \in Turns /\ CloseCandidateUi(t).engine = t.engine
      /\ CloseCandidateUi(t).doc = t.doc
  BY <1>3, ClosedIs
<1>5. Now'.engine = t.engine /\ Now'.doc = t.doc /\ doc' = t.doc
  BY <1>2, <1>4, TakenIs, NowNext
<1>6. NoneFails(Now.doc, t.doc)
  BY <1>3, <1>5, CalmIs DEF Keeps
<1>7. \A ch \in Chars : Single(Now, ch) => Single(t, ch)
  BY <1>1, <1>2, <1>6, HandleFocusLossSingles
<1> QED
  BY <1>5, <1>7 DEF SinglesStay, Single, TextIn

LEMMA MoveFocusSingles ==
  ASSUME IInv, Calm, focus' = focus,
         NEW manager \in Contexts \cup {NoContext}, NEW previous \in Contexts \cup {NoContext},
         MoveFocus(manager, previous)
  PROVE  SinglesStay
<1> DEFINE c == Top(previous)
<1>1. /\ Sound(Now) /\ c \in Contexts \cup {NoContext} /\ manager = focus.manager
      /\ focus.context = Top(manager)
  BY DEF IInv, Top, MoveFocus, SettingsInv
<1>2. Quiet(Now, c)
  <2>1. focus.manager # NoContext => c = focus.context
    BY <1>1 DEF MoveFocus
  <2>2. focus.manager = NoContext => focus.context = NoContext
    BY <1>1 DEF IInv, FocusInv
  <2> QED
    BY <2>1, <2>2, CalmIs DEF Quiet
<1>3. PICK t \in IF c = NoContext THEN {Now} ELSE HandleFocusLoss(Now, c) :
        Take(CloseCandidateUi([t EXCEPT !.doc = IF manager = focus.manager THEN @ ELSE Released(@)]))
  BY DEF MoveFocus
<1> HIDE DEF c
<1>4. t \in Turns /\ Keeps(Now.doc, t.doc)
  <2>1. CASE t = Now
    <3>1. HandledAtOnce(Now, Now, c)
      BY <1>1, NothingHandled
    <3> QED
      BY <1>1, <2>1, <3>1 DEF HandledAtOnce, Handled, Sound
  <2>2. CASE t \in HandleFocusLoss(Now, c)
    BY <1>1, <2>2, HandleFocusLossIs DEF Handled, Sound
  <2> QED
    BY <1>3, <2>1, <2>2
<1> DEFINE v == [t EXCEPT !.doc = t.doc]
           u == CloseCandidateUi(v)
<1>5. v \in Turns /\ v.engine = t.engine /\ v.doc = t.doc
  BY <1>4, TurnsAre
<1>6. Take(u)
  BY <1>1, <1>3
<1> HIDE DEF v
<1>7. u \in Turns /\ u.engine = t.engine /\ u.doc = t.doc
  BY <1>5, ClosedIs
<1> HIDE DEF u
<1>8. Now'.engine = t.engine /\ Now'.doc = t.doc /\ doc' = t.doc
  BY <1>6, <1>7, TakenIs, NowNext
<1>9. NoneFails(Now.doc, t.doc)
  BY <1>4, <1>8, CalmIs DEF Keeps
<1>10. \A ch \in Chars : Single(Now, ch) => Single(t, ch)
  <2>1. CASE t = Now
    BY <2>1
  <2>2. CASE t \in HandleFocusLoss(Now, c)
    BY <1>1, <1>2, <1>9, <2>2, HandleFocusLossSingles
  <2> QED
    BY <1>3, <2>1, <2>2
<1> QED
  BY <1>8, <1>10 DEF SinglesStay, Single, TextIn

LEMMA SameSingles ==
  ASSUME engine'.text = engine.text, Alike(doc, doc')
  PROVE  SinglesStay
<1>1. TextIn(Now') = TextIn(Now) /\ OnItsWay(Now'.doc) = OnItsWay(Now.doc)
  BY NowIs, NowNext DEF TextIn, OnItsWay, Alike
<1> QED
  BY <1>1, NowIs, NowNext DEF SinglesStay, Single, Alike

LEMMA UiSelectSingles ==
  ASSUME IInv, Calm, NEW i \in Nat, UiSelect(i)
  PROVE  SinglesStay
<1> DEFINE c == focus.context
           outputs == SetCandidateSelection(engine, i)
<1>1. /\ Sound(Now) /\ c \in Contexts \cup {NoContext} /\ Quiet(Now, c)
      /\ Now.engine = engine /\ Good(engine) /\ Now.doc = doc
  BY CalmIs DEF IInv, SettingsInv, Sound
<1>2. \A o \in outputs : Ready(o) /\ Leaves(o) /\ ToSet(TextOf(o)) = TextIn(Now)
  <2> TAKE o \in outputs
  <2>1. Good(engine) /\ o \in SetCandidateSelection(engine, i) /\ MaxList \in Nat
    BY <1>1, BoundsAssumption
  <2> HIDE DEF outputs
  <2>2. Proper(Now.engine, o) /\ Carries(Now.engine, o, {}, TRUE)
    BY <1>1, <2>1, EverySelection
  <2> QED
    BY <1>1, <2>2, CarriedWhole
<1>3. CASE UNCHANGED <<engine, doc, element>>
  BY <1>3, SameSingles DEF Alike
<1>4. ASSUME NEW t \in UiDriven(Now, outputs),
             Take([t EXCEPT !.element = IF @ = NoElement THEN @ ELSE SelectedHere(element, @, i)])
      PROVE  SinglesStay
  <2> HIDE DEF outputs
  <2>1. HandledAtOnce(Now, t, c) /\ t \in Turns
    BY <1>1, <1>2, <1>4, UiDrivenIs DEF HandledAtOnce, Handled, Sound
  <2>2. KeepsSingle(Now, t, c, {})
    BY <1>1, <1>2, <1>4, UiDrivenKeepsSingle
  <2>3. engine' = t.engine /\ doc' = t.doc
    BY <1>4, <2>1 DEF Take, Turns
  <2>4. t.doc \in Docs /\ t.doc.faults >= doc.faults
    BY <1>1, <2>1 DEF HandledAtOnce, Follows
  <2> QED
    BY <1>1, <2>2, <2>3, <2>4, NowNext, TakenSingles
<1> QED
  BY <1>3, <1>4 DEF UiSelect

LEMMA UiEndSingles ==
  ASSUME IInv, Calm, NEW outputs, UiEnd(outputs),
         \A o \in outputs : Proper(engine, o) /\ Carries(engine, o, {}, TRUE)
  PROVE  SinglesStay
<1> DEFINE c == focus.context
           e == IF element = NoElement THEN NoElement ELSE [element EXCEPT !.shown = FALSE]
           hidden == Hidden(Now)
<1>1. /\ Sound(Now) /\ c \in Contexts \cup {NoContext} /\ Quiet(Now, c) /\ Now.doc = doc
      /\ Now \in Turns /\ Now.engine = engine /\ Now.element = element
      /\ element \in {NoElement} \cup Elements /\ Mirrors(element, engine.list)
  BY CalmIs, NowIs, TurnsAre DEF IInv, SettingsInv, Sound
<1>2. e \in {NoElement} \cup Elements /\ Mirrors(e, engine.list)
  BY <1>1, ShowingMirrors DEF Mirrors
<1>3. hidden = [Now EXCEPT !.element = e]
  BY <1>1 DEF Hidden
<1> HIDE DEF e, hidden
<1>4. hidden.engine = engine /\ hidden.doc = doc /\ hidden \in Turns
  BY <1>1, <1>2, <1>3, TurnsAre
<1>5. HandledAtOnce(Now, hidden, c) /\ Sound(hidden)
  BY <1>1, <1>2, <1>3, MirroringHandled DEF HandledAtOnce, Handled
<1>6. PICK t \in IF outputs = {} THEN {hidden} ELSE UiDriven(hidden, outputs) : Take(t)
  BY DEF UiEnd, hidden
<1>7. CASE t = hidden
  <2>1. engine' = engine /\ doc' = doc
    BY <1>4, <1>6, <1>7 DEF Take
  <2> QED
    BY <2>1, SameSingles DEF Alike
<1>8. CASE t \in UiDriven(hidden, outputs)
  <2>1. \A o \in outputs : Ready(o) /\ Leaves(o) /\ ToSet(TextOf(o)) = TextIn(hidden)
    BY <1>4, <1>5, CarriedWhole
  <2>2. KeepsSingle(hidden, t, c, {}) /\ HandledAtOnce(hidden, t, c)
    BY <1>1, <1>5, <1>8, <2>1, UiDrivenKeepsSingle, UiDrivenIs
  <2>3. KeepsSingle(Now, t, c, {})
    BY <1>1, <1>4, <2>2 DEF KeepsSingle, Quiet, Single, Unseen, TextIn
  <2>4. t \in Turns /\ t.doc \in Docs /\ t.doc.faults >= doc.faults
    BY <1>4, <2>2 DEF HandledAtOnce, Handled, Sound, Follows
  <2>5. Now' = t
    BY <1>6, <2>4, TakenIs
  <2> QED
    BY <1>1, <2>3, <2>4, <2>5, TakenSingles
<1> QED
  BY <1>6, <1>7, <1>8

LEMMA SinglesStep ==
  ASSUME IInv, [Next]_vars, Calm, ~TerminateComposition, open' = open, focus' = focus
  PROVE  SinglesStay
<1>1. Sound(Now) /\ doc \in Docs /\ Now.doc = doc /\ Good(engine)
  BY CalmIs, NowIs DEF IInv, Sound
<1>2. Alike(doc, doc)
  BY DEF Alike
<1>3. ASSUME NEW manager \in Contexts \cup {NoContext}, NEW previous \in Contexts \cup {NoContext},
             MoveFocus(manager, previous)
      PROVE  SinglesStay
  BY <1>3, MoveFocusSingles
<1>4. ~\E c \in Contexts : PushContext(c) \/ PopContext(c)
  BY DEF PushContext, PopContext
<1>5. ~RunEditSession
  BY DEF RunEditSession, Calm, SessionWaits
<1>6. ASSUME NEW i \in 0 .. MaxList - 1, UiSelect(i)
      PROVE  SinglesStay
  <2>1. i \in Nat
    BY BoundsAssumption
  <2> QED
    BY <1>6, <2>1, UiSelectSingles
<1>7. CASE UiFinalize
  <2>1. \A o \in FinalizeCandidateSelection(engine) : Proper(engine, o) /\ Carries(engine, o, {}, TRUE)
    BY <1>1, EveryFinalize, BoundsAssumption
  <2> QED
    BY <1>7, <2>1, UiEndSingles DEF UiFinalize
<1>8. CASE UiAbort
  <2>1. \A o \in AbortCandidateSelection(engine) : Proper(engine, o) /\ Carries(engine, o, {}, TRUE)
    BY <1>1, EveryAbort, BoundsAssumption
  <2> QED
    BY <1>8, <2>1, UiEndSingles DEF UiAbort
<1>9. ASSUME UNCHANGED <<engine, doc>>
      PROVE  SinglesStay
  BY <1>2, <1>9, SameSingles
<1>10. CASE Activate
  <2>1. PICK o \in ModeOutcomes(engine, "Hiragana") : engine' = o.session
    BY <1>10 DEF Activate
  <2>2. engine'.text = engine.text /\ doc' = doc
    BY <1>1, <1>10, <2>1, ActivatingKeepsText DEF Activate
  <2> QED
    BY <1>2, <2>2, SameSingles
<1>11. ~FailToActivate
  <2>1. ASSUME FailToActivate
        PROVE  FALSE
    <3>1. doc' = [doc EXCEPT !.faults = @ + 1]
      BY <2>1 DEF FailToActivate
    <3>2. doc'.faults = doc.faults + 1 /\ doc.faults \in Nat
      BY <1>1, <3>1, DocsAre DEF Docs
    <3>3. ~(doc'.faults > doc.faults)
      BY DEF Calm, CallFails
    <3> QED
      BY <3>2, <3>3
  <2> QED
    BY <2>1
<1>12. CASE Deactivate
  <2>1. focus.context = NoContext /\ doc' = Released(doc) /\ engine' = engine
    BY <1>12 DEF Deactivate
  <2>2. doc.composition = NoComposition
    BY <1>1, <2>1, CalmIs, DocsAre, CompositionsAre
  <2>3. Released(doc) = doc
    BY <2>2 DEF Released, HasComposition
  <2> QED
    BY <1>2, <2>1, <2>3, SameSingles
<1>13. UNCHANGED vars \/ UiPage \/ UiEnded \/ (\E show \in BOOLEAN : UiShow(show)) =>
         UNCHANGED <<engine, doc>>
  BY DEF vars, UiPage, UiEnded, UiShow
<1> QED
  BY <1>3, <1>4, <1>5, <1>6, <1>7, <1>8, <1>9, <1>10, <1>11, <1>12, <1>13,
     KeyDownSingles, LoseForegroundSingles DEF Next

(* A character has a single copy where there are fewer than two of it.     *)
LEMMA SinglesAreCounted ==
  ASSUME IInv, NEW ch \in Chars
  PROVE  Single(Now, ch) <=> CopiesOf(ch) < 2
<1>1. Now.doc = doc /\ Now.engine = engine /\ doc.plain[ch] \in 0 .. 2
  BY NowIs, TurnsAre, DocsAre DEF IInv, Sound, Copies
<1>2. Held(ch) <=> ch \in doc.composition.text \cup ToSet(engine.text) \cup OnItsWay(doc)
  BY DEF Held, OnItsWay
<1> QED
  BY <1>1, <1>2 DEF CopiesOf, Single, TextIn

LEMMA SinglesAreCountedNext ==
  ASSUME IInv', NEW ch \in Chars
  PROVE  Single(Now', ch) => ~(CopiesOf(ch)' >= 2)
<1>1. Now'.doc = doc' /\ Now'.engine = engine' /\ doc'.plain[ch] \in 0 .. 2
  BY NowNext, TurnsAre, DocsAre DEF IInv, Sound, Copies
<1>2. Held(ch)' <=> ch \in doc'.composition.text \cup ToSet(engine'.text) \cup OnItsWay(doc')
  BY DEF Held, OnItsWay
<1> QED
  BY <1>1, <1>2 DEF CopiesOf, Single, TextIn

(* Nothing typed once comes to stand twice, unless the text of a           *)
(* composition is left in the document while its session lives on, an edit *)
(* session waits or a call fails.                                          *)
THEOREM TypedOnceStandsOnce == Spec => OnlyAbandonedTextDoubles
<1>1. IInv /\ IInv' /\ [Next]_vars =>
        [(\E ch \in Chars : CopiesOf(ch) < 2 /\ CopiesOf(ch)' >= 2) =>
           \/ TerminateComposition
           \/ open' # open \/ focus' # focus
           \/ SessionWaits \/ Stranded \/ CallFails]_vars
  <2> SUFFICES ASSUME IInv, IInv', [Next]_vars, NEW ch \in Chars, CopiesOf(ch) < 2, CopiesOf(ch)' >= 2,
                      ~TerminateComposition, open' = open, focus' = focus,
                      ~SessionWaits, ~Stranded, ~CallFails
               PROVE  FALSE
    OBVIOUS
  <2>1. SinglesStay
    BY SinglesStep DEF Calm
  <2>2. Single(Now, ch) /\ ~Single(Now', ch)
    BY SinglesAreCounted, SinglesAreCountedNext
  <2> QED
    BY <2>1, <2>2 DEF SinglesStay
<1> QED
  BY Inductive, <1>1, PTL DEF Spec, OnlyAbandonedTextDoubles
=============================================================================
