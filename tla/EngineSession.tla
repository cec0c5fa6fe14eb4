---------------------------- MODULE EngineSession ----------------------------
(***************************************************************************)
(* What ImeEngine promises the text service that drives it: which session  *)
(* a key or a call of the candidate window may lead to, whether the key is *)
(* consumed, and what the document has to do.  What is converted into what *)
(* is left out: a session is the characters typed into it, in the order    *)
(* they stand, with the segments still ahead of the selected one and the   *)
(* size and highlight of the candidate list.  "Idle" is Idle and Committed *)
(* alike; they differ only in what the next key overwrites.                *)
(*                                                                         *)
(* EngineContract drives these operators on their own, and ImeEngine       *)
(* implements it; TextService drives them from the keyboard and the host.  *)
(***************************************************************************)
EXTENDS Naturals, Sequences, SequencesExt

CONSTANTS
  Chars,     \* what keys type
  MaxList    \* bound on the length of a candidate list

-----------------------------------------------------------------------------
(* Sessions and outputs *)

Lists == {l \in [count : 0 .. MaxList, selected : 0 .. MaxList] :
            l.selected < l.count \/ l.selected = 0}
NoList == [count |-> 0, selected |-> 0]

(* A lookup always finds something: the reading in Roman letters at least. *)
FoundLists == Lists \ {NoList}
FreshLists == {l \in FoundLists : l.selected = 0}
Moved(l) == {m \in Lists : m.count = l.count}

Sessions ==
  [state : {"Direct", "Idle", "Composing", "Converting"}, text : Seq(Chars),
   ahead : Nat, list : Lists]

Empty(state) == [state |-> state, text |-> <<>>, ahead |-> 0, list |-> NoList]

IsOpen(s) == s.state \in {"Composing", "Converting"}

(* hasActiveSession, hasVisibleCandidateWindow *)
HasActiveSession(s) == s.text # <<>>
HasVisibleList(s) == s.list.count > 0

(* createOutput: an open session is shown, any other clears.  `sent` is    *)
(* what a committing output puts into the document.                        *)
Shows(s, consumed) ==
  [session |-> s, consumed |-> consumed,
   action |-> IF IsOpen(s) THEN "Update" ELSE "Clear", sent |-> <<>>]

Commits(text) ==
  [session |-> Empty("Idle"), consumed |-> TRUE, action |-> "Commit", sent |-> text]

WithList(s, lists) == {[s EXCEPT !.list = l] : l \in lists}
ShowEach(sessions, consumed) == {Shows(s, consumed) : s \in sessions}

-----------------------------------------------------------------------------
(* Keys.  "Letter" is any key that types into a composition, "Mark" one    *)
(* that ends it; "Pick" moves among candidates (Up, Down, PageUp,          *)
(* PageDown, Home, End, while composing also Tab), "Arrow" is Left or      *)
(* Right, shifted or not, "Digit" a digit key without a character,         *)
(* "Convert" is Shift+Space.                                               *)
Keys == {"Toggle", "Latin", "Hiragana", "Letter", "Mark", "Digit", "Space", "Convert",
         "Enter", "Escape", "Erase", "Arrow", "Pick", "Other"}

Inserted(text, ch) == {InsertAt(text, i, ch) : i \in 1 .. Len(text) + 1}
Erased(text) ==
  UNION {{SubSeq(text, 1, i) \o SubSeq(text, j, Len(text)) : j \in i + 1 .. Len(text) + 1} :
           i \in 0 .. Len(text)}

ModeOutcomes(s, key) ==
  CASE key = "Toggle" -> {Shows(Empty(IF s.state = "Direct" THEN "Idle" ELSE "Direct"), TRUE)}
    [] key = "Latin" -> {Shows(Empty("Direct"), TRUE)}
    [] key = "Hiragana" -> {Shows(IF s.state = "Direct" THEN Empty("Idle") ELSE s, TRUE)}
    [] OTHER -> {}

IdleOutcomes(s, key, ch) ==
  CASE key = "Letter" ->
         ShowEach({[state |-> "Composing", text |-> <<ch>>, ahead |-> 0, list |-> l] :
                     l \in FreshLists}, TRUE)
    [] key = "Mark" -> {Commits(<<ch>>)}
    [] OTHER -> {Shows(s, FALSE)}

(* Predictions are looked up anew.                                         *)
Reopened(s) == WithList(s, FreshLists)

ComposingOutcomes(s, key, ch) ==
  CASE key = "Letter" ->
         UNION {ShowEach(Reopened([s EXCEPT !.text = t]), TRUE) : t \in Inserted(s.text, ch)}
    [] key = "Mark" -> {Commits(s.text \o <<ch>>)}
    [] key = "Enter" -> {Commits(s.text)}
    [] key = "Erase" ->
         UNION {IF t = <<>> THEN {Shows(Empty("Idle"), TRUE)}
                ELSE ShowEach(Reopened([s EXCEPT !.text = t]), TRUE) : t \in Erased(s.text)}
    [] key = "Arrow" -> {Shows([s EXCEPT !.list = NoList], TRUE)}
    [] key = "Escape" -> {Shows([s EXCEPT !.list = NoList], HasVisibleList(s))}
    [] key = "Space" -> ShowEach(IF HasVisibleList(s) THEN WithList(s, Moved(s.list))
                                 ELSE Reopened(s), TRUE)
    [] key = "Pick" ->
         IF HasVisibleList(s) THEN ShowEach(WithList(s, Moved(s.list)), TRUE)
         ELSE ShowEach(Reopened(s), TRUE) \cup {Shows(s, FALSE)}   \* Down, Tab, PageDown reopen
    [] key = "Digit" ->
         IF HasVisibleList(s) THEN {Commits(s.text), Shows(s, FALSE)} ELSE {Shows(s, FALSE)}
    [] key = "Convert" ->
         ShowEach(UNION {WithList([s EXCEPT !.state = "Converting", !.ahead = n], FreshLists) :
                           n \in 0 .. Len(s.text) - 1}, TRUE)
    [] OTHER -> {Shows(s, FALSE)}

(* advanceSegmentAfterSelection: with a segment ahead, that one is         *)
(* selected; only the last one is committed.                               *)
Accepted(s) ==
  IF s.ahead > 0 THEN ShowEach(WithList([s EXCEPT !.ahead = @ - 1], FoundLists), TRUE)
  ELSE {Commits(s.text)}

Cancelled(s, lists) == ShowEach(WithList([s EXCEPT !.state = "Composing", !.ahead = 0], lists), TRUE)

(* To the segment before or behind, or merging with it.                    *)
OtherSegment(s) ==
  UNION {WithList([s EXCEPT !.ahead = n], FoundLists) :
           n \in {n \in 0 .. Len(s.text) - 1 : n <= s.ahead + 1 /\ s.ahead <= n + 1}}

ConvertingOutcomes(s, key) ==
  CASE key = "Enter" -> Accepted(s)
    [] key = "Digit" -> {Shows(s, FALSE)} \cup (IF HasVisibleList(s) THEN Accepted(s) ELSE {})
    [] key \in {"Escape", "Erase"} -> Cancelled(s, {NoList})
    [] key \in {"Space", "Convert", "Pick"} -> ShowEach(WithList(s, Moved(s.list)), TRUE)
    [] key = "Arrow" -> {Shows(s, FALSE)} \cup ShowEach(OtherSegment(s), TRUE)
    [] OTHER -> {Shows(s, FALSE)}

(* processKeyEvent: everything a key press can come to.                    *)
Outcomes(s, key, ch) ==
  IF key \in {"Toggle", "Latin", "Hiragana"} THEN ModeOutcomes(s, key)
  ELSE IF s.state = "Direct" THEN {Shows(s, FALSE)}
  ELSE IF s.state = "Idle" THEN IdleOutcomes(s, key, ch)
  ELSE IF s.state = "Composing" THEN ComposingOutcomes(s, key, ch)
  ELSE ConvertingOutcomes(s, key)

-----------------------------------------------------------------------------
(* Calls of the candidate window; the empty set is nullopt, where nothing  *)
(* has changed.                                                            *)

SetCandidateSelection(s, i) ==
  IF i < s.list.count /\ IsOpen(s) THEN {Shows([s EXCEPT !.list.selected = i], TRUE)} ELSE {}

FinalizeCandidateSelection(s) ==
  IF ~HasVisibleList(s) THEN {}
  ELSE IF s.state = "Composing" THEN {Commits(s.text)}
  ELSE IF s.state = "Converting" THEN Accepted(s)
  ELSE {}

AbortCandidateSelection(s) ==
  IF s.state = "Composing" THEN {Shows([s EXCEPT !.list = NoList], TRUE)}
  ELSE IF s.state = "Converting" THEN Cancelled(s, FreshLists)
  ELSE {}

(* discardActiveSession *)
Discarded(s) == Empty(IF s.state = "Direct" THEN "Direct" ELSE "Idle")
=============================================================================
