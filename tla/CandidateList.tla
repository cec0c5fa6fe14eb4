---------------------------- MODULE CandidateList ----------------------------
(***************************************************************************)
(* engine::CandidateList: the candidates of one composition or of one      *)
(* segment together with the highlighted one.  A list is a record          *)
(* [items, selectedIndex]; the index counts from 0, as in the source, and  *)
(* a null `items` pointer is the empty sequence, which every method treats *)
(* alike.                                                                  *)
(***************************************************************************)
LOCAL INSTANCE Integers
LOCAL INSTANCE Sequences

NoCandidates == [items |-> <<>>, selectedIndex |-> 0]

HasItems(list) == list.items # <<>>

SelectedText(list) == list.items[list.selectedIndex + 1]

(* std::clamp into the positions of a non-empty list. *)
Clamped(i, list) ==
  IF i < 0 THEN 0
  ELSE IF i >= Len(list.items) THEN Len(list.items) - 1 ELSE i

Sanitize(list) ==
  [list EXCEPT !.selectedIndex = IF HasItems(list) THEN Clamped(@, list) ELSE 0]

(* The cyclic move; the source adds the size before taking the remainder   *)
(* because C++ would otherwise leave a negative index at the first item.   *)
MoveSelection(list, delta) ==
  IF HasItems(list)
  THEN [list EXCEPT !.selectedIndex = (@ + delta + Len(list.items)) % Len(list.items)]
  ELSE list

MoveSelectionClamped(list, delta) ==
  IF HasItems(list) THEN [list EXCEPT !.selectedIndex = Clamped(@ + delta, list)]
                    ELSE list

Select(list, i) == [list EXCEPT !.selectedIndex = i]

(* selectByDigit: FALSE in the source leaves the list alone. *)
CanSelect(list, digit) == digit \in 0 .. Len(list.items) - 1

SelectBoundary(list, last) ==
  IF HasItems(list) THEN Select(list, IF last THEN Len(list.items) - 1 ELSE 0) ELSE list
=============================================================================
