-------------------------- MODULE CandidateUiElement --------------------------
(***************************************************************************)
(* tsf::CandidateUiElement: the candidate list as the host sees it, with   *)
(* the table of pages the host may replace.  An element is a record; the   *)
(* candidates themselves are only counted.  Candidates and page starts     *)
(* count from 0, the page table is a sequence.                             *)
(***************************************************************************)
EXTENDS Integers, Sequences

CONSTANT PageSize   \* kCandidatePageSize

ASSUME PageSizeAssumption == PageSize \in Nat \ {0}

Element ==
  [count : Nat, selected : Nat, start : Nat, pages : Seq(Nat), shown : BOOLEAN]

-----------------------------------------------------------------------------
(* rebuildDefaultPageIndices *)
OnePageMore(count) ==                                              \* mutant
  [page \in 1 .. (count + PageSize) \div PageSize |-> (page - 1) * PageSize]
DefaultPages(count) ==
  [page \in 1 .. (count + PageSize - 1) \div PageSize |-> (page - 1) * PageSize]

(* pageIndexForSelection and the page that starts there: the last page in  *)
(* front of the first one that starts behind the selection.                *)
PageStart(pages, selected) ==
  pages[CHOOSE page \in 1 .. Len(pages) :
          /\ \A earlier \in 2 .. page : pages[earlier] <= selected
          /\ page < Len(pages) => pages[page + 1] > selected]

Start(pages, selected) == IF pages = <<>> THEN 0 ELSE PageStart(pages, selected)

(* CandidateUIModel::normalize *)
Clamped(selected, count) == IF selected < count THEN selected ELSE count - 1

(* update, with the pages of the service's own size *)
Updated(count, selected) ==
  LET pages == DefaultPages(count)
      inside == IF count = 0 THEN 0 ELSE Clamped(selected, count)
  IN [count |-> count, selected |-> inside, pages |-> pages,
      start |-> Start(pages, inside), shown |-> TRUE]

(* What SetPageIndex accepts: starts that rise from the first candidate.   *)
IsPageTable(pages, count) ==
  /\ \A page \in 1 .. Len(pages) : pages[page] < count
  /\ pages # <<>> => pages[1] = 0
  /\ \A page \in 2 .. Len(pages) : pages[page - 1] < pages[page]

(* SetPageIndex for an accepted table; it moves the viewport, never the    *)
(* selection.                                                              *)
RepagedInPlace(e, pages) == [e EXCEPT !.pages = pages]             \* mutant
Repaged(e, pages) == [e EXCEPT !.pages = pages, !.start = Start(pages, e.selected)]

(* The end of SetSelection: `before` is the element its owner was asked    *)
(* about, `e` the one the owner has left.  Only where the owner updated    *)
(* nothing does the element select by itself.                              *)
SelectedHere(before, e, i) ==
  IF [e EXCEPT !.pages = before.pages, !.shown = before.shown] # before \/ i >= e.count THEN e
  ELSE [e EXCEPT !.selected = i, !.start = IF e.pages = <<>> THEN @ ELSE Start(e.pages, i)]

-----------------------------------------------------------------------------
(* The viewport starts a page, and it is the page the selection is on.     *)
ShowsSelectedPage(e) ==
  e.pages # <<>> =>
    \E page \in 1 .. Len(e.pages) :
      /\ e.start = e.pages[page] /\ e.start <= e.selected
      /\ page < Len(e.pages) => e.selected < e.pages[page + 1]
=============================================================================
