------------------------- MODULE EnginePromise_proofs -------------------------
(***************************************************************************)
(* ImeEngine implements EngineContract: its initial state is an initial    *)
(* session, and each of its actions is a key, a call of the candidate      *)
(* window or a discarded session of the contract.                          *)
(*                                                                         *)
(* Beside the invariant of ImeEngine_proofs the mapping needs room: no     *)
(* list is longer than a lookup may return, and a conversion has a         *)
(* candidate to show and no more segments than letters were typed.         *)
(***************************************************************************)
EXTENDS EnginePromise, ImeEngine_proofs

Short(list) == Len(list.items) <= MaxList

Limited(e) ==
  /\ Short(e.candidates)
  /\ \A i \in 1 .. Len(e.segmentCandidates) : Short(e.segmentCandidates[i])

Roomy(e) ==
  /\ Limited(e)
  /\ e.currentState = "Converting" =>
       HasItems(e.candidates) /\ Len(e.segments) <= Len(e.buffer)

PInv == IInv /\ Roomy(ime)

-----------------------------------------------------------------------------
(* Lists *)

(* The empty list is short.                                                *)
LEMMA NoCandidatesShort == Short(NoCandidates)
  BY LimitAssumption DEF Short, NoCandidates

(* What a lookup returns is short, and never empty.                        *)
LEMMA LookupsShort ==
  ASSUME NEW d \in Dictionaries, NEW r \in Text, NEW p
  PROVE /\ Len(Candidates(d, r, p)) <= MaxList /\ Candidates(d, r, p) # <<>>
        /\ Len(Predictions(d, r)) <= MaxList /\ Predictions(d, r) # <<>>
  <1>1. Len(<<r>>) <= MaxList /\ <<r>> # <<>>
    BY LimitAssumption
  <1>2. QED BY <1>1, LimitAssumption, LookupAssumption DEF Candidates, Predictions

(* A good, short list is a list of the contract, empty exactly when it is. *)
LEMMA SizeOfGood ==
  ASSUME NEW list \in GoodList, Short(list)
  PROVE /\ SizeOf(list) \in Promised!Lists
        /\ SizeOf(list).count = Len(list.items) /\ SizeOf(list).selected = list.selectedIndex
        /\ HasItems(list) <=> SizeOf(list).count > 0
        /\ ~HasItems(list) => SizeOf(list) = Promised!NoList
        /\ HasItems(list) => SizeOf(list) \in Promised!FoundLists
  <1>1. /\ Len(list.items) \in 0 .. MaxList /\ list.selectedIndex \in Nat
        /\ HasItems(list) <=> Len(list.items) > 0
        /\ list.selectedIndex = 0 \/ list.selectedIndex < Len(list.items)
    BY LimitAssumption DEF GoodList, Lists, Short, HasItems
  <1>2. list.selectedIndex \in 0 .. MaxList
    BY <1>1, LimitAssumption
  <1>3. QED BY <1>1, <1>2 DEF SizeOf, Promised!Lists, Promised!NoList, Promised!FoundLists

(* What a move within a visible list leaves, the contract allows.          *)
LEMMA MovedIsMoved ==
  ASSUME NEW list \in GoodList, Short(list), NEW other \in GoodList, other.items = list.items
  PROVE Short(other) /\ SizeOf(other) \in Promised!Moved(SizeOf(list))
  <1>1. Short(other)
    BY DEF Short
  <1>2. QED BY <1>1, SizeOfGood DEF Promised!Moved

-----------------------------------------------------------------------------
(* The private methods keep lists short *)

(* What they need to know of a list kept for a segment.                    *)
LEMMA KeptList ==
  ASSUME NEW e, Sound(e), Limited(e), NEW i \in 1 .. Len(e.segmentCandidates)
  PROVE e.segmentCandidates[i] \in GoodList /\ Short(e.segmentCandidates[i])
  BY DEF Sound, SoundType, Limited

(* A lookup for a segment finds something, and not too much.               *)
LEMMA CandidatesForShort ==
  ASSUME NEW e, Sound(e), NEW i \in 1 .. Len(e.segments)
  PROVE LET list == CandidatesFor(e, i) IN
        list \in GoodList /\ Short(list) /\ HasItems(list) /\ list.selectedIndex = 0
  <1>1. e.dictionary \in Dictionaries /\ e.segments[i] \in Segment
    BY DEF Sound, SoundType
  <1>2. e.segments[i].reading \in Text
    BY <1>1 DEF Segment
  <1>3. QED BY <1>1, <1>2, LookupsShort, CandidatesForGood DEF CandidatesFor, Short, HasItems

(* Predictions likewise.                                                   *)
LEMMA PredictionsShort ==
  ASSUME NEW e, Sound(e), Limited(e), e.buffer # <<>>
  PROVE LET r == RefreshPredictions(e) IN
        Limited(r) /\ HasItems(r.candidates) /\ r.candidates.selectedIndex = 0
  <1> DEFINE b == BuildConversion(e)
             items == Predictions(b.dictionary, Reading(b))
             list == [items |-> items, selectedIndex |-> 0]
  <1>1. /\ Sound(b) /\ b = [e EXCEPT !.conversion = Convert(e.buffer)] /\ SameInput(b, e)
    BY BuildSound
  <1>2. b.segmentCandidates = e.segmentCandidates /\ b \in SoundType
    BY <1>1 DEF Sound, SoundType
  <1>3. b.buffer # <<>> /\ Reading(b) # <<>> /\ Reading(b) \in Text /\ b.dictionary \in Dictionaries
    BY <1>1, ReadingIs DEF SameInput, Sound, SoundType
  <1>4. RefreshPredictions(e) = [b EXCEPT !.candidates = list, !.primed = FALSE]
    BY <1>3 DEF RefreshPredictions
  <1>5. Len(items) <= MaxList /\ items # <<>>
    BY <1>3, LookupsShort
  <1> HIDE DEF b, items
  <1>6. /\ RefreshPredictions(e).candidates = list
        /\ RefreshPredictions(e).segmentCandidates = e.segmentCandidates
    BY <1>2, <1>4 DEF SoundType
  <1>7. QED BY <1>5, <1>6 DEF Limited, Short, HasItems

(* Another short list in the place of one leaves short lists.              *)
LEMMA UpdateShort ==
  ASSUME NEW e, Sound(e), Limited(e), NEW i \in 1 .. Len(e.segmentCandidates),
         NEW list \in GoodList, Short(list), NEW f,
         f.candidates = e.candidates,
         f.segmentCandidates = [e.segmentCandidates EXCEPT ![i] = list]
  PROVE Limited(f)
  <1>1. e.segmentCandidates \in Seq(GoodList)
    BY DEF Sound, SoundType
  <1>2. \A j \in 1 .. Len(f.segmentCandidates) :
          f.segmentCandidates[j] = IF j = i THEN list ELSE e.segmentCandidates[j]
    BY <1>1, UpdateType
  <1>3. Len(f.segmentCandidates) = Len(e.segmentCandidates)
    BY <1>1, UpdateType
  <1>4. QED BY <1>2, <1>3 DEF Limited

(* persistSegmentSelection stores a list that is short.                    *)
LEMMA PersistShort ==
  ASSUME NEW e, Sound(e), Segmented(e), Limited(e)
  PROVE Limited(PersistSelection(e))
  <1> DEFINE p == PersistSelection(e)
             lists == [e.segmentCandidates EXCEPT ![e.selected] = e.candidates]
  <1>1. e.selected \in 1 .. Len(e.segmentCandidates) /\ e.candidates \in GoodList
    BY SegmentedFacts
  <1>2. ~(e.segments = <<>> \/ e.selected > Len(e.segmentCandidates))
    BY SegmentedFacts DEF Segmented
  <1>3. p = [e EXCEPT !.segmentCandidates = lists]
    BY <1>2, SegmentedFacts DEF PersistSelection, WithList
  <1>4. p.segmentCandidates = lists /\ p.candidates = e.candidates
    BY <1>3, PersistSound DEF Sound, SoundType
  <1> HIDE DEF p
  <1>5. Short(e.candidates)
    BY DEF Limited
  <1>6. Limited(p)
    BY <1>1, <1>4, <1>5, UpdateShort
  <1>7. QED BY <1>6 DEF p

(* The prefetched list is short.                                           *)
LEMMA PrefetchShort ==
  ASSUME NEW e, Sound(e), Segmented(e), Limited(e)
  PROVE Limited(PrefetchNext(e))
  <1> DEFINE next == e.selected + 1
  <1>1. CASE next > Len(e.segments)
    BY <1>1 DEF PrefetchNext
  <1>2. CASE next <= Len(e.segments)
    <2> DEFINE old == e.segmentCandidates[next]
               new == Sanitize(IF HasItems(old) THEN old ELSE CandidatesFor(e, next))
               lists == [e.segmentCandidates EXCEPT ![next] = new]
               p == PrefetchNext(e)
    <2>1. next \in 1 .. Len(e.segments) /\ next \in 1 .. Len(e.segmentCandidates)
      BY <1>2 DEF Segmented, Sound, SoundType
    <2>2. old \in GoodList /\ Short(old) /\ CandidatesFor(e, next) \in GoodList
          /\ Short(CandidatesFor(e, next))
      BY <2>1, KeptList, CandidatesForShort
    <2>3. new \in GoodList /\ Short(new)
      BY <2>2, SanitizeKeepsGood
    <2>4. ~(next > Len(e.segments) \/ next > Len(e.segmentCandidates))
      BY <2>1
    <2>5. p = [e EXCEPT !.segmentCandidates = lists]
      BY <2>4 DEF PrefetchNext, WithList
    <2> HIDE DEF old, new
    <2>6. p.segmentCandidates = lists /\ p.candidates = e.candidates
      BY <2>5 DEF Sound, SoundType
    <2> HIDE DEF p
    <2>7. Limited(p)
      BY <2>1, <2>3, <2>6, UpdateShort
    <2>8. QED BY <2>7 DEF p
  <1>3. QED BY <1>1, <1>2, SegmentedFacts


(* Lists emptied behind a segment are short.                               *)
LEMMA InvalidateShort ==
  ASSUME NEW e, Sound(e), Limited(e), NEW i \in 1 .. Len(e.segmentCandidates)
  PROVE LET kept == InvalidateFollowing(e.segmentCandidates, i) IN
        \A j \in 1 .. Len(kept) : Short(kept[j])
  <1>1. e.segmentCandidates \in Seq(GoodList)
    BY DEF Sound, SoundType
  <1>2. QED BY <1>1, NoCandidatesShort DEF InvalidateFollowing, Limited

(* A preview keeps the list the user moves in, and all lists short.        *)
LEMMA PreviewShort ==
  ASSUME NEW e, Sound(e), Segmented(e), e.segmentCandidates[e.selected] = e.candidates, Limited(e)
  PROVE Limited(Preview(e)) /\ Preview(e).candidates = e.candidates
  <1> DEFINE i == e.selected
             text == HighlightedText(e)
             segment == [reading |-> e.segments[i].reading, text |-> text]
             segments == [e.segments EXCEPT ![i] = segment]
             lists == IF text = e.segments[i].text THEN e.segmentCandidates
                      ELSE InvalidateFollowing(e.segmentCandidates, i)
             f == [e EXCEPT !.candidates = e.candidates, !.segments = segments,
                            !.segmentCandidates = lists, !.displayDirty = TRUE]
  <1>1. /\ i \in 1 .. Len(e.segments) /\ i \in 1 .. Len(e.segmentCandidates)
        /\ e.segments[i] \in Segment /\ e.candidates \in GoodList
        /\ e.segments \in Seq(Segment) /\ e.segmentCandidates \in Seq(GoodList)
    BY SegmentedFacts DEF Sound, SoundType
  <1>2. text \in Text
    BY <1>1, SelectedTextType DEF HighlightedText, Segment
  <1>3. segment \in Segment
    BY <1>1, <1>2 DEF Segment
  <1>4. segments \in Seq(Segment) /\ Len(segments) = Len(e.segments)
    <2> HIDE DEF segment, i
    <2>1. QED BY <1>1, <1>3, UpdateType
  <1>5. lists \in Seq(GoodList) /\ Len(lists) = Len(e.segmentCandidates)
    BY <1>1, InvalidateFollowingType
  <1>6. Preview(e) = PrefetchNext(f)
    <2>1. SanitizeSegmentIndex(e) = e /\ Sanitize(e.candidates) = e.candidates
      BY <1>1, SegmentedFacts, SanitizeKeepsGood
    <2>2. e.segments # <<>>
      BY DEF Segmented
    <2>3. QED BY <2>1, <2>2 DEF Preview, HighlightedText
  <1>7. \A j \in 1 .. Len(lists) : Short(lists[j])
    BY <1>1, InvalidateShort DEF Limited
  <1>c. segments = [e.segments EXCEPT ![i] = [reading |-> e.segments[i].reading, text |-> text]]
    OBVIOUS
  <1> HIDE DEF segments, lists, text, segment
  <1>8. /\ f \in SoundType /\ SameInput(f, e) /\ f.conversion = e.conversion
        /\ f.candidates = e.candidates /\ f.segments = segments /\ f.segmentCandidates = lists
        /\ f.displayDirty = TRUE /\ f.selected = i
    BY <1>1, <1>4, <1>5 DEF Sound, SoundType, SameInput
  <1> HIDE DEF f
  <1>9. Sound(f)
    BY <1>8 DEF Sound, SameInput
  <1>d. Covers(f)
    BY <1>1, <1>2, <1>8, <1>c, TextCovers DEF Segmented, SameInput
  <1>10. Segmented(f)
    BY <1>4, <1>5, <1>8, <1>d DEF Segmented, Sound, SoundType
  <1>11. Limited(f)
    BY <1>7, <1>8 DEF Limited
  <1>12. QED BY <1>6, <1>8, <1>9, <1>10, <1>11, PrefetchShort, PrefetchSound

(* So does the preview that also stores the list.                          *)
LEMMA SyncPreviewShort ==
  ASSUME NEW e, Sound(e), Segmented(e), Limited(e)
  PROVE Limited(SyncPreview(e)) /\ SyncPreview(e).candidates = e.candidates
  <1> DEFINE s == PersistSelection(e)
  <1>1. /\ Sound(s) /\ Segmented(s) /\ s.candidates = e.candidates
        /\ s.segmentCandidates[s.selected] = s.candidates
    BY PersistSound
  <1>2. Limited(s)
    BY PersistShort
  <1> HIDE DEF s
  <1>3. QED BY <1>1, <1>2, PreviewShort DEF SyncPreview, s

(* refreshSegmentCandidates leaves a list with something to choose, and    *)
(* the segments where they are.                                            *)
LEMMA RefreshSegmentShort ==
  ASSUME NEW e, Sound(e), Segmented(e), Limited(e)
  PROVE LET r == RefreshSegmentCandidates(e) IN
        /\ Limited(r) /\ HasItems(r.candidates)
        /\ r.selected = e.selected /\ Len(r.segments) = Len(e.segments)
        /\ ~HasItems(e.segmentCandidates[e.selected]) => r.candidates.selectedIndex = 0
  <1> DEFINE i == e.selected
  <1>1. /\ SanitizeSegmentIndex(e) = e /\ e.segments # <<>> /\ i <= Len(e.segmentCandidates)
        /\ i \in 1 .. Len(e.segments) /\ i \in 1 .. Len(e.segmentCandidates)
        /\ e.segmentCandidates[i] \in GoodList /\ e.segmentCandidates \in Seq(GoodList)
    BY SegmentedFacts DEF Segmented, Sound, SoundType
  <1>2. CASE HasItems(e.segmentCandidates[i])
    <2> DEFINE list == Sanitize(e.segmentCandidates[i])
               lists == [e.segmentCandidates EXCEPT ![i] = list]
               f == [e EXCEPT !.segmentCandidates = lists]
               g == [f EXCEPT !.candidates = list]
    <2>1. RefreshSegmentCandidates(e) = Preview(g)
      BY <1>1, <1>2 DEF RefreshSegmentCandidates, WithList
    <2>2. list \in GoodList /\ HasItems(list) /\ Short(list)
      BY <1>1, <1>2, SanitizeKeepsGood, KeptList
    <2> HIDE DEF list
    <2>3. lists \in Seq(GoodList) /\ Len(lists) = Len(e.segmentCandidates) /\ lists[i] = list
      BY <1>1, <2>2, UpdateType
    <2>a. lists = [e.segmentCandidates EXCEPT ![i] = list]
      OBVIOUS
    <2> HIDE DEF lists
    <2>4. /\ Sound(f) /\ Segmented(f) /\ f.segmentCandidates = lists /\ f.selected = i
          /\ f.segments = e.segments /\ f.candidates = e.candidates
      BY <2>3, NewListsSound
    <2>5. Limited(f)
      BY <1>1, <2>2, <2>4, <2>a, UpdateShort
    <2> HIDE DEF f
    <2>6. /\ Sound(g) /\ Segmented(g) /\ g.candidates = list /\ g.segments = e.segments
          /\ g.segmentCandidates = lists /\ g.selected = i
      BY <2>2, <2>4, NewCandidatesSound
    <2>7. Limited(g)
      BY <2>2, <2>4, <2>5, <2>6 DEF Limited
    <2> HIDE DEF g, i
    <2>8. Limited(Preview(g)) /\ Preview(g).candidates = g.candidates
      BY <2>3, <2>6, <2>7, PreviewShort
    <2>9. Preview(g).selected = g.selected /\ Len(Preview(g).segments) = Len(g.segments)
      BY <2>3, <2>6, PreviewSound
    <2>10. QED BY <1>2, <2>1, <2>2, <2>6, <2>8, <2>9 DEF i
  <1>3. CASE ~HasItems(e.segmentCandidates[i])
    <2> DEFINE f == [e EXCEPT !.candidates = CandidatesFor(e, i)]
    <2>1. RefreshSegmentCandidates(e) = SyncPreview(f)
      BY <1>1, <1>3 DEF RefreshSegmentCandidates
    <2>2. CandidatesFor(e, i) \in GoodList /\ HasItems(CandidatesFor(e, i))
          /\ Short(CandidatesFor(e, i)) /\ CandidatesFor(e, i).selectedIndex = 0
      BY <1>1, CandidatesForShort
    <2>3. /\ Sound(f) /\ Segmented(f) /\ f.candidates = CandidatesFor(e, i)
          /\ f.segmentCandidates = e.segmentCandidates
          /\ f.segments = e.segments /\ f.selected = i
      BY <2>2, NewCandidatesSound
    <2> HIDE DEF f
    <2>4. Limited(f)
      BY <2>2, <2>3 DEF Limited
    <2>5. QED BY <2>1, <2>2, <2>3, <2>4, SyncPreviewShort, SyncPreviewSound
  <1>4. QED BY <1>2, <1>3

(* A step to another segment leaves it selected.                           *)
LEMMA SelectSegmentShort ==
  ASSUME NEW e, Sound(e), Segmented(e), Limited(e), NEW i \in 1 .. Len(e.segments)
  PROVE LET r == RefreshSegmentCandidates([e EXCEPT !.selected = i]) IN
        /\ Limited(r) /\ HasItems(r.candidates)
        /\ r.selected = i /\ Len(r.segments) = Len(e.segments)
  <1> DEFINE f == [e EXCEPT !.selected = i]
  <1>1. Sound(f) /\ Segmented(f)
    BY SelectSegmentSound
  <1>2. /\ f.selected = i /\ f.segments = e.segments /\ f.candidates = e.candidates
        /\ f.segmentCandidates = e.segmentCandidates
    BY DEF Sound, SoundType
  <1> HIDE DEF f
  <1>3. Limited(f)
    BY <1>2 DEF Limited
  <1>4. /\ Limited(RefreshSegmentCandidates(f)) /\ HasItems(RefreshSegmentCandidates(f).candidates)
        /\ RefreshSegmentCandidates(f).selected = f.selected
        /\ Len(RefreshSegmentCandidates(f).segments) = Len(f.segments)
    BY <1>1, <1>3, RefreshSegmentShort
  <1>5. QED BY <1>2, <1>4 DEF f

(* moveToSegment *)
LEMMA MoveToSegmentShort ==
  ASSUME NEW e, Sound(e), Segmented(e), Limited(e), NEW i \in 1 .. Len(e.segments)
  PROVE LET r == MoveToSegment(e, i) IN
        /\ Limited(r) /\ HasItems(r.candidates)
        /\ r.selected = i /\ Len(r.segments) = Len(e.segments)
  <1> DEFINE p == SyncPreview(e)
  <1>1. Sound(p) /\ Segmented(p) /\ Len(p.segments) = Len(e.segments) /\ i \in 1 .. Len(p.segments)
    BY SyncPreviewSound
  <1>2. Limited(p)
    BY SyncPreviewShort
  <1>3. MoveToSegment(e, i) = RefreshSegmentCandidates([p EXCEPT !.selected = i])
    BY DEF MoveToSegment
  <1> HIDE DEF p
  <1>4. QED BY <1>1, <1>2, <1>3, SelectSegmentShort

(* advanceSegmentAfterSelection with a segment ahead                       *)
LEMMA AdvanceShort ==
  ASSUME NEW e, Sound(e), Segmented(e), Limited(e), ~IsLastSegment(e)
  PROVE LET r == Advance(e) IN
        /\ Limited(r) /\ HasItems(r.candidates)
        /\ r.selected = e.selected + 1 /\ Len(r.segments) = Len(e.segments)
  <1> DEFINE p == PersistSelection(e)
             i == e.selected + 1
  <1>1. /\ Sound(p) /\ Segmented(p) /\ p.selected = e.selected /\ p.segments = e.segments
    BY PersistSound
  <1>2. Limited(p)
    BY PersistShort
  <1>3. i \in 1 .. Len(p.segments)
    BY <1>1 DEF IsLastSegment, Sound, SoundType
  <1>4. Advance(e) = RefreshSegmentCandidates([p EXCEPT !.selected = i])
    BY <1>1 DEF Advance
  <1> HIDE DEF p, i
  <1>5. /\ Limited(Advance(e)) /\ HasItems(Advance(e).candidates)
        /\ Advance(e).selected = i /\ Len(Advance(e).segments) = Len(p.segments)
    BY <1>1, <1>2, <1>3, <1>4, SelectSegmentShort
  <1>6. QED BY <1>1, <1>5 DEF i


(* A sequence that lost one element has the others.                        *)
LEMMA RemovedFrom ==
  ASSUME NEW S, NEW s \in Seq(S), NEW i \in 1 .. Len(s), NEW j \in 1 .. Len(s) - 1
  PROVE \E k \in 1 .. Len(s) : RemoveAt(s, i)[j] = s[k]
  <1>1. RemoveAt(s, i)[j] = IF j < i THEN s[j] ELSE s[j + 1]
    <2> DEFINE front == SubSeq(s, 1, i - 1)
               back == SubSeq(s, i + 1, Len(s))
    <2>1. /\ front \in Seq(S) /\ Len(front) = i - 1
          /\ \A n \in 1 .. i - 1 : front[n] = s[n]
      OBVIOUS
    <2>2. /\ back \in Seq(S) /\ Len(back) = Len(s) - i
          /\ \A n \in 1 .. Len(s) - i : back[n] = s[i + n]
      OBVIOUS
    <2>3. RemoveAt(s, i) = front \o back
      BY DEF RemoveAt
    <2> HIDE DEF front, back
    <2>4. CASE j < i
      BY <2>1, <2>2, <2>3, <2>4
    <2>5. CASE j >= i
      <3>1. (front \o back)[j] = back[j - Len(front)]
        BY <2>1, <2>2, <2>5
      <3>2. QED BY <2>1, <2>2, <2>3, <2>5, <3>1
    <2>6. QED BY <2>4, <2>5
  <1>2. QED BY <1>1

(* resizeSelectedSegment leaves one segment less.                          *)
LEMMA MergeShort ==
  ASSUME NEW e, Sound(e), Segmented(e), Limited(e), NEW i \in 1 .. Len(e.segments) - 1
  PROVE LET r == MergeAt(e, i) IN
        /\ Limited(r) /\ HasItems(r.candidates)
        /\ r.selected = i /\ Len(r.segments) = Len(e.segments) - 1
  <1> DEFINE joined == e.segments[i].reading \o e.segments[i + 1].reading
             segment == [reading |-> joined, text |-> joined]
             widened == [e.segments EXCEPT ![i] = segment]
             segments == RemoveAt(widened, i + 1)
             cleared == [e.segmentCandidates EXCEPT ![i] = NoCandidates]
             lists == RemoveAt(cleared, i + 1)
             f == [e EXCEPT !.segments = segments, !.segmentCandidates = lists,
                            !.selected = i, !.displayDirty = TRUE]
  <1>1. /\ e.segments \in Seq(Segment) /\ e.segmentCandidates \in Seq(GoodList)
        /\ e.segmentCandidates # <<>> /\ Len(e.segmentCandidates) = Len(e.segments)
        /\ i \in 1 .. Len(e.segments) /\ i \in 1 .. Len(e.segmentCandidates)
        /\ i + 1 \in 1 .. Len(e.segments) /\ i \in Nat \ {0} /\ Len(e.segments) \in Nat
    BY DEF Sound, SoundType, Segmented
  <1>2. e.segments[i] \in Segment /\ e.segments[i + 1] \in Segment
    BY <1>1
  <1>3. e.segments[i].reading \in Text /\ e.segments[i + 1].reading \in Text
    BY <1>2 DEF Segment
  <1>4. joined \in Text
    BY <1>3 DEF Text
  <1>5. segment \in Segment /\ segment.reading = joined
    BY <1>4 DEF Segment
  <1>6. MergeAt(e, i) = RefreshSegmentCandidates(ClearCandidates(f))
    BY <1>1 DEF MergeAt
  <1> HIDE DEF segment
  <1>7. widened \in Seq(Segment) /\ Len(widened) = Len(e.segments)
    BY <1>1, <1>5, UpdateType
  <1>8. /\ cleared \in Seq(GoodList) /\ Len(cleared) = Len(e.segmentCandidates)
        /\ \A j \in 1 .. Len(cleared) : Short(cleared[j])
    <2>1. /\ cleared \in Seq(GoodList) /\ Len(cleared) = Len(e.segmentCandidates)
          /\ \A j \in 1 .. Len(e.segmentCandidates) :
               cleared[j] = IF j = i THEN NoCandidates ELSE e.segmentCandidates[j]
      BY <1>1, NoCandidatesGood, UpdateType
    <2> HIDE DEF cleared
    <2>2. QED BY <2>1, NoCandidatesShort DEF Limited
  <1> HIDE DEF widened, cleared
  <1>9. segments \in Seq(Segment) /\ Len(segments) = Len(e.segments) - 1
    BY <1>1, <1>7, RemoveAtType
  <1>10. lists \in Seq(GoodList) /\ Len(lists) = Len(e.segments) - 1
    BY <1>1, <1>8, RemoveAtType
  <1>11. \A j \in 1 .. Len(lists) : Short(lists[j])
    <2> TAKE j \in 1 .. Len(lists)
    <2>1. j \in 1 .. Len(cleared) - 1 /\ i + 1 \in 1 .. Len(cleared)
      BY <1>1, <1>8, <1>10
    <2>2. \E k \in 1 .. Len(cleared) : lists[j] = cleared[k]
      BY <1>8, <2>1, RemovedFrom
    <2>3. QED BY <1>8, <2>2
  <1> HIDE DEF segments, lists
  <1>12. /\ f \in SoundType /\ SameInput(f, e) /\ f.conversion = e.conversion
         /\ f.segments = segments /\ f.segmentCandidates = lists
         /\ f.displayDirty = TRUE /\ f.selected = i
    BY <1>1, <1>9, <1>10 DEF Sound, SoundType, SameInput
  <1> HIDE DEF f
  <1>13. Sound(f)
    BY <1>12 DEF Sound, SameInput
  <1>14. segments # <<>>
    BY <1>1, <1>9
  <1>a. segments = RemoveAt([e.segments EXCEPT ![i] = segment], i + 1)
    BY DEF segments, widened
  <1>b. Covers(f)
    BY <1>5, <1>12, <1>a, MergedCovers DEF Segmented, SameInput
  <1>15. Segmented(f)
    BY <1>1, <1>9, <1>10, <1>12, <1>14, <1>b DEF Segmented
  <1> DEFINE c == ClearCandidates(f)
  <1>16. /\ Sound(c) /\ Segmented(c) /\ c.candidates = NoCandidates
         /\ c.segmentCandidates = lists /\ c.selected = i /\ c.segments = segments
    BY <1>12, <1>13, <1>15, NoCandidatesGood
       DEF ClearCandidates, Sound, SoundType, Segmented, Covers
  <1> HIDE DEF c
  <1>17. Limited(c)
    BY <1>11, <1>16, NoCandidatesShort DEF Limited
  <1>18. /\ Limited(RefreshSegmentCandidates(c)) /\ HasItems(RefreshSegmentCandidates(c).candidates)
         /\ RefreshSegmentCandidates(c).selected = c.selected
         /\ Len(RefreshSegmentCandidates(c).segments) = Len(c.segments)
    BY <1>16, <1>17, RefreshSegmentShort
  <1>19. QED BY <1>6, <1>9, <1>16, <1>18 DEF c

(* A conversion never has more glyphs than were typed.                     *)
LEMMA ReadingFits ==
  ASSUME NEW e, Sound(e)
  PROVE Len(Reading(e)) <= Len(e.buffer) /\ Len(Reading(e)) \in Nat
  <1>1. e.buffer \in Text /\ Reading(e) = ReadingOf(Convert(e.buffer)) /\ Reading(e) \in Text
    BY ReadingIs, BufferFacts
  <1>2. CASE e.buffer \in DOMAIN Conversion
    BY <1>1, <1>2, LimitAssumption DEF Convert, Text
  <1>3. CASE e.buffer \notin DOMAIN Conversion
    <2>1. Reading(e) = e.buffer
      BY <1>1, <1>3 DEF Convert, ReadingOf, Text
    <2>2. QED BY <1>1, <2>1 DEF Text
  <1>4. QED BY <1>2, <1>3

(* A cut has no more segments than its reading glyphs; its lists are empty. *)
LEMMA RebuildShort ==
  ASSUME NEW e, Sound(e), e.buffer # <<>>, Limited(e), NEW cut \in Cuts(Reading(e))
  PROVE LET r == RebuildSegments(e, cut) IN
        /\ Limited(r) /\ r.selected = 1 /\ Len(r.segments) \in 1 .. Len(e.buffer)
        /\ ~HasItems(r.segmentCandidates[1])
  <1> DEFINE reading == Reading(e)
             count == Len(cut) - 1
             part(i) == SubSeq(reading, cut[i], cut[i + 1] - 1)
             segments == [i \in 1 .. count |-> [reading |-> part(i), text |-> part(i)]]
             lists == [i \in 1 .. count |-> NoCandidates]
             r == RebuildSegments(e, cut)
  <1>1. Len(reading) \in Nat \ {0} /\ Len(reading) <= Len(e.buffer) /\ Len(e.buffer) \in Nat
    BY ReadingIs, ReadingFits, BufferFacts DEF Text
  <1>2. PICK k \in 1 .. Len(reading) : cut \in [1 .. k + 1 -> 1 .. Len(reading) + 1]
    <2>1. \/ cut = <<1, Len(reading) + 1>>
          \/ \E k \in 1 .. Len(reading) : cut \in [1 .. k + 1 -> 1 .. Len(reading) + 1]
      BY Zenon DEF Cuts
    <2>2. ASSUME cut = <<1, Len(reading) + 1>>
          PROVE 1 \in 1 .. Len(reading) /\ cut \in [1 .. 1 + 1 -> 1 .. Len(reading) + 1]
      <3> DEFINE n == Len(reading)
      <3> HIDE DEF n
      <3>1. <<1, n + 1>> \in [1 .. 2 -> 1 .. n + 1] /\ n \in Nat \ {0}
        BY <1>1 DEF n
      <3>2. QED BY <2>2, <3>1 DEF n
    <2>3. QED BY <2>1, <2>2
  <1>3. Len(cut) = k + 1
    BY <1>1, <1>2
  <1>4. count = k /\ count \in 1 .. Len(e.buffer)
    BY <1>1, <1>3
  <1>5. r = [e EXCEPT !.segments = segments, !.segmentCandidates = lists,
                      !.selected = 1, !.displayDirty = TRUE]
    BY DEF RebuildSegments
  <1> HIDE DEF part, count
  <1>6. Len(segments) = count /\ Len(lists) = count
    BY <1>4
  <1> HIDE DEF segments
  <1>7. /\ r.segments = segments /\ r.segmentCandidates = lists /\ r.selected = 1
        /\ r.candidates = e.candidates
    BY <1>5 DEF Sound, SoundType
  <1> HIDE DEF r
  <1>8. \A i \in 1 .. Len(lists) : lists[i] = NoCandidates
    BY <1>6
  <1>9. 1 \in 1 .. Len(lists)
    BY <1>4, <1>6
  <1>10. Limited(r)
    BY <1>7, <1>8, NoCandidatesShort DEF Limited
  <1>11. QED BY <1>4, <1>6, <1>7, <1>8, <1>9, <1>10, NoCandidatesGood DEF r


-----------------------------------------------------------------------------
(* Answers *)

(* An engine that answers is seen as the session it holds, shown.          *)
LEMMA AnswerShows ==
  ASSUME NEW e, Sound(e), Phase(e), Roomy(e), NEW conversion \in Converted, NEW consumed \in BOOLEAN,
         conversion = Convert(e.buffer), Answer(e, conversion, consumed)
  PROVE Promised!Take(Promised!Shows(SessionOf(e), consumed)) /\ Roomy(ime')
  <1> DEFINE r == Render(e)
  <1>1. /\ r.currentState = e.currentState /\ r.buffer = e.buffer
        /\ r.segments = e.segments /\ r.candidates = e.candidates
        /\ r.currentState = "Converting" => r.selected = e.selected
    BY RenderSound
  <1>2. r.segmentCandidates = e.segmentCandidates
    BY RenderKeepsLists
  <1>3. ime' = r /\ out'.isConsumed = consumed /\ out'.commit = <<>>
    BY DEF Answer
  <1> HIDE DEF r
  <1>4. SessionOf(r) = SessionOf(e)
    BY <1>1 DEF SessionOf
  <1>5. Promised!IsOpen(SessionOf(e)) <=> e.currentState \in {"Composing", "Converting"}
    BY DEF SessionOf, Promised!IsOpen
  <1>6. SessionOf(ime)' = SessionOf(e)
    BY <1>3, <1>4 DEF SessionOf
  <1>7. AnswerOf(ime, out)' =
          [consumed |-> consumed,
           action |-> IF e.currentState \in {"Composing", "Converting"} THEN "Update" ELSE "Clear"]
    BY <1>1, <1>3 DEF AnswerOf
  <1>8. Roomy(r)
    BY <1>1, <1>2 DEF Roomy, Limited
  <1>9. QED BY <1>3, <1>5, <1>6, <1>7, <1>8 DEF Promised!Take, Promised!Shows

(* createOutput with the cached conversion and without it. *)
LEMMA RespondShows ==
  ASSUME NEW e, Sound(e), Phase(e), Roomy(e), NEW consumed \in BOOLEAN,
         Respond(e, consumed) \/ RespondFresh(e, consumed)
  PROVE Promised!Take(Promised!Shows(SessionOf(e), consumed)) /\ Roomy(ime')
  <1>1. CASE RespondFresh(e, consumed)
    BY <1>1, AnswerShows, ConvertType, BufferFacts DEF RespondFresh
  <1>2. CASE Respond(e, consumed)
    <2> DEFINE b == BuildConversion(e)
    <2>1. /\ Sound(b) /\ Phase(b) /\ b.conversion \in Converted /\ b.conversion = Convert(b.buffer)
          /\ SameInput(b, e) /\ b.segments = e.segments /\ b.candidates = e.candidates
          /\ b = [e EXCEPT !.conversion = Convert(e.buffer)]
      BY BuildSound, BuildPhase DEF SameInput
    <2>2. Answer(b, b.conversion, consumed)
      BY <1>2 DEF Respond
    <2>3. b.segmentCandidates = e.segmentCandidates /\ b.selected = e.selected
      BY <2>1 DEF Sound, SoundType
    <2> HIDE DEF b
    <2>4. SessionOf(b) = SessionOf(e) /\ Roomy(b)
      BY <2>1, <2>3 DEF SessionOf, SameInput, Roomy, Limited
    <2>5. QED BY <2>1, <2>2, <2>4, AnswerShows
  <1>3. QED BY <1>1, <1>2

(* A commit is seen as a session that has ended.                           *)
LEMMA CommitEnds ==
  ASSUME NEW e, Sound(e), NEW parts, parts # <<>>, NEW learned, CommitSession(e, parts, learned),
         NEW text
  PROVE Promised!Take(Promised!Commits(text)) /\ Roomy(ime')
  <1> DEFINE reset == ResetSession(e)
  <1>1. reset \in SoundType /\ reset.buffer = <<>> /\ reset.candidates = NoCandidates
        /\ reset.segmentCandidates = <<>>
    BY ResetSound DEF ResetSession, ClearCandidates, InvalidateConversion, Sound, SoundType
  <1>2. PICK d \in Learned(e.dictionary, learned) :
          /\ ime' = [reset EXCEPT !.currentState = "Committed", !.dictionary = d]
          /\ out' = [isConsumed |-> TRUE, composition |-> NoComposition, candidates |-> NoCandidates,
                     commit |-> parts, learned |-> learned]
    BY DEF CommitSession
  <1> HIDE DEF reset
  <1>3. /\ ime'.currentState = "Committed" /\ ime'.buffer = <<>> /\ ime'.candidates = NoCandidates
        /\ ime'.segmentCandidates = <<>>
    BY <1>1, <1>2 DEF SoundType
  <1>4. SessionOf(ime)' = Promised!Empty("Idle")
    BY <1>3 DEF SessionOf, SizeOf, NoCandidates, Promised!Empty, Promised!NoList
  <1>5. AnswerOf(ime, out)' = [consumed |-> TRUE, action |-> "Commit"]
    BY <1>2 DEF AnswerOf
  <1>6. Roomy(ime')
    BY <1>3, NoCandidatesShort DEF Roomy, Limited
  <1>7. QED BY <1>4, <1>5, <1>6 DEF Promised!Take, Promised!Commits

(* A key the contract answers with o makes a step of the contract.         *)
LEMMA KeyTakes ==
  ASSUME NEW key \in Promised!Keys, NEW ch \in Glyphs,
         NEW o \in Promised!Outcomes(SessionOf(ime), key, ch), Promised!Take(o)
  PROVE Promised!Next
  BY DEF Promised!Next, Promised!PressKey

(* So does a call of the candidate window.                                 *)
LEMMA CallTakes ==
  ASSUME NEW o, Promised!Take(o),
         \/ \E i \in 0 .. MaxList : o \in Promised!SetCandidateSelection(SessionOf(ime), i)
         \/ o \in Promised!FinalizeCandidateSelection(SessionOf(ime))
         \/ o \in Promised!AbortCandidateSelection(SessionOf(ime))
  PROVE Promised!Next
  BY DEF Promised!Next, Promised!CallFromWindow

(* There is something to type.                                             *)
LEMMA SomeGlyph == LongVowel \in Glyphs
  BY GlyphAssumption


-----------------------------------------------------------------------------
(* Sessions *)

(* Outside a session the contract sees an empty one.                       *)
LEMMA ClosedSession ==
  ASSUME PInv, ime.currentState \in {"Direct", "Idle", "Committed"}
  PROVE SessionOf(ime) = Promised!Empty(IF ime.currentState = "Direct" THEN "Direct" ELSE "Idle")
  <1>1. ime.buffer = <<>> /\ ~HasItems(ime.candidates) /\ ime.candidates \in GoodList
        /\ Short(ime.candidates)
    BY Closed DEF PInv, Roomy, Limited, Sound, SoundType
  <1>2. SizeOf(ime.candidates) = Promised!NoList
    BY <1>1, SizeOfGood
  <1>3. QED BY <1>1, <1>2 DEF SessionOf, Promised!Empty

(* While composing it sees the typed characters and the predictions.       *)
LEMMA ComposingSession ==
  ASSUME PInv, Composing
  PROVE /\ SessionOf(ime) = [state |-> "Composing", text |-> ime.buffer, ahead |-> 0,
                             list |-> SizeOf(ime.candidates)]
        /\ ime.candidates \in GoodList /\ Short(ime.candidates)
        /\ Promised!HasVisibleList(SessionOf(ime)) <=> HasItems(ime.candidates)
        /\ ime.buffer \in Seq(Glyphs) /\ ime.buffer # <<>>
  <1>1. /\ ime.candidates \in GoodList /\ Short(ime.candidates)
        /\ ime.buffer # <<>> /\ ime.buffer \in Seq(Glyphs)
    BY ComposingFacts, BufferFacts DEF PInv, Roomy, Limited
  <1>2. SessionOf(ime) = [state |-> "Composing", text |-> ime.buffer, ahead |-> 0,
                          list |-> SizeOf(ime.candidates)]
    BY DEF Composing, SessionOf
  <1>3. QED BY <1>1, <1>2, SizeOfGood DEF Promised!HasVisibleList

(* While converting it sees the segments ahead and the list of the         *)
(* selected one.                                                           *)
LEMMA ConvertingSession ==
  ASSUME PInv, Converting
  PROVE /\ SessionOf(ime) = [state |-> "Converting", text |-> ime.buffer,
                             ahead |-> Len(ime.segments) - ime.selected,
                             list |-> SizeOf(ime.candidates)]
        /\ ime.candidates \in GoodList /\ Short(ime.candidates) /\ HasItems(ime.candidates)
        /\ Promised!HasVisibleList(SessionOf(ime))
        /\ ime.selected \in 1 .. Len(ime.segments) /\ Len(ime.segments) \in 1 .. Len(ime.buffer)
        /\ Len(ime.buffer) \in Nat
  <1>1. /\ ime.candidates \in GoodList /\ Short(ime.candidates) /\ HasItems(ime.candidates)
        /\ Sound(ime) /\ Segmented(ime) /\ Len(ime.segments) <= Len(ime.buffer)
    BY ConvertingFacts DEF PInv, Roomy, Limited, Converting
  <1>2. /\ ime.selected \in 1 .. Len(ime.segments) /\ Len(ime.segments) \in Nat
        /\ Len(ime.buffer) \in Nat
    BY <1>1, SegmentedFacts, BufferFacts DEF Sound, SoundType
  <1>3. SessionOf(ime) = [state |-> "Converting", text |-> ime.buffer,
                          ahead |-> Len(ime.segments) - ime.selected,
                          list |-> SizeOf(ime.candidates)]
    BY DEF Converting, SessionOf
  <1>4. QED BY <1>1, <1>2, <1>3, SizeOfGood DEF Promised!HasVisibleList

(* A record of the engine that holds a composing session.                  *)
LEMMA SeenComposing ==
  ASSUME NEW e, e.currentState = "Composing"
  PROVE SessionOf(e) = [state |-> "Composing", text |-> e.buffer, ahead |-> 0,
                        list |-> SizeOf(e.candidates)]
  BY DEF SessionOf

(* A record of the engine that holds a converting one.                     *)
LEMMA SeenConverting ==
  ASSUME NEW e, e.currentState = "Converting"
  PROVE SessionOf(e) = [state |-> "Converting", text |-> e.buffer,
                        ahead |-> Len(e.segments) - e.selected, list |-> SizeOf(e.candidates)]
  BY DEF SessionOf

(* A key nobody handles changes nothing the contract sees.                 *)
LEMMA OtherKeyTakes ==
  ASSUME Promised!Take(Promised!Shows(SessionOf(ime), FALSE))
  PROVE Promised!Next
  <1>1. "Other" \in Promised!Keys
    BY DEF Promised!Keys
  <1>2. Promised!Shows(SessionOf(ime), FALSE) \in Promised!Outcomes(SessionOf(ime), "Other", LongVowel)
    BY Zenon DEF Promised!Outcomes, Promised!IdleOutcomes, Promised!ComposingOutcomes,
           Promised!ConvertingOutcomes
  <1>3. QED BY <1>1, <1>2, KeyTakes, SomeGlyph


-----------------------------------------------------------------------------
(* Mode keys, and keys outside a session *)

(* A session thrown away is seen as an empty one.                          *)
LEMMA ResetSeen ==
  ASSUME PInv, NEW state \in {"Direct", "Idle", "Committed"}
  PROVE LET f == ResetSession(In(ime, state)) IN
        /\ Sound(f) /\ Phase(f) /\ Roomy(f)
        /\ SessionOf(f) = Promised!Empty(IF state = "Direct" THEN "Direct" ELSE "Idle")
  <1> DEFINE f == ResetSession(In(ime, state))
  <1>1. Sound(f) /\ Phase(f) /\ f.currentState = state
    BY ClosedByReset DEF PInv
  <1>2. ime \in SoundType
    BY DEF PInv, IInv, Sound
  <1>3. f.buffer = <<>> /\ f.candidates = NoCandidates /\ f.segmentCandidates = <<>>
    BY <1>2 DEF ResetSession, ClearCandidates, InvalidateConversion, In, SoundType
  <1> HIDE DEF f
  <1>4. Roomy(f)
    BY <1>1, <1>3, NoCandidatesShort DEF Roomy, Limited
  <1>5. SessionOf(f) = Promised!Empty(IF state = "Direct" THEN "Direct" ELSE "Idle")
    BY <1>1, <1>3 DEF SessionOf, SizeOf, NoCandidates, Promised!Empty, Promised!NoList
  <1>6. QED BY <1>1, <1>4, <1>5 DEF f

(* Between sessions the engine may change its mode.                        *)
LEMMA IdleSeen ==
  ASSUME PInv, ime.currentState \in {"Direct", "Idle", "Committed"}
  PROVE LET f == In(ime, "Idle") IN
        /\ Sound(f) /\ Phase(f) /\ Roomy(f)
        /\ SessionOf(f) = Promised!Empty("Idle")
  <1> DEFINE f == In(ime, "Idle")
  <1>1. /\ Sound(ime) /\ ime.buffer = <<>> /\ ime.segments = <<>>
        /\ ~HasItems(ime.candidates) /\ ~ime.primed
    BY Closed DEF PInv
  <1>2. /\ Sound(f) /\ Phase(f) /\ f.currentState = "Idle" /\ f.buffer = <<>>
    BY <1>1, ClosedPhase
  <1>3. f.candidates = ime.candidates /\ f.segmentCandidates = ime.segmentCandidates
    BY <1>1 DEF In, Sound, SoundType
  <1> HIDE DEF f
  <1>4. Roomy(f)
    BY <1>2, <1>3 DEF PInv, Roomy, Limited
  <1>5. SizeOf(f.candidates) = Promised!NoList
    BY <1>1, <1>3, SizeOfGood DEF PInv, Roomy, Limited, Sound, SoundType
  <1>6. SessionOf(f) = Promised!Empty("Idle")
    BY <1>2, <1>5 DEF SessionOf, Promised!Empty
  <1>7. QED BY <1>2, <1>4, <1>6 DEF f

(* The mode keys, and a key release.                                       *)
LEMMA ModeKeysRefine ==
  ASSUME PInv, ToggleIme \/ ModeLatin \/ ModeHiragana \/ PassThrough
  PROVE Promised!Next /\ Roomy(ime')
  <1> DEFINE s == SessionOf(ime)
             reset == ResetSession(In(ime, "Direct"))
             idle == In(ime, "Idle")
  <1>a. {"Toggle", "Latin", "Hiragana"} \subseteq Promised!Keys
    BY DEF Promised!Keys
  <1>b. ime.currentState \in States /\ Sound(ime) /\ Phase(ime) /\ Roomy(ime)
    BY DEF PInv, IInv, Sound, SoundType
  <1>c. s.state = "Direct" <=> ime.currentState = "Direct"
    BY <1>b DEF SessionOf
  <1>d. /\ Sound(reset) /\ Phase(reset) /\ Roomy(reset) /\ SessionOf(reset) = Promised!Empty("Direct")
    BY ResetSeen
  <1>e. ime.currentState = "Direct" =>
          Sound(idle) /\ Phase(idle) /\ Roomy(idle) /\ SessionOf(idle) = Promised!Empty("Idle")
    BY IdleSeen
  <1> HIDE DEF s, reset, idle
  <1>1. CASE ToggleIme
    <2>1. CASE ime.currentState = "Direct"
      <3>1. Promised!Take(Promised!Shows(Promised!Empty("Idle"), TRUE)) /\ Roomy(ime')
        BY <1>1, <1>e, <2>1, RespondShows DEF ToggleIme, idle
      <3>2. Promised!Shows(Promised!Empty("Idle"), TRUE) \in Promised!Outcomes(s, "Toggle", LongVowel)
        BY <1>c, <2>1 DEF Promised!Outcomes, Promised!ModeOutcomes
      <3>3. QED BY <1>a, <3>1, <3>2, KeyTakes, SomeGlyph DEF s
    <2>2. CASE ime.currentState # "Direct"
      <3>1. Promised!Take(Promised!Shows(Promised!Empty("Direct"), TRUE)) /\ Roomy(ime')
        BY <1>1, <1>d, <2>2, RespondShows DEF ToggleIme, reset
      <3>2. Promised!Shows(Promised!Empty("Direct"), TRUE) \in Promised!Outcomes(s, "Toggle", LongVowel)
        BY <1>c, <2>2 DEF Promised!Outcomes, Promised!ModeOutcomes
      <3>3. QED BY <1>a, <3>1, <3>2, KeyTakes, SomeGlyph DEF s
    <2>3. QED BY <2>1, <2>2
  <1>2. CASE ModeLatin
    <2>1. Promised!Take(Promised!Shows(Promised!Empty("Direct"), TRUE)) /\ Roomy(ime')
      BY <1>2, <1>d, RespondShows DEF ModeLatin, reset
    <2>2. Promised!Shows(Promised!Empty("Direct"), TRUE) \in Promised!Outcomes(s, "Latin", LongVowel)
      BY DEF Promised!Outcomes, Promised!ModeOutcomes
    <2>3. QED BY <1>a, <2>1, <2>2, KeyTakes, SomeGlyph DEF s
  <1>3. CASE ModeHiragana
    <2>1. CASE ime.currentState = "Direct"
      <3>1. Promised!Take(Promised!Shows(Promised!Empty("Idle"), TRUE)) /\ Roomy(ime')
        BY <1>3, <1>e, <2>1, RespondShows DEF ModeHiragana, idle
      <3>2. Promised!Shows(Promised!Empty("Idle"), TRUE) \in Promised!Outcomes(s, "Hiragana", LongVowel)
        BY <1>c, <2>1 DEF Promised!Outcomes, Promised!ModeOutcomes
      <3>3. QED BY <1>a, <3>1, <3>2, KeyTakes, SomeGlyph DEF s
    <2>2. CASE ime.currentState # "Direct"
      <3>1. Promised!Take(Promised!Shows(s, TRUE)) /\ Roomy(ime')
        BY <1>3, <1>b, <2>2, RespondShows DEF ModeHiragana, s
      <3>2. Promised!Shows(s, TRUE) \in Promised!Outcomes(s, "Hiragana", LongVowel)
        BY <1>c, <2>2 DEF Promised!Outcomes, Promised!ModeOutcomes
      <3>3. QED BY <1>a, <3>1, <3>2, KeyTakes, SomeGlyph DEF s
    <2>3. QED BY <2>1, <2>2
  <1>4. CASE PassThrough
    <2>1. Promised!Take(Promised!Shows(SessionOf(ime), FALSE)) /\ Roomy(ime')
      BY <1>4, <1>b, RespondShows DEF PassThrough
    <2>2. QED BY <2>1, OtherKeyTakes
  <1>5. QED BY <1>1, <1>2, <1>3, <1>4

(* Keys an idle engine leaves to the application, or commits at once.      *)
LEMMA IdleKeysRefine ==
  ASSUME PInv, IdleOther \/ \E mark \in Marks \cup {LongVowel} : IdleCommit(mark)
  PROVE Promised!Next /\ Roomy(ime')
  <1>1. ime.currentState \in {"Idle", "Committed"}
    BY DEF IdleOther, IdleCommit, Ready
  <1>2. SessionOf(ime) = Promised!Empty("Idle")
    BY <1>1, ClosedSession
  <1>3. CASE IdleOther
    <2>1. LET f == In(ime, "Idle") IN
          Sound(f) /\ Phase(f) /\ Roomy(f) /\ SessionOf(f) = Promised!Empty("Idle")
      BY <1>1, IdleSeen
    <2>2. Promised!Take(Promised!Shows(Promised!Empty("Idle"), FALSE)) /\ Roomy(ime')
      BY <1>3, <2>1, RespondShows DEF IdleOther
    <2>3. QED BY <1>2, <2>2, OtherKeyTakes
  <1>4. ASSUME NEW mark \in Marks \cup {LongVowel}, IdleCommit(mark)
        PROVE Promised!Next /\ Roomy(ime')
    <2>1. /\ ime' = In(ime, "Committed")
          /\ out' = [isConsumed |-> TRUE, composition |-> NoComposition, candidates |-> NoCandidates,
                     commit |-> <<<<mark>>>>, learned |-> <<>>]
      BY <1>4 DEF IdleCommit
    <2>2. mark \in Glyphs
      BY GlyphAssumption
    <2>3. ime \in SoundType /\ Roomy(ime)
      BY DEF PInv, IInv, Sound
    <2>4. /\ ime'.currentState = "Committed" /\ ime'.buffer = ime.buffer
          /\ ime'.candidates = ime.candidates /\ ime'.segmentCandidates = ime.segmentCandidates
      BY <2>1, <2>3 DEF In, SoundType
    <2>5. SessionOf(ime)' = Promised!Empty("Idle")
      <3>1. ime.buffer = <<>> /\ SizeOf(ime.candidates) = Promised!NoList
        BY <1>2 DEF SessionOf, Promised!Empty
      <3>2. Len(ime.candidates.items) = 0 /\ ime.candidates.selectedIndex = 0
        BY <3>1 DEF SizeOf, Promised!NoList
      <3>3. ime'.buffer = <<>> /\ Len(ime'.candidates.items) = 0 /\ ime'.candidates.selectedIndex = 0
        BY <2>4, <3>1, <3>2
      <3>4. QED BY <2>4, <3>3 DEF SessionOf, SizeOf, Promised!Empty, Promised!NoList
    <2>6. AnswerOf(ime, out)' = [consumed |-> TRUE, action |-> "Commit"]
      <3>1. <<<<mark>>>> # <<>>
        OBVIOUS
      <3>2. QED BY <2>1, <3>1 DEF AnswerOf
    <2>7. Promised!Take(Promised!Commits(<<mark>>))
      BY <2>5, <2>6 DEF Promised!Take, Promised!Commits
    <2>8. Promised!Commits(<<mark>>) \in Promised!Outcomes(SessionOf(ime), "Mark", mark)
      BY <1>2 DEF Promised!Outcomes, Promised!IdleOutcomes, Promised!Empty
    <2>9. "Mark" \in Promised!Keys
      BY DEF Promised!Keys
    <2>10. Roomy(ime')
      BY <2>3, <2>4 DEF Roomy, Limited
    <2>11. QED BY <2>2, <2>7, <2>8, <2>9, <2>10, KeyTakes
  <1>5. QED BY <1>3, <1>4


-----------------------------------------------------------------------------
(* What the contract allows while composing and converting *)

(* Any allowed session is an allowed answer.                               *)
LEMMA ShownEach ==
  ASSUME NEW S, NEW s \in S, NEW consumed
  PROVE Promised!Shows(s, consumed) \in Promised!ShowEach(S, consumed)
  BY DEF Promised!ShowEach

(* A session with another of the allowed lists.                            *)
LEMMA Relisted ==
  ASSUME NEW state, NEW text, NEW ahead, NEW old, NEW L, NEW l \in L
  PROVE [state |-> state, text |-> text, ahead |-> ahead, list |-> l]
          \in Promised!WithList([state |-> state, text |-> text, ahead |-> ahead, list |-> old], L)
  BY DEF Promised!WithList

(* A list just looked up is one the contract calls fresh.                  *)
LEMMA FreshSize ==
  ASSUME NEW list \in GoodList, Short(list), HasItems(list), list.selectedIndex = 0
  PROVE SizeOf(list) \in Promised!FreshLists
  BY SizeOfGood DEF Promised!FreshLists

(* A list with something in it is one the contract calls found.            *)
LEMMA FoundSize ==
  ASSUME NEW list \in GoodList, Short(list), HasItems(list)
  PROVE SizeOf(list) \in Promised!FoundLists
  BY SizeOfGood

(* The empty list is the contract's.                                       *)
LEMMA NoSize == SizeOf(NoCandidates) = Promised!NoList
  BY DEF SizeOf, NoCandidates, Promised!NoList

(* The keys of a session in progress.                                      *)
LEMMA SessionKeys ==
  ASSUME NEW s, NEW ch, NEW key \in Promised!Keys, key \notin {"Toggle", "Latin", "Hiragana"}
  PROVE /\ s.state = "Idle" => Promised!Outcomes(s, key, ch) = Promised!IdleOutcomes(s, key, ch)
        /\ s.state = "Composing" =>
             Promised!Outcomes(s, key, ch) = Promised!ComposingOutcomes(s, key, ch)
        /\ s.state = "Converting" =>
             Promised!Outcomes(s, key, ch) = Promised!ConvertingOutcomes(s, key)
  BY DEF Promised!Outcomes

-----------------------------------------------------------------------------
(* Typing and erasing *)

(* An edit touches no list.                                                *)
LEMMA EditLimited ==
  ASSUME NEW e, Sound(e), Limited(e), NEW f, Edit(f, e)
  PROVE Limited(InvalidateConversion(f))
  <1>1. f.candidates = e.candidates /\ f.segmentCandidates = e.segmentCandidates /\ f \in SoundType
    BY DEF Edit, Sound, SoundType
  <1>2. QED BY <1>1 DEF InvalidateConversion, Limited, SoundType

(* After an edit that leaves a text the predictions are those for it.      *)
LEMMA EditedSeen ==
  ASSUME NEW e, Sound(e), Limited(e), e.currentState = "Composing", e.segments = <<>>,
         NEW f, Edit(f, e), f.buffer # <<>>
  PROVE LET r == RefreshPredictions(InvalidateConversion(f)) IN
        /\ Sound(r) /\ Phase(r) /\ Roomy(r)
        /\ SessionOf(r) = [state |-> "Composing", text |-> f.buffer, ahead |-> 0,
                           list |-> SizeOf(r.candidates)]
        /\ SizeOf(r.candidates) \in Promised!FreshLists
  <1> DEFINE i == InvalidateConversion(f)
             r == RefreshPredictions(i)
  <1>1. /\ Sound(i) /\ i.buffer = f.buffer /\ i.currentState = "Composing" /\ i.segments = <<>>
        /\ Limited(i)
    BY EditSound, EditLimited
  <1> HIDE DEF i
  <1>2. Sound(r) /\ SameInput(r, i) /\ r.segments = <<>> /\ ~r.primed
    BY <1>1, RefreshPredictionsSound
  <1>3. Limited(r) /\ HasItems(r.candidates) /\ r.candidates.selectedIndex = 0
    BY <1>1, PredictionsShort
  <1> HIDE DEF r
  <1>4. r.currentState = "Composing" /\ r.buffer = f.buffer
    BY <1>1, <1>2 DEF SameInput
  <1>5. Phase(r) /\ Roomy(r)
    BY <1>1, <1>2, <1>3, <1>4 DEF Phase, Roomy
  <1>6. SizeOf(r.candidates) \in Promised!FreshLists
    BY <1>2, <1>3, FreshSize DEF Limited, Sound, SoundType
  <1>7. QED BY <1>2, <1>4, <1>5, <1>6, SeenComposing DEF r, i

(* Insert puts the character at the cursor.                                *)
LEMMA InsertInserts ==
  ASSUME NEW e, Sound(e), NEW ch
  PROVE /\ Insert(e, ch).buffer \in Promised!Inserted(e.buffer, ch)
        /\ e.buffer = <<>> => Insert(e, ch).buffer = <<ch>>
  <1>1. Insert(e, ch).buffer = InsertAt(e.buffer, e.cursor + 1, ch)
    BY DEF Insert, Sound, SoundType
  <1>2. e.cursor + 1 \in 1 .. Len(e.buffer) + 1
    BY BufferFacts
  <1>3. ASSUME e.buffer = <<>> PROVE InsertAt(e.buffer, e.cursor + 1, ch) = <<ch>>
    <2>1. Len(e.buffer) = 0
      BY <1>3
    <2>2. e.cursor + 1 = 1
      BY <2>1, BufferFacts
    <2>3. InsertAt(<<>>, 1, ch) = <<ch>>
      <3>1. <<>> \in Seq({ch}) /\ Len(<<>>) = 0 /\ 1 - 1 = 0
        OBVIOUS
      <3>2. SubSeq(<<>>, 1, 0) = <<>>
        BY <3>1
      <3>3. <<>> \o <<ch>> \o <<>> = <<ch>>
        OBVIOUS
      <3>4. QED BY <3>1, <3>2, <3>3 DEF InsertAt
    <2>4. QED BY <1>3, <2>2, <2>3, Zenon
  <1>4. QED BY <1>1, <1>2, <1>3 DEF Promised!Inserted, Promised!InsertAt, InsertAt

(* A letter that starts a session is a letter of the contract.             *)
LEMMA IdleInsertRefines ==
  ASSUME PInv, NEW ch \in InputChars, IdleInsert(ch)
  PROVE Promised!Next /\ Roomy(ime')
  <1> DEFINE e == In(ime, "Composing")
             f == Insert(e, ch)
             r == RefreshPredictions(InvalidateConversion(f))
  <1>1. ch \in Glyphs /\ "Composing" \in States /\ ime.currentState \in {"Idle", "Committed"}
    BY GlyphAssumption DEF States, IdleInsert, Ready
  <1>2. SessionOf(ime) = Promised!Empty("Idle")
    BY <1>1, ClosedSession
  <1>3. /\ Sound(ime) /\ ime.buffer = <<>> /\ ime.segments = <<>>
    BY <1>1, Closed DEF PInv
  <1>4. /\ Sound(e) /\ e.currentState = "Composing" /\ e.segments = <<>> /\ e.buffer = <<>>
        /\ e.candidates = ime.candidates /\ e.segmentCandidates = ime.segmentCandidates
    BY <1>1, <1>3 DEF In, Sound, SoundType
  <1>5. Respond(r, TRUE)
    BY DEF IdleInsert, Inserted
  <1> HIDE DEF e
  <1>6. Limited(e)
    BY <1>4 DEF PInv, Roomy, Limited
  <1>7. Edit(f, e) /\ f.buffer = <<ch>> /\ f.buffer # <<>>
    BY <1>1, <1>4, InsertEdit, InsertInserts
  <1> HIDE DEF f
  <1>8. /\ Sound(r) /\ Phase(r) /\ Roomy(r)
        /\ SessionOf(r) = [state |-> "Composing", text |-> <<ch>>, ahead |-> 0,
                           list |-> SizeOf(r.candidates)]
        /\ SizeOf(r.candidates) \in Promised!FreshLists
    BY <1>4, <1>6, <1>7, EditedSeen
  <1> HIDE DEF r
  <1>9. Promised!Take(Promised!Shows(SessionOf(r), TRUE)) /\ Roomy(ime')
    BY <1>5, <1>8, RespondShows
  <1>10. "Letter" \in Promised!Keys
    BY DEF Promised!Keys
  <1>11. Promised!Shows(SessionOf(r), TRUE) \in Promised!Outcomes(SessionOf(ime), "Letter", ch)
    <2>1. SessionOf(r) \in {[state |-> "Composing", text |-> <<ch>>, ahead |-> 0, list |-> l] :
                              l \in Promised!FreshLists}
      BY <1>8
    <2>2. Promised!IdleOutcomes(SessionOf(ime), "Letter", ch) =
            Promised!ShowEach({[state |-> "Composing", text |-> <<ch>>, ahead |-> 0, list |-> l] :
                                 l \in Promised!FreshLists}, TRUE)
      BY DEF Promised!IdleOutcomes
    <2>3. SessionOf(ime).state = "Idle"
      BY <1>2 DEF Promised!Empty
    <2>4. Promised!Outcomes(SessionOf(ime), "Letter", ch)
            = Promised!IdleOutcomes(SessionOf(ime), "Letter", ch)
      BY <1>10, <2>3, SessionKeys
    <2>5. QED BY <2>1, <2>2, <2>4, ShownEach
  <1>12. QED BY <1>1, <1>9, <1>10, <1>11, KeyTakes


(* A further letter inserts at the cursor and looks predictions up anew.   *)
LEMMA ComposingInsertRefines ==
  ASSUME PInv, NEW ch \in InputChars \cup {LongVowel}, ComposingInsert(ch)
  PROVE Promised!Next /\ Roomy(ime')
  <1> DEFINE f == Insert(ime, ch)
             r == RefreshPredictions(InvalidateConversion(f))
             s == SessionOf(ime)
  <1>1. Composing /\ ch \in Glyphs
    BY GlyphAssumption DEF ComposingInsert
  <1>2. /\ Sound(ime) /\ ime.currentState = "Composing" /\ ime.segments = <<>> /\ Limited(ime)
    BY <1>1, ComposingFacts DEF PInv, Roomy
  <1>3. Edit(f, ime) /\ f.buffer # <<>> /\ f.buffer \in Promised!Inserted(ime.buffer, ch)
    BY <1>1, <1>2, InsertEdit, InsertInserts
  <1>4. Respond(r, TRUE)
    BY DEF ComposingInsert, Inserted
  <1> HIDE DEF f
  <1>5. /\ Sound(r) /\ Phase(r) /\ Roomy(r)
        /\ SessionOf(r) = [state |-> "Composing", text |-> f.buffer, ahead |-> 0,
                           list |-> SizeOf(r.candidates)]
        /\ SizeOf(r.candidates) \in Promised!FreshLists
    BY <1>2, <1>3, EditedSeen
  <1> HIDE DEF r
  <1>6. Promised!Take(Promised!Shows(SessionOf(r), TRUE)) /\ Roomy(ime')
    BY <1>4, <1>5, RespondShows
  <1>7. "Letter" \in Promised!Keys
    BY DEF Promised!Keys
  <1>8. s = [state |-> "Composing", text |-> ime.buffer, ahead |-> 0, list |-> SizeOf(ime.candidates)]
    BY <1>1, ComposingSession
  <1> HIDE DEF s
  <1>9. SessionOf(r) \in Promised!Reopened([s EXCEPT !.text = f.buffer])
    <2>1. [s EXCEPT !.text = f.buffer] = [state |-> "Composing", text |-> f.buffer, ahead |-> 0,
                                          list |-> SizeOf(ime.candidates)]
      BY <1>8
    <2>2. QED BY <1>5, <2>1, Relisted DEF Promised!Reopened
  <1>10. Promised!Shows(SessionOf(r), TRUE) \in Promised!Outcomes(s, "Letter", ch)
    <2> DEFINE reopened(t) == Promised!ShowEach(Promised!Reopened([s EXCEPT !.text = t]), TRUE)
    <2>1. Promised!ComposingOutcomes(s, "Letter", ch) =
            UNION {reopened(t) : t \in Promised!Inserted(s.text, ch)}
      BY DEF Promised!ComposingOutcomes
    <2>2. Promised!Outcomes(s, "Letter", ch) = Promised!ComposingOutcomes(s, "Letter", ch)
      BY <1>7, <1>8, SessionKeys
    <2>3. s.text = ime.buffer
      BY <1>8
    <2>4. Promised!Shows(SessionOf(r), TRUE) \in reopened(f.buffer)
      BY <1>9, ShownEach
    <2> HIDE DEF reopened
    <2>5. QED BY <1>3, <2>1, <2>2, <2>3, <2>4
  <1>11. QED BY <1>1, <1>6, <1>7, <1>10, KeyTakes DEF s

(* Leaving out the characters between i and j is an erasure.               *)
LEMMA ErasedIntro ==
  ASSUME NEW text \in Seq(Glyphs), NEW i \in 0 .. Len(text), NEW j \in i + 1 .. Len(text) + 1
  PROVE SubSeq(text, 1, i) \o SubSeq(text, j, Len(text)) \in Promised!Erased(text)
  <1> DEFINE from(h) == {SubSeq(text, 1, h) \o SubSeq(text, l, Len(text)) :
                           l \in h + 1 .. Len(text) + 1}
  <1>1. Promised!Erased(text) = UNION {from(h) : h \in 0 .. Len(text)}
    BY DEF Promised!Erased
  <1>2. SubSeq(text, 1, i) \o SubSeq(text, j, Len(text)) \in from(i)
    OBVIOUS
  <1> HIDE DEF from
  <1>3. QED BY <1>1, <1>2

(* Removing nothing, one character or the last ones are erasures.          *)
LEMMA RemovalsErase ==
  ASSUME NEW text \in Seq(Glyphs)
  PROVE /\ text \in Promised!Erased(text)
        /\ \A i \in 1 .. Len(text) : RemoveAt(text, i) \in Promised!Erased(text)
        /\ \A k \in 1 .. Len(text) : SubSeq(text, 1, Len(text) - k) \in Promised!Erased(text)
  <1>0. Len(text) \in Nat
    OBVIOUS
  <1>1. text \in Promised!Erased(text)
    <2>1. SubSeq(text, 1, 0) \o SubSeq(text, 1, Len(text)) = text
      OBVIOUS
    <2>2. 0 \in 0 .. Len(text) /\ 1 \in 0 + 1 .. Len(text) + 1
      BY <1>0
    <2>3. QED BY <2>1, <2>2, ErasedIntro
  <1>2. ASSUME NEW i \in 1 .. Len(text) PROVE RemoveAt(text, i) \in Promised!Erased(text)
    <2>1. i - 1 \in 0 .. Len(text) /\ i + 1 \in (i - 1) + 1 .. Len(text) + 1
      BY <1>0
    <2>2. QED BY <2>1, ErasedIntro DEF RemoveAt
  <1>3. ASSUME NEW k \in 1 .. Len(text)
        PROVE SubSeq(text, 1, Len(text) - k) \in Promised!Erased(text)
    <2> DEFINE n == Len(text) - k
    <2>1. n \in 0 .. Len(text) /\ Len(text) + 1 \in n + 1 .. Len(text) + 1
      BY <1>0
    <2>2. SubSeq(text, Len(text) + 1, Len(text)) = <<>>
      BY <1>0
    <2>3. SubSeq(text, 1, n) \in Seq(Glyphs)
      BY <1>0, <2>1
    <2>4. SubSeq(text, 1, n) \o <<>> = SubSeq(text, 1, n)
      <3> DEFINE head == SubSeq(text, 1, n)
      <3> HIDE DEF head
      <3>1. head \in Seq(Glyphs) => head \o <<>> = head
        OBVIOUS
      <3>2. QED BY <2>3, <3>1 DEF head
    <2> HIDE DEF n
    <2>5. SubSeq(text, 1, n) \o SubSeq(text, Len(text) + 1, Len(text)) \in Promised!Erased(text)
      BY <2>1, ErasedIntro
    <2>6. QED BY <2>2, <2>4, <2>5 DEF n
  <1>4. QED BY <1>1, <1>2, <1>3

(* Both erasing keys erase.                                                *)
LEMMA ErasersErase ==
  ASSUME NEW e, Sound(e)
  PROVE /\ DeleteForward(e).buffer \in Promised!Erased(e.buffer)
        /\ Backspace(e).buffer \in Promised!Erased(e.buffer)
  <1>1. /\ e \in SoundType /\ e.buffer \in Seq(Glyphs) /\ e.cursor \in Nat /\ Len(e.buffer) \in Nat
        /\ e.cursor <= Len(e.buffer)
    BY BufferFacts DEF Sound
  <1>2. DeleteForward(e).buffer \in Promised!Erased(e.buffer)
    <2>1. CASE e.cursor >= Len(e.buffer)
      BY <1>1, <2>1, RemovalsErase DEF DeleteForward
    <2>2. CASE e.cursor < Len(e.buffer)
      <3>1. DeleteForward(e).buffer = RemoveAt(e.buffer, e.cursor + 1)
        BY <1>1, <2>2 DEF DeleteForward, EraseAt, SoundType
      <3>2. e.cursor + 1 \in 1 .. Len(e.buffer)
        BY <1>1, <2>2
      <3>3. QED BY <1>1, <3>1, <3>2, RemovalsErase
    <2>3. QED BY <1>1, <2>1, <2>2
  <1>3. RawBackspace(e).buffer \in Promised!Erased(e.buffer)
    <2>1. CASE e.cursor = 0
      BY <1>1, <2>1, RemovalsErase DEF RawBackspace
    <2>2. CASE e.cursor # 0
      <3>1. RawBackspace(e).buffer = RemoveAt(e.buffer, e.cursor)
        BY <1>1, <2>2 DEF RawBackspace, EraseAt, SoundType
      <3>2. e.cursor \in 1 .. Len(e.buffer)
        BY <1>1, <2>2
      <3>3. QED BY <1>1, <3>1, <3>2, RemovalsErase
    <2>3. QED BY <2>1, <2>2
  <1>4. Backspace(e).buffer \in Promised!Erased(e.buffer)
    <2> DEFINE units == Units(e)
               k == CHOOSE n \in units : \A j \in units : n <= j
    <2>1. units \in SUBSET (1 .. 4) /\ \A n \in units : n <= Len(e.buffer)
      BY DEF Units, MaxRomajiUnitLength
    <2>2. Backspace(e) = IF units = {} THEN RawBackspace(e) ELSE RemoveLast(e, k)
      BY DEF Backspace
    <2> HIDE DEF units
    <2>3. CASE units = {}
      BY <1>3, <2>2, <2>3
    <2>4. CASE units # {}
      <3>1. k \in units
        BY <2>1, <2>4, SmallestUnit
      <3> HIDE DEF k
      <3>2. k \in 1 .. Len(e.buffer)
        <4>1. k \in 1 .. 4 /\ k <= Len(e.buffer)
          BY <2>1, <3>1
        <4>2. QED BY <1>1, <4>1
      <3>3. RemoveLast(e, k).buffer = SubSeq(e.buffer, 1, Len(e.buffer) - k)
        BY <1>1 DEF RemoveLast, SoundType
      <3>4. QED BY <1>1, <2>2, <2>4, <3>2, <3>3, RemovalsErase
    <2>5. QED BY <2>3, <2>4
  <1>5. QED BY <1>2, <1>4

(* Backspace and Delete erase, and close a session they empty.             *)
LEMMA EditKeysRefine ==
  ASSUME PInv, ComposingBackspace \/ ComposingDelete
  PROVE Promised!Next /\ Roomy(ime')
  <1> DEFINE s == SessionOf(ime)
  <1>1. Composing
    BY DEF ComposingBackspace, ComposingDelete
  <1>2. /\ Sound(ime) /\ ime.currentState = "Composing" /\ ime.segments = <<>> /\ Limited(ime)
    BY <1>1, ComposingFacts DEF PInv, Roomy
  <1>3. PICK f : AfterEdit(f) /\ Edit(f, ime) /\ f.buffer \in Promised!Erased(ime.buffer)
    BY <1>2, BackspaceEdit, DeleteForwardEdit, ErasersErase DEF ComposingBackspace, ComposingDelete
  <1> DEFINE i == InvalidateConversion(f)
             r == RefreshPredictions(i)
             c == In(ClearCandidates(i), "Idle")
  <1>4. i.buffer = f.buffer /\ Sound(i) /\ i.segments = <<>> /\ Limited(i)
    BY <1>2, <1>3, EditSound, EditLimited
  <1>5. IF f.buffer = <<>> THEN RespondFresh(c, TRUE) ELSE Respond(r, TRUE)
    BY <1>3, <1>4 DEF AfterEdit
  <1>6. s = [state |-> "Composing", text |-> ime.buffer, ahead |-> 0, list |-> SizeOf(ime.candidates)]
    BY <1>1, ComposingSession
  <1> HIDE DEF s
  <1>7. "Erase" \in Promised!Keys
    BY DEF Promised!Keys
  <1> DEFINE after(t) == IF t = <<>> THEN {Promised!Shows(Promised!Empty("Idle"), TRUE)}
                         ELSE Promised!ShowEach(Promised!Reopened([s EXCEPT !.text = t]), TRUE)
  <1>8. Promised!Outcomes(s, "Erase", LongVowel) =
          UNION {after(t) : t \in Promised!Erased(ime.buffer)}
    <2>1. Promised!Outcomes(s, "Erase", LongVowel) = Promised!ComposingOutcomes(s, "Erase", LongVowel)
      BY <1>6, <1>7, SessionKeys
    <2>2. s.text = ime.buffer
      BY <1>6
    <2>3. QED BY <2>1, <2>2 DEF Promised!ComposingOutcomes
  <1>9. CASE f.buffer = <<>>
    <2> HIDE DEF i
    <2> DEFINE cleared == ClearCandidates(i)
    <2>1. /\ Sound(cleared) /\ cleared.buffer = <<>> /\ cleared.segments = <<>>
          /\ ~HasItems(cleared.candidates) /\ ~cleared.primed
      BY <1>4, <1>9, ClearSound DEF SameInput
    <2>2. cleared.candidates = NoCandidates /\ cleared.segmentCandidates = i.segmentCandidates
      BY <1>4 DEF ClearCandidates, Sound, SoundType
    <2> HIDE DEF cleared
    <2>3. /\ Sound(c) /\ Phase(c) /\ c.currentState = "Idle" /\ c.buffer = <<>>
      BY <2>1, ClosedPhase DEF cleared
    <2>4. c.candidates = NoCandidates /\ c.segmentCandidates = i.segmentCandidates
      BY <2>1, <2>2 DEF In, Sound, SoundType, cleared
    <2> HIDE DEF c
    <2>5. Roomy(c)
      BY <1>4, <2>3, <2>4, NoCandidatesShort DEF Roomy, Limited
    <2>6. SessionOf(c) = Promised!Empty("Idle")
      BY <2>3, <2>4, NoSize DEF SessionOf, Promised!Empty
    <2>7. Promised!Take(Promised!Shows(Promised!Empty("Idle"), TRUE)) /\ Roomy(ime')
      BY <1>5, <1>9, <2>3, <2>5, <2>6, RespondShows
    <2>8. Promised!Shows(Promised!Empty("Idle"), TRUE) \in after(f.buffer)
      BY <1>9
    <2> HIDE DEF after
    <2>9. Promised!Shows(Promised!Empty("Idle"), TRUE) \in Promised!Outcomes(s, "Erase", LongVowel)
      BY <1>3, <1>8, <2>8
    <2>10. QED BY <1>7, <2>7, <2>9, KeyTakes, SomeGlyph DEF s
  <1>10. CASE f.buffer # <<>>
    <2>1. /\ Sound(r) /\ Phase(r) /\ Roomy(r)
          /\ SessionOf(r) = [state |-> "Composing", text |-> f.buffer, ahead |-> 0,
                             list |-> SizeOf(r.candidates)]
          /\ SizeOf(r.candidates) \in Promised!FreshLists
      BY <1>2, <1>3, <1>10, EditedSeen
    <2> HIDE DEF r
    <2>2. Promised!Take(Promised!Shows(SessionOf(r), TRUE)) /\ Roomy(ime')
      BY <1>5, <1>10, <2>1, RespondShows
    <2>3. [s EXCEPT !.text = f.buffer] = [state |-> "Composing", text |-> f.buffer, ahead |-> 0,
                                          list |-> SizeOf(ime.candidates)]
      BY <1>6
    <2>4. SessionOf(r) \in Promised!Reopened([s EXCEPT !.text = f.buffer])
      BY <2>1, <2>3, Relisted DEF Promised!Reopened
    <2>5. Promised!Shows(SessionOf(r), TRUE) \in after(f.buffer)
      BY <1>10, <2>4, ShownEach
    <2> HIDE DEF after
    <2>6. Promised!Shows(SessionOf(r), TRUE) \in Promised!Outcomes(s, "Erase", LongVowel)
      BY <1>3, <1>8, <2>5
    <2>7. QED BY <1>7, <2>2, <2>6, KeyTakes, SomeGlyph DEF s
  <1>11. QED BY <1>9, <1>10


-----------------------------------------------------------------------------
(* The other keys while composing *)

(* What each of them may come to.                                          *)
LEMMA ComposingKeys ==
  ASSUME NEW s, s.state = "Composing", NEW ch
  PROVE
    /\ Promised!Outcomes(s, "Arrow", ch) =
         {Promised!Shows([s EXCEPT !.list = Promised!NoList], TRUE)}
    /\ Promised!Outcomes(s, "Escape", ch) =
         {Promised!Shows([s EXCEPT !.list = Promised!NoList], Promised!HasVisibleList(s))}
    /\ Promised!HasVisibleList(s) => \A key \in {"Space", "Pick"} :
         Promised!Outcomes(s, key, ch) =
           Promised!ShowEach(Promised!WithList(s, Promised!Moved(s.list)), TRUE)
    /\ ~Promised!HasVisibleList(s) => \A key \in {"Space", "Pick"} :
         Promised!ShowEach(Promised!WithList(s, Promised!FreshLists), TRUE)
           \subseteq Promised!Outcomes(s, key, ch)
    /\ Promised!HasVisibleList(s) => Promised!Commits(s.text) \in Promised!Outcomes(s, "Digit", ch)
    /\ Promised!Commits(s.text) \in Promised!Outcomes(s, "Enter", ch)
    /\ Promised!Commits(s.text \o <<ch>>) \in Promised!Outcomes(s, "Mark", ch)
    /\ \A n \in 0 .. Len(s.text) - 1 :
         \A t \in Promised!WithList([s EXCEPT !.state = "Converting", !.ahead = n],
                                    Promised!FreshLists) :
           Promised!Shows(t, TRUE) \in Promised!Outcomes(s, "Convert", ch)
  <1>1. \A key \in {"Arrow", "Escape", "Space", "Pick", "Digit", "Enter", "Mark", "Convert"} :
          Promised!Outcomes(s, key, ch) = Promised!ComposingOutcomes(s, key, ch)
    BY DEF Promised!Outcomes
  <1> DEFINE cutInto(n) == Promised!WithList([s EXCEPT !.state = "Converting", !.ahead = n],
                                             Promised!FreshLists)
  <1>2. ASSUME NEW n \in 0 .. Len(s.text) - 1, NEW t \in cutInto(n)
        PROVE Promised!Shows(t, TRUE) \in Promised!Outcomes(s, "Convert", ch)
    <2>1. Promised!Outcomes(s, "Convert", ch) =
            Promised!ShowEach(UNION {cutInto(m) : m \in 0 .. Len(s.text) - 1}, TRUE)
      BY <1>1 DEF Promised!ComposingOutcomes
    <2> HIDE DEF cutInto
    <2>2. t \in UNION {cutInto(m) : m \in 0 .. Len(s.text) - 1}
      BY <1>2
    <2>3. QED BY <2>1, <2>2, ShownEach
  <1>3. QED BY <1>1, <1>2 DEF Promised!ComposingOutcomes, Promised!Reopened

(* An answer that keeps the text changes at most the list.                 *)
LEMMA ComposingAnswers ==
  ASSUME PInv, Composing, NEW e, Sound(e), Phase(e), Limited(e), e.currentState = "Composing",
         e.buffer = ime.buffer, NEW consumed \in BOOLEAN, Respond(e, consumed)
  PROVE /\ Promised!Take(Promised!Shows([SessionOf(ime) EXCEPT !.list = SizeOf(e.candidates)], consumed))
        /\ Roomy(ime')
  <1>1. Roomy(e)
    BY DEF Roomy
  <1>2. Promised!Take(Promised!Shows(SessionOf(e), consumed)) /\ Roomy(ime')
    BY <1>1, RespondShows
  <1>3. SessionOf(e) = [SessionOf(ime) EXCEPT !.list = SizeOf(e.candidates)]
    BY ComposingSession, SeenComposing
  <1>4. QED BY <1>2, <1>3

(* An edit of the cursor alone, and dropped predictions.                   *)
LEMMA CursorSeen ==
  ASSUME PInv, Composing, NEW f, Edit(f, ime), f.buffer = ime.buffer
  PROVE LET c == ClearCandidates(f) IN
        /\ Sound(c) /\ Phase(c) /\ Limited(c) /\ c.currentState = "Composing"
        /\ c.buffer = ime.buffer /\ c.candidates = NoCandidates
  <1> DEFINE c == ClearCandidates(f)
  <1>1. Sound(c) /\ Phase(c)
    BY CursorPhase DEF PInv
  <1>2. ime \in SoundType /\ Limited(ime) /\ ime.currentState = "Composing"
    BY ComposingFacts DEF PInv, Roomy, Sound
  <1>3. /\ f \in SoundType /\ f.currentState = "Composing"
        /\ f.segmentCandidates = ime.segmentCandidates
    BY <1>2 DEF Edit, SoundType
  <1>4. /\ c.currentState = "Composing" /\ c.buffer = ime.buffer /\ c.candidates = NoCandidates
        /\ c.segmentCandidates = ime.segmentCandidates
    BY <1>3 DEF ClearCandidates, SoundType
  <1> HIDE DEF c
  <1>5. Limited(c)
    BY <1>2, <1>4, NoCandidatesShort DEF Limited
  <1>6. QED BY <1>1, <1>4, <1>5 DEF c

(* Left and Right hide the predictions.                                    *)
LEMMA CursorKeysRefine ==
  ASSUME PInv, ComposingLeft \/ ComposingRight
  PROVE Promised!Next /\ Roomy(ime')
  <1>1. Composing /\ Sound(ime)
    BY ComposingFacts DEF PInv, ComposingLeft, ComposingRight
  <1>2. MoveCursorLeft(ime).buffer = ime.buffer /\ MoveCursorRight(ime).buffer = ime.buffer
    BY <1>1 DEF MoveCursorLeft, MoveCursorRight, Sound, SoundType
  <1>3. PICK f : Edit(f, ime) /\ f.buffer = ime.buffer /\ Respond(ClearCandidates(f), TRUE)
    BY <1>1, <1>2, MoveCursorEdit DEF ComposingLeft, ComposingRight
  <1>4. /\ Promised!Take(Promised!Shows([SessionOf(ime) EXCEPT !.list = SizeOf(NoCandidates)], TRUE))
        /\ Roomy(ime')
    BY <1>1, <1>3, CursorSeen, ComposingAnswers
  <1>5. SessionOf(ime).state = "Composing" /\ "Arrow" \in Promised!Keys
    BY <1>1, ComposingSession DEF Promised!Keys
  <1>6. Promised!Shows([SessionOf(ime) EXCEPT !.list = SizeOf(NoCandidates)], TRUE)
          \in Promised!Outcomes(SessionOf(ime), "Arrow", LongVowel)
    BY <1>5, ComposingKeys, NoSize
  <1>7. QED BY <1>4, <1>5, <1>6, KeyTakes, SomeGlyph

(* Escape hides them, and is not consumed when there are none.             *)
LEMMA EscapeRefines ==
  ASSUME PInv, ComposingEscape \/ ComposingUnhandled
  PROVE Promised!Next /\ Roomy(ime')
  <1> DEFINE s == SessionOf(ime)
             hidden == [s EXCEPT !.list = Promised!NoList]
  <1>1. /\ Composing /\ Sound(ime) /\ Phase(ime) /\ Limited(ime) /\ ime.currentState = "Composing"
        /\ ime.candidates \in GoodList /\ Short(ime.candidates)
    BY ComposingFacts DEF ComposingEscape, ComposingUnhandled, PInv, Roomy, Limited
  <1>2. s.state = "Composing" /\ "Escape" \in Promised!Keys
    BY <1>1, ComposingSession DEF Promised!Keys
  <1>3. Promised!HasVisibleList(s) <=> HasItems(ime.candidates)
    BY <1>1, ComposingSession
  <1>4. Promised!Outcomes(s, "Escape", LongVowel) = {Promised!Shows(hidden, Promised!HasVisibleList(s))}
    BY <1>2, ComposingKeys
  <1>5. [s EXCEPT !.list = SizeOf(ime.candidates)] = s
    BY <1>1, ComposingSession
  <1>6. CASE ComposingEscape /\ HasItems(ime.candidates)
    <2>1. Edit(ime, ime)
      BY <1>1, BufferFacts DEF Edit, Sound, SoundType
    <2>2. Respond(ClearCandidates(ime), TRUE)
      BY <1>6 DEF ComposingEscape
    <2>3. Promised!Take(Promised!Shows(hidden, TRUE)) /\ Roomy(ime')
      BY <1>1, <2>1, <2>2, CursorSeen, ComposingAnswers, NoSize
    <2>4. Promised!HasVisibleList(s) = TRUE
      BY <1>3, <1>6 DEF Promised!HasVisibleList
    <2>5. Promised!Shows(hidden, TRUE) \in Promised!Outcomes(s, "Escape", LongVowel)
      BY <1>4, <2>4
    <2> HIDE DEF hidden
    <2>6. QED BY <1>2, <2>3, <2>5, KeyTakes, SomeGlyph
  <1>7. CASE Respond(ime, FALSE)
    <2>1. Promised!Take(Promised!Shows(s, FALSE)) /\ Roomy(ime')
      BY <1>1, <1>5, <1>7, ComposingAnswers
    <2>2. QED BY <2>1, OtherKeyTakes
  <1>8. QED BY <1>6, <1>7 DEF ComposingEscape, ComposingUnhandled

(* A primed list is the one given.                                         *)
LEMMA PrimeSeen ==
  ASSUME NEW e, Sound(e), Phase(e), Limited(e), e.currentState = "Composing",
         NEW list \in GoodList, HasItems(list), Short(list)
  PROVE LET p == Prime(e, list) IN
        /\ Sound(p) /\ Phase(p) /\ Limited(p) /\ p.currentState = "Composing"
        /\ p.buffer = e.buffer /\ p.candidates = list
  <1> DEFINE p == Prime(e, list)
  <1>1. Sound(p) /\ Phase(p)
    BY PrimePhase
  <1>2. /\ p.currentState = "Composing" /\ p.buffer = e.buffer /\ p.candidates = list
        /\ p.segmentCandidates = e.segmentCandidates
    BY DEF Prime, Sound, SoundType
  <1> HIDE DEF p
  <1>3. Limited(p)
    BY <1>2 DEF Limited
  <1>4. QED BY <1>1, <1>2, <1>3 DEF p

(* Predictions looked up anew for the text that stands.                    *)
LEMMA ReopenedSeen ==
  ASSUME PInv, Composing
  PROVE LET r == RefreshPredictions(ime) IN
        /\ Sound(r) /\ Phase(r) /\ Limited(r) /\ r.currentState = "Composing"
        /\ r.buffer = ime.buffer /\ r.candidates \in GoodList /\ Short(r.candidates)
        /\ HasItems(r.candidates) /\ SizeOf(r.candidates) \in Promised!FreshLists
  <1> DEFINE r == RefreshPredictions(ime)
  <1>1. Sound(ime) /\ ime.buffer # <<>> /\ Limited(ime)
    BY ComposingFacts DEF PInv, Roomy
  <1>2. Sound(r) /\ Phase(r) /\ r.currentState = "Composing" /\ r.buffer = ime.buffer
    BY <1>1, PredictionsPhase, RefreshPredictionsSound DEF PInv, SameInput
  <1>3. Limited(r) /\ HasItems(r.candidates) /\ r.candidates.selectedIndex = 0
    BY <1>1, PredictionsShort
  <1> HIDE DEF r
  <1>4. r.candidates \in GoodList /\ Short(r.candidates)
    BY <1>2, <1>3 DEF Limited, Sound, SoundType
  <1>5. QED BY <1>2, <1>3, <1>4, FreshSize DEF r

(* Any list in the place of the one a composing session has.               *)
LEMMA ComposingRelisted ==
  ASSUME PInv, Composing, NEW L, NEW l \in L
  PROVE Promised!Shows([SessionOf(ime) EXCEPT !.list = l], TRUE)
          \in Promised!ShowEach(Promised!WithList(SessionOf(ime), L), TRUE)
  BY ShownEach DEF Promised!WithList


(* A move among the predictions keeps their number; some keys bring hidden *)
(* ones back, the others leave a composition without any alone.            *)
LEMMA MovePredictionRefines ==
  ASSUME PInv, Composing, NEW list \in GoodList, list.items = ime.candidates.items,
         NEW reopen \in BOOLEAN, MovePrediction(list, reopen)
  PROVE Promised!Next /\ Roomy(ime')
  <1> DEFINE s == SessionOf(ime)
             r == RefreshPredictions(ime)
  <1>1. /\ Sound(ime) /\ Phase(ime) /\ Limited(ime) /\ ime.currentState = "Composing"
        /\ ime.candidates \in GoodList /\ Short(ime.candidates)
    BY ComposingFacts DEF PInv, Roomy, Limited
  <1>2. s.state = "Composing" /\ "Pick" \in Promised!Keys /\ s.list = SizeOf(ime.candidates)
    BY ComposingSession DEF Promised!Keys
  <1>3. Promised!HasVisibleList(s) <=> HasItems(ime.candidates)
    BY ComposingSession
  <1>4. CASE HasItems(ime.candidates)
    <2>1. HasItems(list) /\ Short(list) /\ SizeOf(list) \in Promised!Moved(s.list)
      BY <1>1, <1>2, <1>4, MovedIsMoved DEF HasItems
    <2>2. Respond(Prime(ime, list), TRUE)
      BY <1>4 DEF MovePrediction
    <2>3. Promised!Take(Promised!Shows([s EXCEPT !.list = SizeOf(list)], TRUE)) /\ Roomy(ime')
      BY <1>1, <2>1, <2>2, PrimeSeen, ComposingAnswers
    <2>4. Promised!Outcomes(s, "Pick", LongVowel)
            = Promised!ShowEach(Promised!WithList(s, Promised!Moved(s.list)), TRUE)
      BY <1>2, <1>3, <1>4, ComposingKeys
    <2>5. Promised!Shows([s EXCEPT !.list = SizeOf(list)], TRUE)
            \in Promised!Outcomes(s, "Pick", LongVowel)
      BY <2>1, <2>4, ComposingRelisted
    <2>6. QED BY <1>2, <2>3, <2>5, KeyTakes, SomeGlyph
  <1>5. CASE ~HasItems(ime.candidates) /\ reopen
    <2>1. HasItems(r.candidates) = TRUE
      BY ReopenedSeen DEF HasItems
    <2>2. Respond(r, TRUE)
      BY <1>5, <2>1 DEF MovePrediction
    <2>3. SizeOf(r.candidates) \in Promised!FreshLists
      BY ReopenedSeen
    <2>4. Promised!Take(Promised!Shows([s EXCEPT !.list = SizeOf(r.candidates)], TRUE)) /\ Roomy(ime')
      BY <2>2, ReopenedSeen, ComposingAnswers
    <2>5. Promised!ShowEach(Promised!WithList(s, Promised!FreshLists), TRUE)
            \subseteq Promised!Outcomes(s, "Pick", LongVowel)
      BY <1>2, <1>3, <1>5, ComposingKeys
    <2>6. Promised!Shows([s EXCEPT !.list = SizeOf(r.candidates)], TRUE)
            \in Promised!Outcomes(s, "Pick", LongVowel)
      BY <2>3, <2>5, ComposingRelisted
    <2>7. QED BY <1>2, <2>4, <2>6, KeyTakes, SomeGlyph
  <1>6. CASE ~HasItems(ime.candidates) /\ ~reopen
    <2>1. Respond(ime, FALSE)
      BY <1>6 DEF MovePrediction
    <2>2. [s EXCEPT !.list = SizeOf(ime.candidates)] = s
      BY ComposingSession
    <2>3. Promised!Take(Promised!Shows(s, FALSE)) /\ Roomy(ime')
      BY <1>1, <2>1, <2>2, ComposingAnswers
    <2>4. QED BY <2>3, OtherKeyTakes
  <1>7. QED BY <1>4, <1>5, <1>6

(* Up, Down, Tab, the page keys, Home and End among the predictions.       *)
LEMMA ComposingMoveRefines ==
  ASSUME PInv, ComposingMove \/ ComposingBoundary
  PROVE Promised!Next /\ Roomy(ime')
  <1> DEFINE list == ime.candidates
  <1>1. Composing
    BY DEF ComposingMove, ComposingBoundary
  <1>2. list \in GoodList /\ PageSize \in Int /\ -PageSize \in Int /\ 1 \in Int /\ -1 \in Int
    BY <1>1, ComposingFacts DEF PInv, PageSize
  <1>3. PICK moved \in GoodList, reopen \in BOOLEAN :
          moved.items = list.items /\ MovePrediction(moved, reopen)
    <2> DEFINE next == MoveSelection(list, 1)
               previous == MoveSelection(list, -1)
               down == MoveSelectionClamped(list, PageSize)
               up == MoveSelectionClamped(list, -PageSize)
    <2>1. next \in GoodList /\ previous \in GoodList /\ down \in GoodList /\ up \in GoodList
      BY <1>2, MoveGood, MoveClampedGood
    <2>2. /\ next.items = list.items /\ previous.items = list.items
          /\ down.items = list.items /\ up.items = list.items
      <3>1. TRUE \in BOOLEAN /\ 0 \in Nat
        OBVIOUS
      <3>2. QED BY <1>2, <3>1, MovesKeepList
    <2>3. CASE ComposingMove
      <3>1. \/ MovePrediction(next, TRUE) \/ MovePrediction(previous, FALSE)
            \/ MovePrediction(down, TRUE) \/ MovePrediction(up, FALSE)
        BY <2>3 DEF ComposingMove
      <3> HIDE DEF next, previous, down, up
      <3>2. QED BY <2>1, <2>2, <3>1
    <2>4. CASE ComposingBoundary
      <3>1. PICK last \in BOOLEAN : MovePrediction(SelectBoundary(list, last), FALSE)
        BY <2>4 DEF ComposingBoundary
      <3>2. SelectBoundary(list, last) \in GoodList
        BY <1>2, BoundaryGood
      <3>3. 0 \in Nat
        OBVIOUS
      <3>4. SelectBoundary(list, last).items = list.items
        BY <1>2, <3>3, MovesKeepList
      <3>5. QED BY <3>1, <3>2, <3>4
    <2>5. QED BY <2>3, <2>4
  <1>4. QED BY <1>1, <1>3, MovePredictionRefines

(* Space shows predictions or moves among them.                            *)
LEMMA ComposingSpaceRefines ==
  ASSUME PInv, ComposingSpace
  PROVE Promised!Next /\ Roomy(ime')
  <1> DEFINE s == SessionOf(ime)
             r == RefreshPredictions(ime)
             list == ime.candidates
             moved == IF ime.primed THEN MoveSelection(list, 1) ELSE list
  <1>1. Composing
    BY DEF ComposingSpace
  <1>2. /\ Sound(ime) /\ Phase(ime) /\ Limited(ime) /\ ime.currentState = "Composing"
        /\ list \in GoodList /\ Short(list)
    BY <1>1, ComposingFacts DEF PInv, Roomy, Limited
  <1>3. s.state = "Composing" /\ "Space" \in Promised!Keys /\ s.list = SizeOf(list)
    BY <1>1, ComposingSession DEF Promised!Keys
  <1>4. Promised!HasVisibleList(s) <=> HasItems(list)
    BY <1>1, ComposingSession
  <1>5. CASE ~HasItems(list)
    <2>1. /\ Sound(r) /\ Phase(r) /\ Limited(r) /\ r.currentState = "Composing"
          /\ r.buffer = ime.buffer /\ r.candidates \in GoodList /\ Short(r.candidates)
          /\ HasItems(r.candidates) /\ SizeOf(r.candidates) \in Promised!FreshLists
      BY <1>1, ReopenedSeen
    <2>2. Respond(Prime(r, r.candidates), TRUE)
      BY <1>5, <2>1 DEF ComposingSpace
    <2> HIDE DEF r
    <2>3. Promised!Take(Promised!Shows([s EXCEPT !.list = SizeOf(r.candidates)], TRUE)) /\ Roomy(ime')
      <3> DEFINE p == Prime(r, r.candidates)
      <3>1. /\ Sound(p) /\ Phase(p) /\ Limited(p) /\ p.currentState = "Composing"
            /\ p.buffer = ime.buffer /\ p.candidates = r.candidates
        BY <2>1, PrimeSeen
      <3>2. Respond(p, TRUE)
        BY <2>2
      <3> HIDE DEF p, s
      <3>3. Promised!Take(Promised!Shows([SessionOf(ime) EXCEPT !.list = SizeOf(p.candidates)], TRUE))
            /\ Roomy(ime')
        BY <1>1, <3>1, <3>2, ComposingAnswers
      <3>4. QED BY <3>1, <3>3 DEF s
    <2>4. Promised!Shows([s EXCEPT !.list = SizeOf(r.candidates)], TRUE)
            \in Promised!Outcomes(s, "Space", LongVowel)
      BY <1>1, <1>3, <1>4, <1>5, <2>1, ComposingKeys, ComposingRelisted
    <2>5. QED BY <1>3, <2>3, <2>4, KeyTakes, SomeGlyph
  <1>6. CASE HasItems(list)
    <2>1. 1 \in Int /\ TRUE \in BOOLEAN /\ 0 \in Nat
      OBVIOUS
    <2>2. MoveSelection(list, 1) \in GoodList /\ MoveSelection(list, 1).items = list.items
      BY <1>2, <2>1, MoveGood, MovesKeepList
    <2>3. moved \in GoodList /\ moved.items = list.items
      BY <1>2, <2>2
    <2>4. Respond(Prime(ime, moved), TRUE)
      BY <1>6 DEF ComposingSpace
    <2> HIDE DEF moved
    <2>5. HasItems(moved) /\ Short(moved) /\ SizeOf(moved) \in Promised!Moved(s.list)
      BY <1>2, <1>3, <1>6, <2>3, MovedIsMoved DEF HasItems
    <2>6. Promised!Take(Promised!Shows([s EXCEPT !.list = SizeOf(moved)], TRUE)) /\ Roomy(ime')
      BY <1>1, <1>2, <2>3, <2>4, <2>5, PrimeSeen, ComposingAnswers
    <2>7. Promised!Outcomes(s, "Space", LongVowel)
            = Promised!ShowEach(Promised!WithList(s, Promised!Moved(s.list)), TRUE)
      BY <1>3, <1>4, <1>6, ComposingKeys
    <2>8. Promised!Shows([s EXCEPT !.list = SizeOf(moved)], TRUE)
            \in Promised!Outcomes(s, "Space", LongVowel)
      BY <1>1, <2>5, <2>7, ComposingRelisted
    <2>9. QED BY <1>3, <2>6, <2>8, KeyTakes, SomeGlyph
  <1>7. QED BY <1>5, <1>6

(* Shift+Space: as many segments as the cut has, the first one selected.   *)
LEMMA StartConversionRefines ==
  ASSUME PInv, StartConversion
  PROVE Promised!Next /\ Roomy(ime')
  <1> DEFINE b == BuildConversion(ime)
             s == SessionOf(ime)
  <1>1. /\ Composing /\ \E cut \in Cuts(Reading(b)) :
             Respond(In(RefreshSegmentCandidates(RebuildSegments(b, cut)), "Converting"), TRUE)
    BY DEF StartConversion
  <1>2. /\ Sound(ime) /\ Limited(ime) /\ ime.buffer # <<>> /\ ime \in SoundType
    BY <1>1, ComposingFacts DEF PInv, Roomy, Sound
  <1>3. /\ Sound(b) /\ b.buffer = ime.buffer /\ b = [ime EXCEPT !.conversion = Convert(ime.buffer)]
    BY <1>2, BuildSound DEF SameInput
  <1>4. Limited(b)
    BY <1>2, <1>3 DEF Limited, SoundType
  <1>5. s = [state |-> "Composing", text |-> ime.buffer, ahead |-> 0, list |-> SizeOf(ime.candidates)]
    BY <1>1, ComposingSession
  <1> HIDE DEF b, s
  <1>6. PICK cut \in Cuts(Reading(b)) :
          Respond(In(RefreshSegmentCandidates(RebuildSegments(b, cut)), "Converting"), TRUE)
    BY <1>1
  <1> DEFINE rebuilt == RebuildSegments(b, cut)
             r == RefreshSegmentCandidates(rebuilt)
             f == In(r, "Converting")
             n == Len(r.segments) - 1
  <1>7. /\ Sound(rebuilt) /\ Segmented(rebuilt) /\ SameInput(rebuilt, b)
        /\ Limited(rebuilt) /\ rebuilt.selected = 1 /\ Len(rebuilt.segments) \in 1 .. Len(ime.buffer)
        /\ ~HasItems(rebuilt.segmentCandidates[1])
    BY <1>2, <1>3, <1>4, <1>6, RebuildSound, RebuildShort
  <1> HIDE DEF rebuilt
  <1>8. /\ Sound(r) /\ Segmented(r) /\ Previewed(r) /\ r.buffer = ime.buffer
        /\ Limited(r) /\ HasItems(r.candidates) /\ r.selected = 1
        /\ Len(r.segments) = Len(rebuilt.segments) /\ r.candidates.selectedIndex = 0
    BY <1>3, <1>7, RefreshSegmentSound, RefreshSegmentShort DEF SameInput
  <1>9. Respond(f, TRUE)
    BY <1>6 DEF rebuilt
  <1> HIDE DEF r
  <1>10. "Converting" \in States
    BY DEF States
  <1>11. /\ f \in SoundType /\ f.currentState = "Converting" /\ f.buffer = r.buffer
         /\ f.cursor = r.cursor /\ f.conversion = r.conversion /\ f.segments = r.segments
         /\ f.segmentCandidates = r.segmentCandidates /\ f.selected = r.selected
         /\ f.candidates = r.candidates /\ f.display = r.display /\ f.displayDirty = r.displayDirty
    BY <1>8, <1>10 DEF In, Sound, SoundType
  <1> HIDE DEF f
  <1>12. Sound(f) /\ Segmented(f) /\ Previewed(f)
    BY <1>8, <1>11, SameCovers DEF Sound, Segmented, Previewed, HighlightedText
  <1>13. Phase(f)
    BY <1>2, <1>8, <1>11, <1>12 DEF Phase
  <1>14. Len(ime.buffer) \in Nat
    BY <1>2, BufferFacts
  <1>15. n \in 0 .. Len(ime.buffer) - 1 /\ Len(r.segments) <= Len(ime.buffer)
    BY <1>7, <1>8, <1>14
  <1>16. Roomy(f)
    BY <1>8, <1>11, <1>15 DEF Roomy, Limited
  <1>17. SessionOf(f) = [state |-> "Converting", text |-> ime.buffer, ahead |-> n,
                         list |-> SizeOf(f.candidates)]
    BY <1>8, <1>11, SeenConverting
  <1>18. SizeOf(f.candidates) \in Promised!FreshLists
    BY <1>8, <1>11, <1>12, FreshSize DEF Limited, Sound, SoundType
  <1>19. Promised!Take(Promised!Shows(SessionOf(f), TRUE)) /\ Roomy(ime')
    BY <1>9, <1>12, <1>13, <1>16, RespondShows
  <1>20. Promised!Shows(SessionOf(f), TRUE) \in Promised!Outcomes(s, "Convert", LongVowel)
    <2> HIDE DEF n
    <2> HIDE DEF n
    <2>1. [s EXCEPT !.state = "Converting", !.ahead = n]
            = [state |-> "Converting", text |-> ime.buffer, ahead |-> n,
               list |-> SizeOf(ime.candidates)]
      <3> DEFINE list == SizeOf(ime.candidates)
                 text == ime.buffer
                 t == [s EXCEPT !.state = "Converting", !.ahead = n]
                 u == [state |-> "Converting", text |-> text, ahead |-> n, list |-> list]
                 T == [state : {"Composing", "Converting"}, text : {text}, ahead : {0, n}, list : {list}]
      <3> HIDE DEF list, text
      <3>1. s \in T /\ u \in T /\ s.text = text /\ s.list = list
        BY <1>5 DEF list, text
      <3>2. t \in T /\ t.state = "Converting" /\ t.ahead = n
        BY <3>1
      <3> HIDE DEF t
      <3>3. t = u
        BY <3>1, <3>2
      <3>4. QED BY <3>3 DEF t, list, text
    <2>2. SessionOf(f) \in Promised!WithList([s EXCEPT !.state = "Converting", !.ahead = n],
                                            Promised!FreshLists)
      BY <1>17, <1>18, <2>1, Relisted
    <2>3. s.text = ime.buffer /\ s.state = "Composing"
      BY <1>5
    <2>4. QED BY <1>15, <2>2, <2>3, ComposingKeys
  <1>21. "Convert" \in Promised!Keys
    BY DEF Promised!Keys
  <1>22. QED BY <1>19, <1>20, <1>21, KeyTakes, SomeGlyph DEF s


(* A commit of the composition by a key the contract lets commit.          *)
LEMMA CommitCompositionSeen ==
  ASSUME PInv, Composing, NEW text \in Text, NEW suffix \in Seq(Text),
         CommitComposition(text, suffix), NEW sent
  PROVE Promised!Take(Promised!Commits(sent)) /\ Roomy(ime')
  <1> DEFINE parts == <<text>> \o suffix
  <1>1. parts # <<>>
    OBVIOUS
  <1>2. Sound(ime)
    BY ComposingFacts DEF PInv
  <1>3. CommitSession(ime, parts, <<[reading |-> Reading(ime), text |-> text]>>)
    BY DEF CommitComposition
  <1> HIDE DEF parts
  <1>4. QED BY <1>1, <1>2, <1>3, CommitEnds

(* A digit, Enter or a mark commits the whole composition.                 *)
LEMMA ComposingCommitRefines ==
  ASSUME PInv,
         \/ \E digit \in Digits : ComposingDigit(digit)
         \/ ComposingEnter
         \/ \E mark \in Marks : ComposingMark(mark)
  PROVE Promised!Next /\ Roomy(ime')
  <1> DEFINE s == SessionOf(ime)
  <1>1. Composing
    BY DEF ComposingDigit, ComposingEnter, ComposingMark
  <1>2. s.state = "Composing" /\ {"Digit", "Enter", "Mark"} \subseteq Promised!Keys
    BY <1>1, ComposingSession DEF Promised!Keys
  <1>3. Promised!HasVisibleList(s) <=> HasItems(ime.candidates)
    BY <1>1, ComposingSession
  <1>4. Reading(ime) \in Text /\ <<>> \in Seq(Text) /\ Highlighted(Reading(ime)) \in Text
    BY <1>1, ComposingFacts, ReadingIs, HighlightedType DEF PInv
  <1>5. CASE \E digit \in Digits : ComposingDigit(digit)
    <2>1. PICK digit \in Digits : ComposingDigit(digit)
      BY <1>5
    <2> DEFINE list == Select(ime.candidates, digit)
    <2>2. ime.candidates \in Lists /\ digit \in 0 .. Len(ime.candidates.items) - 1
      BY <1>1, <2>1, ComposingFacts DEF PInv, ComposingDigit, CanSelect, GoodList
    <2>3. list \in GoodList /\ HasItems(list) /\ HasItems(ime.candidates)
      BY <2>2, SelectGood DEF Select, HasItems, Lists
    <2>4. SelectedText(list) \in Text
      BY <2>3, SelectedTextType
    <2>5. CommitComposition(SelectedText(list), <<>>)
      BY <2>1 DEF ComposingDigit
    <2>6. Promised!Take(Promised!Commits(s.text)) /\ Roomy(ime')
      BY <1>1, <1>4, <2>4, <2>5, CommitCompositionSeen
    <2>7. Promised!Commits(s.text) \in Promised!Outcomes(s, "Digit", LongVowel)
      BY <1>2, <1>3, <2>3, ComposingKeys
    <2>8. QED BY <1>2, <2>6, <2>7, KeyTakes, SomeGlyph
  <1>6. CASE ComposingEnter
    <2> DEFINE text == IF ime.primed THEN Highlighted(Reading(ime)) ELSE Reading(ime)
    <2>1. text \in Text
      BY <1>4
    <2>2. CommitComposition(text, <<>>)
      BY <1>6 DEF ComposingEnter
    <2> HIDE DEF text
    <2>3. Promised!Take(Promised!Commits(s.text)) /\ Roomy(ime')
      BY <1>1, <1>4, <2>1, <2>2, CommitCompositionSeen
    <2>4. Promised!Commits(s.text) \in Promised!Outcomes(s, "Enter", LongVowel)
      BY <1>2, ComposingKeys
    <2>5. QED BY <1>2, <2>3, <2>4, KeyTakes, SomeGlyph
  <1>7. CASE \E mark \in Marks : ComposingMark(mark)
    <2>1. PICK mark \in Marks : ComposingMark(mark)
      BY <1>7
    <2>2. <<<<mark>>>> \in Seq(Text) /\ mark \in Glyphs
      BY GlyphAssumption DEF Text
    <2>3. CommitComposition(Highlighted(Reading(ime)), <<<<mark>>>>)
      BY <2>1 DEF ComposingMark
    <2>4. Promised!Take(Promised!Commits(s.text \o <<mark>>)) /\ Roomy(ime')
      BY <1>1, <1>4, <2>2, <2>3, CommitCompositionSeen
    <2>5. Promised!Commits(s.text \o <<mark>>) \in Promised!Outcomes(s, "Mark", mark)
      BY <1>2, ComposingKeys
    <2>6. QED BY <1>2, <2>2, <2>4, <2>5, KeyTakes
  <1>8. QED BY <1>5, <1>6, <1>7

-----------------------------------------------------------------------------
(* Keys while converting *)

(* What each of them may come to, with a list to choose from.              *)
LEMMA ConvertingKeys ==
  ASSUME NEW s, s.state = "Converting", Promised!HasVisibleList(s), NEW ch
  PROVE
    /\ Promised!Outcomes(s, "Enter", ch) = Promised!Accepted(s)
    /\ Promised!Accepted(s) \subseteq Promised!Outcomes(s, "Digit", ch)
    /\ Promised!Outcomes(s, "Escape", ch) = Promised!Cancelled(s, {Promised!NoList})
    /\ Promised!Outcomes(s, "Pick", ch) =
         Promised!ShowEach(Promised!WithList(s, Promised!Moved(s.list)), TRUE)
    /\ Promised!ShowEach(Promised!OtherSegment(s), TRUE) \subseteq Promised!Outcomes(s, "Arrow", ch)
  <1>1. \A key \in {"Enter", "Digit", "Escape", "Pick", "Arrow"} :
          Promised!Outcomes(s, key, ch) = Promised!ConvertingOutcomes(s, key)
    BY DEF Promised!Outcomes
  <1>2. QED BY <1>1 DEF Promised!ConvertingOutcomes

(* The session left when a conversion is.                                  *)
LEMMA LeftSession ==
  ASSUME PInv, Converting, NEW L, NEW l \in L
  PROVE Promised!Shows([state |-> "Composing", text |-> ime.buffer, ahead |-> 0, list |-> l], TRUE)
          \in Promised!Cancelled(SessionOf(ime), L)
  <1> DEFINE s == SessionOf(ime)
             t == [s EXCEPT !.state = "Composing", !.ahead = 0]
             text == ime.buffer
             list == SizeOf(ime.candidates)
             n == Len(ime.segments) - ime.selected
             u == [state |-> "Composing", text |-> text, ahead |-> 0, list |-> list]
             T == [state : {"Composing", "Converting"}, text : {text}, ahead : {0, n}, list : {list}]
  <1>1. s = [state |-> "Converting", text |-> text, ahead |-> n, list |-> list]
    BY ConvertingSession
  <1> HIDE DEF s, text, list, n
  <1>2. s \in T /\ u \in T
    BY <1>1
  <1>3. t \in T /\ t.state = "Composing" /\ t.ahead = 0
    BY <1>2
  <1> HIDE DEF t
  <1>4. t = u
    BY <1>2, <1>3
  <1>5. [state |-> "Composing", text |-> text, ahead |-> 0, list |-> l] \in Promised!WithList(t, L)
    BY <1>4, Relisted
  <1>6. QED BY <1>5, ShownEach DEF Promised!Cancelled, s, t, text

(* A conversion that is left is seen as a composition without predictions. *)
LEMMA LeaveSeen ==
  ASSUME PInv, Converting
  PROVE LET l == LeaveConversion(ime) IN
        /\ Sound(l) /\ Phase(l) /\ Limited(l) /\ l.currentState = "Composing"
        /\ l.buffer = ime.buffer /\ l.buffer # <<>> /\ l.segments = <<>>
        /\ l.candidates = NoCandidates
  <1> DEFINE l == LeaveConversion(ime)
  <1>1. /\ Sound(l) /\ Phase(l) /\ l.currentState = "Composing"
        /\ l.buffer # <<>> /\ l.segments = <<>>
    BY LeavePhase DEF PInv
  <1>2. Sound(ime) /\ Limited(ime)
    BY ConvertingFacts DEF PInv, Roomy
  <1>3. /\ l.buffer = ime.buffer /\ l.candidates = NoCandidates
        /\ l.segmentCandidates = ime.segmentCandidates
    BY <1>2 DEF LeaveConversion, ClearCandidates, Sound, SoundType
  <1> HIDE DEF l
  <1>4. Limited(l)
    BY <1>2, <1>3, NoCandidatesShort DEF Limited
  <1>5. QED BY <1>1, <1>3, <1>4 DEF l

(* Escape, Backspace and Delete leave the conversion.                      *)
LEMMA ConvertingCancelRefines ==
  ASSUME PInv, ConvertingCancel
  PROVE Promised!Next /\ Roomy(ime')
  <1> DEFINE s == SessionOf(ime)
             l == LeaveConversion(ime)
  <1>1. Converting /\ Respond(l, TRUE)
    BY DEF ConvertingCancel
  <1>2. /\ Sound(l) /\ Phase(l) /\ Limited(l) /\ l.currentState = "Composing"
        /\ l.buffer = ime.buffer /\ l.candidates = NoCandidates
    BY <1>1, LeaveSeen
  <1>3. s.state = "Converting" /\ Promised!HasVisibleList(s) /\ "Escape" \in Promised!Keys
    BY <1>1, ConvertingSession DEF Promised!Keys
  <1> HIDE DEF l
  <1>4. Roomy(l)
    BY <1>2 DEF Roomy
  <1>5. SessionOf(l) = [state |-> "Composing", text |-> ime.buffer, ahead |-> 0,
                        list |-> Promised!NoList]
    BY <1>2, SeenComposing, NoSize
  <1>6. Promised!Take(Promised!Shows(SessionOf(l), TRUE)) /\ Roomy(ime')
    BY <1>1, <1>2, <1>4, RespondShows
  <1>7. Promised!Shows(SessionOf(l), TRUE) \in Promised!Cancelled(s, {Promised!NoList})
    BY <1>1, <1>5, LeftSession
  <1>8. Promised!Shows(SessionOf(l), TRUE) \in Promised!Outcomes(s, "Escape", LongVowel)
    BY <1>3, <1>7, ConvertingKeys
  <1>9. QED BY <1>3, <1>6, <1>8, KeyTakes, SomeGlyph

(* An answer that keeps the conversion going.                              *)
LEMMA ConvertingAnswers ==
  ASSUME PInv, Converting, NEW f, Sound(f), Segmented(f), Previewed(f), SameInput(f, ime),
         Limited(f), HasItems(f.candidates), Len(f.segments) <= Len(ime.segments),
         RespondFresh(f, TRUE)
  PROVE /\ Promised!Take(Promised!Shows([state |-> "Converting", text |-> ime.buffer,
                                         ahead |-> Len(f.segments) - f.selected,
                                         list |-> SizeOf(f.candidates)], TRUE))
        /\ SizeOf(f.candidates) \in Promised!FoundLists
        /\ Roomy(ime')
  <1>1. f.currentState = "Converting" /\ f.buffer = ime.buffer /\ ime.buffer # <<>>
    BY ConvertingFacts DEF PInv, SameInput
  <1>2. Phase(f)
    BY <1>1 DEF Phase
  <1>3. Len(ime.segments) \in 1 .. Len(ime.buffer) /\ Len(ime.buffer) \in Nat
    BY ConvertingSession
  <1>4. Len(f.segments) \in Nat
    BY DEF Sound, SoundType
  <1>5. Len(f.segments) <= Len(f.buffer)
    BY <1>1, <1>3, <1>4
  <1>6. Roomy(f)
    BY <1>5 DEF Roomy
  <1>7. Promised!Take(Promised!Shows(SessionOf(f), TRUE)) /\ Roomy(ime')
    BY <1>2, <1>6, RespondShows
  <1>8. SizeOf(f.candidates) \in Promised!FoundLists
    BY FoundSize DEF Limited, Sound, SoundType
  <1>9. QED BY <1>1, <1>7, <1>8, SeenConverting


(* A highlight moved within the list keeps segments and list.              *)
LEMMA HighlightSeen ==
  ASSUME PInv, Converting, NEW list \in GoodList, list.items = ime.candidates.items
  PROVE LET h == Highlight(list) IN
        /\ Sound(h) /\ Segmented(h) /\ Previewed(h) /\ SameInput(h, ime) /\ Limited(h)
        /\ h.candidates = list /\ HasItems(h.candidates)
        /\ h.selected = ime.selected /\ Len(h.segments) = Len(ime.segments)
  <1> DEFINE e == [ime EXCEPT !.candidates = list]
             h == SyncPreview(e)
  <1>1. Sound(ime) /\ Segmented(ime) /\ Limited(ime) /\ HasItems(ime.candidates)
    BY ConvertingFacts, ConvertingSession DEF PInv, Roomy
  <1>2. /\ Sound(e) /\ SameInput(e, ime) /\ e.candidates = list /\ Segmented(e)
        /\ e.segments = ime.segments /\ e.selected = ime.selected
        /\ e.segmentCandidates = ime.segmentCandidates
    BY <1>1, NewCandidatesSound
  <1> HIDE DEF e
  <1>3. Limited(e) /\ HasItems(list)
    BY <1>1, <1>2 DEF Limited, Short, HasItems
  <1>4. /\ Sound(h) /\ Segmented(h) /\ Previewed(h) /\ SameInput(h, e)
        /\ h.selected = e.selected /\ Len(h.segments) = Len(e.segments)
    BY <1>2, SyncPreviewSound
  <1>5. Limited(h) /\ h.candidates = e.candidates
    BY <1>2, <1>3, SyncPreviewShort
  <1>6. Highlight(list) = h
    BY DEF Highlight, e
  <1> HIDE DEF h
  <1>7. QED BY <1>2, <1>3, <1>4, <1>5, <1>6 DEF SameInput

(* Another list in the session of a conversion.                            *)
LEMMA ConvertingRelisted ==
  ASSUME PInv, Converting, NEW L, NEW l \in L
  PROVE Promised!Shows([state |-> "Converting", text |-> ime.buffer,
                        ahead |-> Len(ime.segments) - ime.selected, list |-> l], TRUE)
          \in Promised!ShowEach(Promised!WithList(SessionOf(ime), L), TRUE)
  BY ConvertingSession, Relisted, ShownEach

(* The keys that move among candidates keep their number.                  *)
LEMMA ConvertingMoveRefines ==
  ASSUME PInv, ConvertingMove \/ ConvertingBoundary
  PROVE Promised!Next /\ Roomy(ime')
  <1> DEFINE s == SessionOf(ime)
             list == ime.candidates
             ahead == Len(ime.segments) - ime.selected
  <1>1. Converting
    BY DEF ConvertingMove, ConvertingBoundary
  <1>2. PICK moved \in GoodList : moved.items = list.items /\ RespondFresh(Highlight(moved), TRUE)
    <2>1. /\ list \in GoodList /\ PageSize \in Int /\ -PageSize \in Int /\ 1 \in Int /\ -1 \in Int
          /\ TRUE \in BOOLEAN /\ 0 \in Nat
      BY <1>1, ConvertingFacts DEF PInv, PageSize
    <2>2. /\ MoveSelection(list, 1) \in GoodList /\ MoveSelection(list, -1) \in GoodList
          /\ MoveSelectionClamped(list, PageSize) \in GoodList
          /\ MoveSelectionClamped(list, -PageSize) \in GoodList
      BY <2>1, MoveGood, MoveClampedGood
    <2>3. /\ MoveSelection(list, 1).items = list.items /\ MoveSelection(list, -1).items = list.items
          /\ MoveSelectionClamped(list, PageSize).items = list.items
          /\ MoveSelectionClamped(list, -PageSize).items = list.items
          /\ \A last \in BOOLEAN : SelectBoundary(list, last).items = list.items
      BY <2>1, MovesKeepList
    <2>4. CASE ConvertingMove
      BY <2>2, <2>3, <2>4 DEF ConvertingMove
    <2>5. CASE ConvertingBoundary
      BY <2>1, <2>3, <2>5, BoundaryGood DEF ConvertingBoundary
    <2>6. QED BY <2>4, <2>5
  <1> DEFINE h == Highlight(moved)
  <1>3. /\ Sound(h) /\ Segmented(h) /\ Previewed(h) /\ SameInput(h, ime) /\ Limited(h)
        /\ h.candidates = moved /\ HasItems(h.candidates)
        /\ h.selected = ime.selected /\ Len(h.segments) = Len(ime.segments)
    BY <1>1, <1>2, HighlightSeen
  <1>4. RespondFresh(h, TRUE)
    BY <1>2
  <1>5. s.state = "Converting" /\ Promised!HasVisibleList(s) /\ "Pick" \in Promised!Keys
        /\ s.list = SizeOf(list) /\ list \in GoodList /\ Short(list)
    BY <1>1, ConvertingSession DEF Promised!Keys
  <1>6. Len(ime.segments) \in Nat
    BY <1>1, ConvertingFacts DEF PInv, Sound, SoundType
  <1> HIDE DEF h
  <1>7. Len(h.segments) <= Len(ime.segments)
    BY <1>3, <1>6
  <1>8. /\ Promised!Take(Promised!Shows([state |-> "Converting", text |-> ime.buffer, ahead |-> ahead,
                                         list |-> SizeOf(moved)], TRUE))
        /\ Roomy(ime')
    BY <1>1, <1>3, <1>4, <1>7, ConvertingAnswers
  <1>9. SizeOf(moved) \in Promised!Moved(s.list)
    BY <1>2, <1>5, MovedIsMoved
  <1>10. Promised!Shows([state |-> "Converting", text |-> ime.buffer, ahead |-> ahead,
                         list |-> SizeOf(moved)], TRUE) \in Promised!Outcomes(s, "Pick", LongVowel)
    <2>1. Promised!Outcomes(s, "Pick", LongVowel)
            = Promised!ShowEach(Promised!WithList(s, Promised!Moved(s.list)), TRUE)
      BY <1>5, ConvertingKeys
    <2>2. QED BY <1>1, <1>9, <2>1, ConvertingRelisted
  <1>11. QED BY <1>5, <1>8, <1>10, KeyTakes, SomeGlyph

(* Accepting a segment selects the next one, or commits behind the last.   *)
LEMMA AcceptSeen ==
  ASSUME PInv, Converting, NEW f, Sound(f), Segmented(f), SameInput(f, ime), Limited(f),
         f.selected = ime.selected, Len(f.segments) = Len(ime.segments), AcceptSegment(f)
  PROVE (\E o \in Promised!Accepted(SessionOf(ime)) : Promised!Take(o)) /\ Roomy(ime')
  <1> DEFINE s == SessionOf(ime)
             ahead == Len(ime.segments) - ime.selected
  <1>1. /\ s = [state |-> "Converting", text |-> ime.buffer, ahead |-> ahead,
                list |-> SizeOf(ime.candidates)]
        /\ ime.selected \in 1 .. Len(ime.segments) /\ Len(ime.segments) \in Nat
    BY ConvertingSession, ConvertingFacts DEF PInv, Sound, SoundType
  <1>2. CASE IsLastSegment(f)
    <2> DEFINE p == PersistSelection(f)
    <2>1. Sound(p) /\ p.segments = f.segments
      BY PersistSound
    <2>2. Len(Texts(p.segments)) = Len(f.segments) /\ Len(f.segments) # 0
      BY <1>1, <2>1 DEF Texts
    <2>3. Texts(p.segments) # <<>>
      BY <2>2
    <2>4. CommitSession(p, Texts(p.segments), p.segments)
      BY <1>2 DEF AcceptSegment, CommitConversion
    <2> HIDE DEF p
    <2>5. Promised!Take(Promised!Commits(s.text)) /\ Roomy(ime')
      BY <2>1, <2>3, <2>4, CommitEnds
    <2>6. ahead = 0
      BY <1>1, <1>2 DEF IsLastSegment
    <2>7. s.ahead = ahead
      BY <1>1
    <2> HIDE DEF s, ahead
    <2>8. Promised!Accepted(s) = {Promised!Commits(s.text)}
      BY <2>6, <2>7 DEF Promised!Accepted
    <2>9. QED BY <2>5, <2>8 DEF s
  <1>3. CASE ~IsLastSegment(f)
    <2> DEFINE a == Advance(f)
    <2>1. Sound(a) /\ Segmented(a) /\ Previewed(a) /\ SameInput(a, ime)
      BY <1>3, AdvanceSound DEF SameInput
    <2>2. /\ Limited(a) /\ HasItems(a.candidates)
          /\ a.selected = ime.selected + 1 /\ Len(a.segments) = Len(ime.segments)
      BY <1>3, AdvanceShort
    <2>3. RespondFresh(a, TRUE)
      BY <1>3 DEF AcceptSegment
    <2> HIDE DEF a
    <2>4. Len(a.segments) <= Len(ime.segments) /\ ahead - 1 = Len(a.segments) - a.selected
      BY <1>1, <2>2
    <2> DEFINE t == [state |-> "Converting", text |-> ime.buffer, ahead |-> ahead - 1,
                     list |-> SizeOf(a.candidates)]
    <2>5. /\ Promised!Take(Promised!Shows(t, TRUE)) /\ Roomy(ime')
          /\ SizeOf(a.candidates) \in Promised!FoundLists
      BY <2>1, <2>2, <2>3, <2>4, ConvertingAnswers
    <2>6. ahead > 0
      BY <1>1, <1>3 DEF IsLastSegment
    <2>7. Promised!Accepted(s)
            = Promised!ShowEach(Promised!WithList([s EXCEPT !.ahead = @ - 1], Promised!FoundLists), TRUE)
      BY <1>1, <2>6 DEF Promised!Accepted
    <2>8. [s EXCEPT !.ahead = @ - 1] = [state |-> "Converting", text |-> ime.buffer,
                                        ahead |-> ahead - 1, list |-> SizeOf(ime.candidates)]
      BY <1>1
    <2>9. t \in Promised!WithList([s EXCEPT !.ahead = @ - 1], Promised!FoundLists)
      BY <2>5, <2>8, Relisted
    <2>10. Promised!Shows(t, TRUE) \in Promised!Accepted(s)
      BY <2>7, <2>9, ShownEach
    <2>11. QED BY <2>5, <2>10
  <1>4. QED BY <1>2, <1>3

(* Enter, and the window's call, accept the segment as it stands.          *)
LEMMA AcceptSelectedSeen ==
  ASSUME PInv, Converting, AcceptSegment(SyncPreview(ime))
  PROVE (\E o \in Promised!Accepted(SessionOf(ime)) : Promised!Take(o)) /\ Roomy(ime')
  <1> DEFINE f == SyncPreview(ime)
  <1>1. Sound(ime) /\ Segmented(ime) /\ Limited(ime)
    BY ConvertingFacts DEF PInv, Roomy
  <1>2. /\ Sound(f) /\ Segmented(f) /\ SameInput(f, ime) /\ Limited(f)
        /\ f.selected = ime.selected /\ Len(f.segments) = Len(ime.segments)
    BY <1>1, SyncPreviewSound, SyncPreviewShort
  <1>3. AcceptSegment(f)
    OBVIOUS
  <1> HIDE DEF f
  <1>4. QED BY <1>2, <1>3, AcceptSeen

(* Enter and the digits accept the segment.                                *)
LEMMA ConvertingAcceptRefines ==
  ASSUME PInv, ConvertingEnter \/ \E digit \in Digits : ConvertingDigit(digit)
  PROVE Promised!Next /\ Roomy(ime')
  <1> DEFINE s == SessionOf(ime)
  <1>1. Converting
    BY DEF ConvertingEnter, ConvertingDigit
  <1>2. /\ s.state = "Converting" /\ Promised!HasVisibleList(s)
        /\ "Enter" \in Promised!Keys /\ "Digit" \in Promised!Keys
    BY <1>1, ConvertingSession DEF Promised!Keys
  <1>3. CASE ConvertingEnter
    <2>1. (\E o \in Promised!Accepted(s) : Promised!Take(o)) /\ Roomy(ime')
      BY <1>1, <1>3, AcceptSelectedSeen DEF ConvertingEnter
    <2>2. Promised!Accepted(s) = Promised!Outcomes(s, "Enter", LongVowel)
      BY <1>2, ConvertingKeys
    <2>3. QED BY <1>2, <2>1, <2>2, KeyTakes, SomeGlyph
  <1>4. CASE \E digit \in Digits : ConvertingDigit(digit)
    <2>1. PICK digit \in Digits : ConvertingDigit(digit)
      BY <1>4
    <2> DEFINE chosen == Select(ime.candidates, digit)
               h == Highlight(chosen)
    <2>2. /\ ime.candidates \in GoodList /\ ime.candidates \in Lists
          /\ digit \in 0 .. Len(ime.candidates.items) - 1 /\ digit \in Nat
      BY <1>1, <2>1, ConvertingFacts DEF PInv, ConvertingDigit, CanSelect, GoodList, Digits
    <2>3. chosen \in GoodList /\ chosen.items = ime.candidates.items
      BY <2>2, SelectGood, MovesKeepList DEF Select, Lists
    <2> HIDE DEF chosen
    <2>4. /\ Sound(h) /\ Segmented(h) /\ SameInput(h, ime) /\ Limited(h)
          /\ h.selected = ime.selected /\ Len(h.segments) = Len(ime.segments)
      BY <1>1, <2>3, HighlightSeen
    <2>5. AcceptSegment(h)
      BY <2>1 DEF ConvertingDigit, chosen
    <2> HIDE DEF h
    <2>6. (\E o \in Promised!Accepted(s) : Promised!Take(o)) /\ Roomy(ime')
      BY <1>1, <2>4, <2>5, AcceptSeen
    <2>7. Promised!Accepted(s) \subseteq Promised!Outcomes(s, "Digit", LongVowel)
      BY <1>2, ConvertingKeys
    <2>8. QED BY <1>2, <2>6, <2>7, KeyTakes, SomeGlyph
  <1>5. QED BY <1>3, <1>4

-----------------------------------------------------------------------------
(* Moving among segments, and merging them *)

(* A neighbouring segment selected, or merged with, is one the contract    *)
(* allows.                                                                 *)
LEMMA OtherSegmentSeen ==
  ASSUME PInv, Converting, NEW f, Sound(f), Segmented(f), Previewed(f), SameInput(f, ime),
         Limited(f), HasItems(f.candidates), Len(f.segments) <= Len(ime.segments),
         RespondFresh(f, TRUE),
         Len(f.segments) - f.selected <= Len(ime.segments) - ime.selected + 1,
         Len(ime.segments) - ime.selected <= Len(f.segments) - f.selected + 1
  PROVE Promised!Next /\ Roomy(ime')
  <1> DEFINE s == SessionOf(ime)
             n == Len(f.segments) - f.selected
             l == SizeOf(f.candidates)
             t == [state |-> "Converting", text |-> ime.buffer, ahead |-> n, list |-> l]
             near == {m \in 0 .. Len(s.text) - 1 : m <= s.ahead + 1 /\ s.ahead <= m + 1}
             sessions(m) == Promised!WithList([s EXCEPT !.ahead = m], Promised!FoundLists)
  <1>1. /\ Promised!Take(Promised!Shows(t, TRUE)) /\ Roomy(ime') /\ l \in Promised!FoundLists
    BY ConvertingAnswers
  <1>2. /\ s = [state |-> "Converting", text |-> ime.buffer,
                ahead |-> Len(ime.segments) - ime.selected, list |-> SizeOf(ime.candidates)]
        /\ Promised!HasVisibleList(s)
        /\ Len(ime.segments) \in 1 .. Len(ime.buffer) /\ Len(ime.buffer) \in Nat
    BY ConvertingSession
  <1>3. f.selected \in 1 .. Len(f.segments) /\ Len(f.segments) \in Nat
    BY SegmentedFacts DEF Sound, SoundType
  <1>4. n \in 0 .. Len(ime.buffer) - 1
    BY <1>2, <1>3
  <1>5. n \in near
    BY <1>2, <1>4
  <1>6. [s EXCEPT !.ahead = n] = [state |-> "Converting", text |-> ime.buffer, ahead |-> n,
                                  list |-> SizeOf(ime.candidates)]
    BY <1>2
  <1> HIDE DEF l, n
  <1>7. t \in sessions(n)
    BY <1>1, <1>6, Relisted
  <1>8. Promised!OtherSegment(s) = UNION {sessions(m) : m \in near}
    BY DEF Promised!OtherSegment
  <1> HIDE DEF sessions, near, t
  <1>9. t \in Promised!OtherSegment(s)
    BY <1>5, <1>7, <1>8
  <1>10. Promised!Shows(t, TRUE) \in Promised!ShowEach(Promised!OtherSegment(s), TRUE)
    BY <1>9, ShownEach
  <1>11. s.state = "Converting"
    BY <1>2
  <1>12. Promised!Shows(t, TRUE) \in Promised!Outcomes(s, "Arrow", LongVowel)
    BY <1>2, <1>10, <1>11, ConvertingKeys
  <1>13. "Arrow" \in Promised!Keys
    BY DEF Promised!Keys
  <1>14. QED BY <1>1, <1>12, <1>13, KeyTakes, SomeGlyph

(* Left and Right, shifted or not; at an end, and for any other key, the   *)
(* key is left to the application.                                         *)
LEMMA SegmentKeysRefine ==
  ASSUME PInv, ConvertingLeft \/ ConvertingRight \/ MergeLeft \/ MergeRight \/ ConvertingUnhandled
  PROVE Promised!Next /\ Roomy(ime')
  <1>1. Converting
    BY DEF ConvertingLeft, ConvertingRight, MergeLeft, MergeRight, ConvertingUnhandled
  <1>2. /\ Sound(ime) /\ Phase(ime) /\ Segmented(ime) /\ Limited(ime) /\ Roomy(ime)
        /\ ime.selected \in 1 .. Len(ime.segments) /\ Len(ime.segments) \in Nat
    BY <1>1, ConvertingFacts, SegmentedFacts DEF PInv, Roomy, Sound, SoundType
  <1>3. CASE RespondFresh(ime, FALSE)
    <2>1. Promised!Take(Promised!Shows(SessionOf(ime), FALSE)) /\ Roomy(ime')
      BY <1>2, <1>3, RespondShows
    <2>2. QED BY <2>1, OtherKeyTakes
  <1>4. ASSUME NEW i \in 1 .. Len(ime.segments), RespondFresh(MoveToSegment(ime, i), TRUE),
               i <= ime.selected + 1, ime.selected <= i + 1
        PROVE Promised!Next /\ Roomy(ime')
    <2> DEFINE f == MoveToSegment(ime, i)
    <2>1. /\ Sound(f) /\ Segmented(f) /\ Previewed(f) /\ SameInput(f, ime)
          /\ Limited(f) /\ HasItems(f.candidates)
          /\ f.selected = i /\ Len(f.segments) = Len(ime.segments)
      BY <1>2, MoveToSegmentSound, MoveToSegmentShort
    <2>2. RespondFresh(f, TRUE)
      BY <1>4
    <2> HIDE DEF f
    <2>3. /\ Len(f.segments) <= Len(ime.segments)
          /\ Len(f.segments) - f.selected <= Len(ime.segments) - ime.selected + 1
          /\ Len(ime.segments) - ime.selected <= Len(f.segments) - f.selected + 1
      BY <1>2, <1>4, <2>1
    <2>4. QED BY <1>1, <2>1, <2>2, <2>3, OtherSegmentSeen
  <1>5. ASSUME NEW i \in 1 .. Len(ime.segments) - 1, RespondFresh(MergeAt(ime, i), TRUE),
               i <= ime.selected, ime.selected <= i + 1
        PROVE Promised!Next /\ Roomy(ime')
    <2> DEFINE f == MergeAt(ime, i)
    <2>1. /\ Sound(f) /\ Segmented(f) /\ Previewed(f) /\ SameInput(f, ime)
          /\ Limited(f) /\ HasItems(f.candidates)
          /\ f.selected = i /\ Len(f.segments) = Len(ime.segments) - 1
      BY <1>2, MergeSound, MergeShort
    <2>2. RespondFresh(f, TRUE)
      BY <1>5
    <2> HIDE DEF f
    <2>3. /\ Len(f.segments) <= Len(ime.segments)
          /\ Len(f.segments) - f.selected <= Len(ime.segments) - ime.selected + 1
          /\ Len(ime.segments) - ime.selected <= Len(f.segments) - f.selected + 1
      BY <1>2, <1>5, <2>1
    <2>4. QED BY <1>1, <2>1, <2>2, <2>3, OtherSegmentSeen
  <1>6. CASE ime.selected # 1 /\ RespondFresh(MoveToSegment(ime, ime.selected - 1), TRUE)
    <2>1. ime.selected - 1 \in 1 .. Len(ime.segments)
      BY <1>2, <1>6
    <2>2. ime.selected - 1 <= ime.selected + 1 /\ ime.selected <= (ime.selected - 1) + 1
      BY <1>2
    <2>3. QED BY <1>4, <1>6, <2>1, <2>2
  <1>7. CASE ~IsLastSegment(ime) /\ RespondFresh(MoveToSegment(ime, ime.selected + 1), TRUE)
    <2>1. ime.selected + 1 \in 1 .. Len(ime.segments)
      BY <1>2, <1>7 DEF IsLastSegment
    <2>2. ime.selected + 1 <= ime.selected + 1 /\ ime.selected <= (ime.selected + 1) + 1
      BY <1>2
    <2>3. QED BY <1>4, <1>7, <2>1, <2>2
  <1>8. CASE ime.selected # 1 /\ RespondFresh(MergeAt(ime, ime.selected - 1), TRUE)
    <2>1. ime.selected - 1 \in 1 .. Len(ime.segments) - 1
      BY <1>2, <1>8
    <2>2. ime.selected - 1 <= ime.selected /\ ime.selected <= (ime.selected - 1) + 1
      BY <1>2
    <2>3. QED BY <1>5, <1>8, <2>1, <2>2
  <1>9. CASE ~IsLastSegment(ime) /\ RespondFresh(MergeAt(ime, ime.selected), TRUE)
    <2>1. ime.selected \in 1 .. Len(ime.segments) - 1
      BY <1>2, <1>9 DEF IsLastSegment
    <2>2. ime.selected <= ime.selected /\ ime.selected <= ime.selected + 1
      BY <1>2
    <2>3. QED BY <1>5, <1>9, <2>1, <2>2
  <1>10. QED BY <1>3, <1>6, <1>7, <1>8, <1>9
             DEF ConvertingLeft, ConvertingRight, MergeLeft, MergeRight, ConvertingUnhandled

-----------------------------------------------------------------------------
(* The calls of the candidate window, and a discarded session *)

(* A selection by the candidate window moves the highlight alone.          *)
LEMMA SetCandidateSelectionRefines ==
  ASSUME PInv, NEW i \in 0 .. Len(ime.candidates.items) - 1, SetCandidateSelection(i)
  PROVE Promised!Next /\ Roomy(ime')
  <1> DEFINE s == SessionOf(ime)
             list == ime.candidates
             chosen == Select(list, i)
             picked == Promised!Shows([s EXCEPT !.list.selected = i], TRUE)
  <1>1. Converting \/ Composing
    BY DEF SetCandidateSelection
  <1>2. /\ list \in GoodList /\ list \in Lists /\ Short(list) /\ i \in Nat
        /\ Len(list.items) \in Nat
    BY <1>1, ComposingSession, ConvertingSession DEF GoodList, Lists
  <1>3. chosen \in GoodList /\ chosen.items = list.items /\ chosen.selectedIndex = i
    BY <1>2, SelectGood, MovesKeepList DEF Select, Lists
  <1>4. HasItems(chosen) /\ Short(chosen)
    BY <1>2, <1>3 DEF HasItems, Short
  <1>5. \/ Converting /\ RespondFresh(Highlight(chosen), TRUE)
        \/ Composing /\ Respond(Prime(ime, chosen), TRUE)
    BY DEF SetCandidateSelection
  <1> HIDE DEF chosen
  <1>6. s.list = SizeOf(list) /\ s.state \in {"Composing", "Converting"}
    BY <1>1, ComposingSession, ConvertingSession
  <1>7. i < s.list.count /\ i \in 0 .. MaxList
    BY <1>2, <1>6, LimitAssumption DEF SizeOf, Short
  <1>8. picked \in Promised!SetCandidateSelection(s, i)
    BY <1>6, <1>7 DEF Promised!SetCandidateSelection, Promised!IsOpen
  <1>9. SizeOf(chosen) = [count |-> Len(list.items), selected |-> i]
    BY <1>3 DEF SizeOf
  <1>10. CASE Converting /\ RespondFresh(Highlight(chosen), TRUE)
    <2> DEFINE h == Highlight(chosen)
               ahead == Len(ime.segments) - ime.selected
               t == [state |-> "Converting", text |-> ime.buffer, ahead |-> ahead,
                     list |-> SizeOf(chosen)]
    <2>1. /\ Sound(h) /\ Segmented(h) /\ Previewed(h) /\ SameInput(h, ime) /\ Limited(h)
          /\ h.candidates = chosen /\ HasItems(h.candidates)
          /\ h.selected = ime.selected /\ Len(h.segments) = Len(ime.segments)
      BY <1>3, <1>10, HighlightSeen
    <2>2. RespondFresh(h, TRUE)
      BY <1>10
    <2> HIDE DEF h
    <2>3. Len(h.segments) <= Len(ime.segments)
      BY <1>10, <2>1, ConvertingSession
    <2>4. Promised!Take(Promised!Shows(t, TRUE)) /\ Roomy(ime')
      BY <1>10, <2>1, <2>2, <2>3, ConvertingAnswers
    <2>5. s = [state |-> "Converting", text |-> ime.buffer, ahead |-> ahead, list |-> SizeOf(list)]
      BY <1>10, ConvertingSession
    <2> HIDE DEF ahead
    <2>6. [s EXCEPT !.list.selected = i] = t
      BY <1>9, <2>5 DEF SizeOf
    <2>7. QED BY <1>7, <1>8, <2>4, <2>6, CallTakes
  <1>11. CASE Composing /\ Respond(Prime(ime, chosen), TRUE)
    <2> DEFINE p == Prime(ime, chosen)
    <2>1. Sound(ime) /\ Phase(ime) /\ Limited(ime) /\ ime.currentState = "Composing"
      BY <1>11, ComposingFacts DEF PInv, Roomy
    <2>2. /\ Sound(p) /\ Phase(p) /\ Limited(p) /\ p.currentState = "Composing"
          /\ p.buffer = ime.buffer /\ p.candidates = chosen
      BY <1>3, <1>4, <2>1, PrimeSeen
    <2>3. Respond(p, TRUE)
      BY <1>11
    <2> HIDE DEF p
    <2>4. Promised!Take(Promised!Shows([s EXCEPT !.list = SizeOf(chosen)], TRUE)) /\ Roomy(ime')
      BY <1>11, <2>2, <2>3, ComposingAnswers
    <2>5. s = [state |-> "Composing", text |-> ime.buffer, ahead |-> 0, list |-> SizeOf(list)]
      BY <1>11, ComposingSession
    <2>6. [s EXCEPT !.list.selected = i] = [s EXCEPT !.list = SizeOf(chosen)]
      BY <1>9, <2>5 DEF SizeOf
    <2>7. QED BY <1>7, <1>8, <2>4, <2>6, CallTakes
  <1>12. QED BY <1>5, <1>10, <1>11

(* Finalizing commits the composition or accepts the segment.              *)
LEMMA FinalizeRefines ==
  ASSUME PInv, FinalizeCandidateSelection
  PROVE Promised!Next /\ Roomy(ime')
  <1> DEFINE s == SessionOf(ime)
  <1>1. HasItems(ime.candidates)
    BY DEF FinalizeCandidateSelection
  <1>2. CASE Composing /\ CommitComposition(SelectedText(ime.candidates), <<>>)
    <2>1. SelectedText(ime.candidates) \in Text /\ <<>> \in Seq(Text)
      BY <1>1, <1>2, ComposingFacts, SelectedTextType DEF PInv
    <2>2. Promised!Take(Promised!Commits(s.text)) /\ Roomy(ime')
      BY <1>2, <2>1, CommitCompositionSeen
    <2>3. Promised!HasVisibleList(s) /\ s.state = "Composing"
      BY <1>1, <1>2, ComposingSession
    <2>4. Promised!Commits(s.text) \in Promised!FinalizeCandidateSelection(s)
      BY <2>3 DEF Promised!FinalizeCandidateSelection
    <2>5. QED BY <2>2, <2>4, CallTakes
  <1>3. CASE Converting /\ AcceptSegment(SyncPreview(ime))
    <2>1. (\E o \in Promised!Accepted(s) : Promised!Take(o)) /\ Roomy(ime')
      BY <1>3, AcceptSelectedSeen
    <2>2. Promised!HasVisibleList(s) /\ s.state = "Converting"
      BY <1>3, ConvertingSession
    <2>3. Promised!FinalizeCandidateSelection(s) = Promised!Accepted(s)
      BY <2>2 DEF Promised!FinalizeCandidateSelection
    <2>4. QED BY <2>1, <2>3, CallTakes
  <1>4. QED BY <1>2, <1>3 DEF FinalizeCandidateSelection

(* Aborting hides the predictions, or leaves the conversion with           *)
(* predictions looked up anew.                                             *)
LEMMA AbortRefines ==
  ASSUME PInv, AbortCandidateSelection
  PROVE Promised!Next /\ Roomy(ime')
  <1> DEFINE s == SessionOf(ime)
  <1>1. CASE Composing /\ Respond(ClearCandidates(ime), TRUE)
    <2>1. Edit(ime, ime)
      BY <1>1, ComposingFacts, BufferFacts DEF PInv, Edit, Sound, SoundType
    <2>2. Promised!Take(Promised!Shows([s EXCEPT !.list = Promised!NoList], TRUE)) /\ Roomy(ime')
      BY <1>1, <2>1, CursorSeen, ComposingAnswers, NoSize
    <2>3. s.state = "Composing"
      BY <1>1, ComposingSession
    <2>4. Promised!Shows([s EXCEPT !.list = Promised!NoList], TRUE)
            \in Promised!AbortCandidateSelection(s)
      BY <2>3 DEF Promised!AbortCandidateSelection
    <2>5. QED BY <2>2, <2>4, CallTakes
  <1>2. CASE Converting /\ Respond(RefreshPredictions(LeaveConversion(ime)), TRUE)
    <2> DEFINE l == LeaveConversion(ime)
               p == RefreshPredictions(l)
    <2>1. /\ Sound(l) /\ Limited(l) /\ l.currentState = "Composing"
          /\ l.buffer = ime.buffer /\ l.buffer # <<>> /\ l.segments = <<>>
      BY <1>2, LeaveSeen
    <2>2. Respond(p, TRUE)
      BY <1>2
    <2> HIDE DEF l
    <2>3. Sound(p) /\ Phase(p) /\ p.currentState = "Composing" /\ p.buffer = ime.buffer
      BY <2>1, RefreshPredictionsSound DEF SameInput, Phase
    <2>4. Limited(p) /\ HasItems(p.candidates) /\ p.candidates.selectedIndex = 0
      BY <2>1, PredictionsShort
    <2> HIDE DEF p
    <2>5. SizeOf(p.candidates) \in Promised!FreshLists
      BY <2>3, <2>4, FreshSize DEF Limited, Sound, SoundType
    <2>6. Roomy(p)
      BY <2>3, <2>4 DEF Roomy
    <2>7. Promised!Take(Promised!Shows(SessionOf(p), TRUE)) /\ Roomy(ime')
      BY <2>2, <2>3, <2>6, RespondShows
    <2>8. SessionOf(p) = [state |-> "Composing", text |-> ime.buffer, ahead |-> 0,
                          list |-> SizeOf(p.candidates)]
      BY <2>3, SeenComposing
    <2>9. Promised!Shows(SessionOf(p), TRUE) \in Promised!Cancelled(s, Promised!FreshLists)
      BY <1>2, <2>5, <2>8, LeftSession
    <2>10. s.state = "Converting"
      BY <1>2, ConvertingSession
    <2>11. Promised!AbortCandidateSelection(s) = Promised!Cancelled(s, Promised!FreshLists)
      BY <2>10 DEF Promised!AbortCandidateSelection
    <2>12. QED BY <2>7, <2>9, <2>11, CallTakes
  <1>3. QED BY <1>1, <1>2 DEF AbortCandidateSelection

(* A discarded session leaves none.                                        *)
LEMMA DiscardRefines ==
  ASSUME PInv, DiscardActiveSession
  PROVE Promised!Next /\ Roomy(ime')
  <1> DEFINE r == ResetSession(ime)
             state == IF ime.currentState = "Direct" THEN "Direct" ELSE "Idle"
  <1>1. Sound(ime) /\ ime \in SoundType /\ ime.currentState \in States
    BY DEF PInv, IInv, Sound, SoundType
  <1>2. r \in SoundType /\ r.currentState = ime.currentState
    BY <1>1, ResetSound DEF Sound
  <1>3. r.buffer = <<>> /\ r.candidates = NoCandidates /\ r.segmentCandidates = <<>>
    BY <1>1 DEF ResetSession, ClearCandidates, InvalidateConversion, SoundType
  <1>4. ime' = [r EXCEPT !.currentState = state]
    BY <1>2 DEF DiscardActiveSession
  <1>5. out' = [isConsumed |-> TRUE, composition |-> NoComposition, candidates |-> NoCandidates,
                commit |-> <<>>, learned |-> <<>>]
    BY DEF DiscardActiveSession, PInv, IInv, OutputType
  <1> HIDE DEF r
  <1>6. state \in {"Direct", "Idle"} /\ (state = "Direct" <=> ime.currentState = "Direct")
    OBVIOUS
  <1> HIDE DEF state
  <1>7. /\ ime'.currentState = state /\ ime'.buffer = <<>> /\ ime'.candidates = NoCandidates
        /\ ime'.segmentCandidates = <<>>
    BY <1>2, <1>3, <1>4 DEF SoundType
  <1>8. SessionOf(ime)' = Promised!Empty(state)
    BY <1>6, <1>7, NoSize DEF SessionOf, Promised!Empty
  <1>9. AnswerOf(ime, out)' = [consumed |-> TRUE, action |-> "Clear"]
    BY <1>5, <1>6, <1>7 DEF AnswerOf
  <1>10. Promised!Discarded(SessionOf(ime)) = Promised!Empty(state)
    <2>1. SessionOf(ime).state = "Direct" <=> ime.currentState = "Direct"
      BY DEF SessionOf
    <2>2. QED BY <1>6, <2>1 DEF Promised!Discarded
  <1>11. Promised!Take(Promised!Shows(Promised!Discarded(SessionOf(ime)), TRUE))
    <2> DEFINE shown == Promised!Shows(Promised!Discarded(SessionOf(ime)), TRUE)
    <2>1. ~Promised!IsOpen(Promised!Empty(state))
      BY <1>6 DEF Promised!IsOpen, Promised!Empty
    <2>2. shown = [session |-> Promised!Empty(state), consumed |-> TRUE, action |-> "Clear",
                   sent |-> <<>>]
      BY <1>10, <2>1 DEF Promised!Shows
    <2> HIDE DEF shown
    <2>3. shown.session = Promised!Empty(state) /\ shown.consumed = TRUE /\ shown.action = "Clear"
      BY <2>2
    <2>4. SessionOf(ime)' = shown.session
          /\ AnswerOf(ime, out)' = [consumed |-> shown.consumed, action |-> shown.action]
      BY <1>8, <1>9, <2>3
    <2>5. Promised!Take(shown)
      BY <2>4 DEF Promised!Take
    <2>6. QED BY <2>5 DEF shown
  <1>12. Promised!Discard
    BY <1>11 DEF Promised!Discard
  <1>13. Roomy(ime')
    BY <1>6, <1>7, NoCandidatesShort DEF Roomy, Limited
  <1>14. QED BY <1>12, <1>13 DEF Promised!Next

-----------------------------------------------------------------------------
(* The refinement *)

(* The engine starts as the contract does.                                 *)
LEMMA InitRefines == Init => Promised!Init /\ Roomy(ime)
  <1> SUFFICES ASSUME Init PROVE Promised!Init /\ Roomy(ime)
    OBVIOUS
  <1>1. /\ ime.currentState = "Direct" /\ ime.buffer = <<>> /\ ime.candidates = NoCandidates
        /\ ime.segmentCandidates = <<>> /\ out.isConsumed = FALSE /\ out.commit = <<>>
    BY DEF Init
  <1>2. SessionOf(ime) = Promised!Empty("Direct")
    BY <1>1, NoSize DEF SessionOf, Promised!Empty
  <1>3. AnswerOf(ime, out) = [consumed |-> FALSE, action |-> "Clear"]
    BY <1>1 DEF AnswerOf
  <1>4. Roomy(ime)
    BY <1>1, NoCandidatesShort DEF Roomy, Limited
  <1>5. QED BY <1>2, <1>3, <1>4 DEF Promised!Init

(* Every action of the engine is a step of the contract.                   *)
LEMMA ActionRefines == PInv /\ Next => Promised!Next /\ Roomy(ime')
  <1> SUFFICES ASSUME PInv, Next PROVE Promised!Next /\ Roomy(ime')
    OBVIOUS
  <1>1. CASE ToggleIme \/ ModeLatin \/ ModeHiragana \/ PassThrough
    BY <1>1, ModeKeysRefine
  <1>2. CASE IdleOther \/ \E mark \in Marks \cup {LongVowel} : IdleCommit(mark)
    BY <1>2, IdleKeysRefine
  <1>3. CASE \E ch \in InputChars : IdleInsert(ch)
    BY <1>3, IdleInsertRefines
  <1>4. CASE \E ch \in InputChars \cup {LongVowel} : ComposingInsert(ch)
    BY <1>4, ComposingInsertRefines
  <1>5. CASE ComposingBackspace \/ ComposingDelete
    BY <1>5, EditKeysRefine
  <1>6. CASE ComposingLeft \/ ComposingRight
    BY <1>6, CursorKeysRefine
  <1>7. CASE ComposingEscape \/ ComposingUnhandled
    BY <1>7, EscapeRefines
  <1>8. CASE ComposingMove \/ ComposingBoundary
    BY <1>8, ComposingMoveRefines
  <1>9. CASE ComposingSpace
    BY <1>9, ComposingSpaceRefines
  <1>10. CASE StartConversion
    BY <1>10, StartConversionRefines
  <1>11. CASE \/ \E digit \in Digits : ComposingDigit(digit)
              \/ ComposingEnter
              \/ \E mark \in Marks : ComposingMark(mark)
    BY <1>11, ComposingCommitRefines
  <1>12. CASE ConvertingEnter \/ \E digit \in Digits : ConvertingDigit(digit)
    BY <1>12, ConvertingAcceptRefines
  <1>13. CASE ConvertingCancel
    BY <1>13, ConvertingCancelRefines
  <1>14. CASE ConvertingMove \/ ConvertingBoundary
    BY <1>14, ConvertingMoveRefines
  <1>15. CASE ConvertingLeft \/ ConvertingRight \/ MergeLeft \/ MergeRight \/ ConvertingUnhandled
    BY <1>15, SegmentKeysRefine
  <1>16. CASE \E i \in 0 .. Len(ime.candidates.items) - 1 : SetCandidateSelection(i)
    BY <1>16, SetCandidateSelectionRefines
  <1>17. CASE FinalizeCandidateSelection
    BY <1>17, FinalizeRefines
  <1>18. CASE AbortCandidateSelection
    BY <1>18, AbortRefines
  <1>19. CASE DiscardActiveSession
    BY <1>19, DiscardRefines
  <1>20. QED
    BY <1>1, <1>2, <1>3, <1>4, <1>5, <1>6, <1>7, <1>8, <1>9, <1>10, <1>11, <1>12, <1>13, <1>14,
       <1>15, <1>16, <1>17, <1>18, <1>19 DEF Next

(* A step of the specification is a step or a stutter of the contract, and *)
(* keeps the room the mapping needs.                                       *)
LEMMA StepRefines ==
  PInv /\ [Next]_vars => [Promised!Next]_(Promised!vars) /\ PInv'
  <1> SUFFICES ASSUME PInv, [Next]_vars PROVE [Promised!Next]_(Promised!vars) /\ PInv'
    OBVIOUS
  <1>1. IInv'
    BY StepInv DEF PInv
  <1>2. CASE Next
    BY <1>1, <1>2, ActionRefines DEF PInv
  <1>3. CASE UNCHANGED vars
    <2>1. ime' = ime /\ out' = out
      BY <1>3 DEF vars
    <2>2. Roomy(ime') /\ UNCHANGED Promised!vars
      BY <2>1 DEF PInv, Promised!vars
    <2>3. QED BY <1>1, <2>2 DEF PInv
  <1>4. QED BY <1>2, <1>3

(* ImeEngine implements EngineContract, for every lexicon and conversion:  *)
(* whatever key is pressed and whatever the candidate window calls, the    *)
(* session, the consumed flag and the action of the engine's output are    *)
(* ones the contract allows.  TextService is modelled, and its theorems    *)
(* are proved, against that contract alone.                                *)
THEOREM EngineKeepsItsPromise == Spec => KeepsItsPromise
  <1>1. Init => Promised!Init /\ PInv
    BY InitInv, InitRefines DEF PInv
  <1>2. QED BY <1>1, StepRefines, PTL DEF Spec, KeepsItsPromise, Promised!Spec
=============================================================================
