------------------------------ MODULE ImeEngine ------------------------------
(***************************************************************************)
(* engine::ImeEngine: the session state machine behind every key press and *)
(* every callback of the candidate window.                                 *)
(*                                                                         *)
(* `ime` is the engine's member variables, `out` the EngineOutput of the   *)
(* last call.  The operators from an engine record to an engine record are *)
(* the private methods of the same name; an action is one public call with *)
(* everything it does.                                                     *)
(*                                                                         *)
(* A text is a sequence of glyphs; a text made of several parts (the       *)
(* composition while converting, a commit) is kept as the sequence of its  *)
(* parts, so the cached display text and its ranges are one sequence.      *)
(* What a lookup returns is data: Conversion, Lexicon and Predicted are    *)
(* constants, for every state the dictionary can have learned its way to.  *)
(***************************************************************************)
EXTENDS CandidateList, CompositionBuffer

CONSTANTS
  InputChars,     \* isCompositionInputChar: letters, digits, apostrophe
  LongVowel,      \* what '-' inserts into a composition
  SmallKana,      \* isSmallKana: never the first glyph of a segment
  Marks,          \* what a symbol or a shifted letter commits
  Dictionaries,   \* the rankings learning can lead to
  Lexicon,        \* dictionary -> (<<reading, preceding>> -> ranked surfaces)
  Predicted,      \* dictionary -> (reading -> ranked surfaces)
  MaxText,        \* bound on the length of the buffer
  NotBuilt        \* std::nullopt of cachedConversion

Lists == [items : Seq(Text), selectedIndex : Nat]
Segment == [reading : Text, text : Text]

MaxSegmentLength == 8   \* kMaxSegmentLength
PageSize == 6           \* kCandidatePageSize

ASSUME GlyphAssumption ==
  /\ InputChars \subseteq Glyphs
  /\ LongVowel \in Glyphs
  /\ Marks \subseteq Glyphs
  /\ MaxText \in Nat
  /\ Dictionaries # {}

ASSUME LookupAssumption ==
  \A d \in Dictionaries :
    /\ \A k \in DOMAIN Lexicon[d] : Lexicon[d][k] \in Seq(Text) \ {<<>>}
    /\ \A r \in DOMAIN Predicted[d] : Predicted[d][r] \in Seq(Text) \ {<<>>}

VARIABLES
  ime,   \* the engine
  out    \* the last EngineOutput

vars == <<ime, out>>

States == {"Direct", "Idle", "Composing", "Converting", "Committed"}

-----------------------------------------------------------------------------
(* Lookups *)

(* precedingPartOfSpeechForSegment and precedingSurfaceForSegment: what a  *)
(* lookup for segment i sees of the segment before it; before the first    *)
(* segment it sees the dictionary's last commit.                           *)
Preceding(segments, i) == IF i = 1 THEN <<>> ELSE <<segments[i - 1]>>

(* A ranking learned for this context, else the reading's usual one, else *)
(* the reading itself.                                                     *)
Candidates(dictionary, reading, preceding) ==
  LET known == Lexicon[dictionary]
      inContext == <<reading, preceding>>
      usual == <<reading, <<>>>>
  IN IF inContext \in DOMAIN known THEN known[inContext]
     ELSE IF usual \in DOMAIN known THEN known[usual]
     ELSE <<reading>>

CandidatesFor(e, i) ==
  [items |-> Candidates(e.dictionary, e.segments[i].reading, Preceding(e.segments, i)),
   selectedIndex |-> 0]

Predictions(dictionary, reading) ==
  LET known == Predicted[dictionary]
  IN IF reading \in DOMAIN known THEN known[reading] ELSE <<reading>>

(* The cuts rebuildSegmentsFromReading can end with, as the positions its  *)
(* segments start at and the one behind the last.  Its dynamic program     *)
(* ranks the paths; which one wins depends on the scores, but every path   *)
(* has this shape.  Without any the reading stays whole.                   *)
Cuts(reading) ==
  LET n == Len(reading)
      isPath(cut) ==
        LET k == Len(cut) - 1 IN
        /\ cut[1] = 1 /\ cut[k + 1] = n + 1
        /\ \A i \in 1 .. k :
             /\ cut[i] < cut[i + 1] /\ cut[i + 1] - cut[i] <= MaxSegmentLength
             /\ reading[cut[i]] \notin SmallKana
      paths == {cut \in UNION {[1 .. k + 1 -> 1 .. n + 1] : k \in 1 .. n} : isPath(cut)}
  IN IF paths = {} THEN {<<1, n + 1>>} ELSE paths

-----------------------------------------------------------------------------
(* Candidates and cached conversion *)

ClearCandidates(e) == [e EXCEPT !.candidates = NoCandidates, !.primed = FALSE]

InvalidateConversion(e) == [e EXCEPT !.conversion = NotBuilt]

BuildConversion(e) ==
  IF e.conversion = NotBuilt THEN [e EXCEPT !.conversion = Convert(e.buffer)] ELSE e

(* buildReadingText(&getOrBuildConversion()) *)
Reading(e) == ReadingOf(BuildConversion(e).conversion)

RefreshPredictions(e) ==
  LET b == BuildConversion(e)
      items == IF b.buffer = <<>> \/ Reading(b) = <<>> THEN <<>>
               ELSE Predictions(b.dictionary, Reading(b))
  IN [b EXCEPT !.candidates = [items |-> items, selectedIndex |-> 0], !.primed = FALSE]

ResetSession(e) ==
  [ClearCandidates(InvalidateConversion(e)) EXCEPT
     !.buffer = <<>>, !.cursor = 0,
     !.segments = <<>>, !.segmentCandidates = <<>>,
     !.display = <<>>, !.displayDirty = TRUE, !.selected = 1]

-----------------------------------------------------------------------------
(* Segments *)

SanitizeSegmentIndex(e) ==
  [e EXCEPT !.selected = IF e.segments = <<>> THEN 1
                         ELSE IF @ > Len(e.segments) THEN Len(e.segments) ELSE @]

RebuildSegments(e, cut) ==
  LET reading == Reading(e)
      part(i) == SubSeq(reading, cut[i], cut[i + 1] - 1)
      count == Len(cut) - 1
  IN [e EXCEPT !.segments = [i \in 1 .. count |-> [reading |-> part(i), text |-> part(i)]],
               !.segmentCandidates = [i \in 1 .. count |-> NoCandidates],
               !.selected = 1, !.displayDirty = TRUE]

WithList(e, i, list) == [e EXCEPT !.segmentCandidates = [@ EXCEPT ![i] = list]]

ForgetSelection(e) == e                                            \* mutant
PersistSelection(e) ==
  LET s == SanitizeSegmentIndex(e) IN
  IF s.segments = <<>> \/ s.selected > Len(s.segmentCandidates) THEN s
  ELSE WithList(s, s.selected, s.candidates)

PrefetchNext(e) ==
  LET next == e.selected + 1
      list == e.segmentCandidates[next]
  IN IF next > Len(e.segments) \/ next > Len(e.segmentCandidates) THEN e
     ELSE WithList(e, next, Sanitize(IF HasItems(list) THEN list ELSE CandidatesFor(e, next)))

KeepFollowing(lists, i) == lists                                   \* mutant
InvalidateFollowing(lists, i) ==
  [j \in 1 .. Len(lists) |-> IF j > i THEN NoCandidates ELSE lists[j]]

(* previewSelectedCandidate: the highlighted candidate becomes the text of *)
(* the selected segment; a changed text outdates the lists after it.       *)
Preview(e) ==
  LET s == SanitizeSegmentIndex(e)
      i == s.selected
      list == Sanitize(s.candidates)
      text == IF HasItems(list) THEN SelectedText(list) ELSE s.segments[i].reading
  IN IF s.segments = <<>> THEN s
     ELSE PrefetchNext(
            [s EXCEPT !.candidates = list,
                      !.segments =
                        [@ EXCEPT ![i] = [reading |-> s.segments[i].reading, text |-> text]],
                      !.segmentCandidates = IF text = s.segments[i].text THEN @
                                            ELSE InvalidateFollowing(@, i),
                      !.displayDirty = TRUE])

SyncPreview(e) == Preview(PersistSelection(e))

RefreshSegmentCandidates(e) ==
  LET s == SanitizeSegmentIndex(e)
      i == s.selected
  IN IF s.segments = <<>> THEN ClearCandidates(s)
     ELSE IF i <= Len(s.segmentCandidates) /\ HasItems(s.segmentCandidates[i])
          THEN LET list == Sanitize(s.segmentCandidates[i])
               IN Preview([WithList(s, i, list) EXCEPT !.candidates = list])
          ELSE SyncPreview([s EXCEPT !.candidates = CandidatesFor(s, i)])

MoveToSegment(e, i) == RefreshSegmentCandidates([SyncPreview(e) EXCEPT !.selected = i])

(* advanceSegmentAfterSelection, when there is a segment to advance to. *)
IsLastSegment(e) == e.selected >= Len(e.segments)
Advance(e) == RefreshSegmentCandidates([PersistSelection(e) EXCEPT !.selected = @ + 1])

(* resizeSelectedSegment: segments i and i + 1 become one. *)
MergeKeepingNextReading(e, i) ==                                   \* mutant
  LET joined == e.segments[i].reading
  IN RefreshSegmentCandidates(ClearCandidates(
       [e EXCEPT
          !.segments = RemoveAt([@ EXCEPT ![i] = [reading |-> joined, text |-> joined]], i + 1),
          !.segmentCandidates = IF @ = <<>> THEN @
                                ELSE RemoveAt([@ EXCEPT ![i] = NoCandidates], i + 1),
          !.selected = i, !.displayDirty = TRUE]))

MergeAt(e, i) ==
  LET joined == e.segments[i].reading \o e.segments[i + 1].reading
  IN RefreshSegmentCandidates(ClearCandidates(
       [e EXCEPT
          !.segments = RemoveAt([@ EXCEPT ![i] = [reading |-> joined, text |-> joined]], i + 1),
          !.segmentCandidates = IF @ = <<>> THEN @
                                ELSE RemoveAt([@ EXCEPT ![i] = NoCandidates], i + 1),
          !.selected = i, !.displayDirty = TRUE]))

LeaveConversionKeepingSegments(e) ==                               \* mutant
  [ClearCandidates(e) EXCEPT !.currentState = "Composing", !.selected = 1]
LeaveConversion(e) ==
  [ClearCandidates(e) EXCEPT !.currentState = "Composing", !.segments = <<>>, !.selected = 1]

-----------------------------------------------------------------------------
(* EngineOutput *)

Readings(segments) == [i \in 1 .. Len(segments) |-> segments[i].reading]
Texts(segments) == [i \in 1 .. Len(segments) |-> segments[i].text]

NoComposition == [parts |-> <<>>, focus |-> 0]

EnsureDisplayOnce(e) ==                                            \* mutant
  IF e.display = <<>> THEN [e EXCEPT !.display = Texts(e.segments), !.displayDirty = FALSE] ELSE e
EnsureDisplay(e) ==
  IF e.displayDirty THEN [e EXCEPT !.display = Texts(e.segments), !.displayDirty = FALSE] ELSE e

(* What createOutput changes: populateComposition rebuilds a dirty display *)
(* cache, populateCandidates clamps the highlighted index.                 *)
Render(e) ==
  IF e.currentState \notin {"Composing", "Converting"} THEN e
  ELSE LET s == SanitizeSegmentIndex(e) IN
       [IF s.segments = <<>> THEN s ELSE EnsureDisplay(s)
          EXCEPT !.candidates = Sanitize(@)]

(* What it returns, for an engine that is already rendered. *)
Shown(e, conversion) ==
  IF \/ e.currentState \notin {"Composing", "Converting"}
     \/ e.buffer = <<>> /\ e.segments = <<>>
  THEN NoComposition
  ELSE IF e.segments # <<>> THEN [parts |-> e.display, focus |-> e.selected]
       ELSE [parts |-> <<ReadingOf(conversion)>>, focus |-> 0]

Listed(e) == IF e.currentState \in {"Composing", "Converting"} THEN e.candidates ELSE NoCandidates

Answer(e, conversion, consumed) ==
  /\ ime' = Render(e)
  /\ out' = [isConsumed |-> consumed,
             composition |-> Shown(Render(e), conversion),
             candidates |-> Listed(Render(e)),
             commit |-> <<>>, learned |-> <<>>]

(* createOutput(state, consumed, &getOrBuildConversion()) *)
Respond(e, consumed) ==
  LET b == BuildConversion(e) IN Answer(b, b.conversion, consumed)

(* createOutput(state, consumed): no conversion is passed, so a composing  *)
(* engine converts its buffer anew.                                        *)
RespondFresh(e, consumed) == Answer(e, Convert(e.buffer), consumed)

(* The dictionary after recordCommit of each learned segment. *)
Learned(dictionary, learned) == IF learned = <<>> THEN {dictionary} ELSE Dictionaries

(* A session that ends in a commit: `learned` reaches the dictionary, the  *)
(* session is reset, the output carries the commit and nothing else.       *)
CommitSession(e, parts, learned) ==
  \E d \in Learned(e.dictionary, learned) :
    /\ ime' = [ResetSession(e) EXCEPT !.currentState = "Committed", !.dictionary = d]
    /\ out' = [isConsumed |-> TRUE, composition |-> NoComposition, candidates |-> NoCandidates,
               commit |-> parts, learned |-> learned]

-----------------------------------------------------------------------------
(* Mode keys, and keys outside a session *)

Init ==
  /\ ime = [currentState |-> "Direct", buffer |-> <<>>, cursor |-> 0,
            dictionary |-> CHOOSE d \in Dictionaries : TRUE,
            candidates |-> NoCandidates, primed |-> FALSE, conversion |-> NotBuilt,
            segments |-> <<>>, segmentCandidates |-> <<>>,
            display |-> <<>>, displayDirty |-> TRUE, selected |-> 1]
  /\ out = [isConsumed |-> FALSE, composition |-> NoComposition, candidates |-> NoCandidates,
            commit |-> <<>>, learned |-> <<>>]

In(e, state) == [e EXCEPT !.currentState = state]

ToggleIme ==
  IF ime.currentState = "Direct" THEN RespondFresh(In(ime, "Idle"), TRUE)
  ELSE RespondFresh(ResetSession(In(ime, "Direct")), TRUE)

ModeLatin == RespondFresh(ResetSession(In(ime, "Direct")), TRUE)

ModeHiragana ==
  RespondFresh(IF ime.currentState = "Direct" THEN In(ime, "Idle") ELSE ime, TRUE)

(* A key release, or any key in direct mode. *)
PassThrough == RespondFresh(ime, FALSE)

(* After a commit the next key finds the engine idle. *)
Ready == ime.currentState \in {"Idle", "Committed"}

IdleOther == Ready /\ RespondFresh(In(ime, "Idle"), FALSE)

(* Symbols and shifted letters go straight to the document. *)
IdleCommit(mark) ==
  /\ Ready
  /\ ime' = In(ime, "Committed")
  /\ out' = [isConsumed |-> TRUE, composition |-> NoComposition, candidates |-> NoCandidates,
             commit |-> <<<<mark>>>>, learned |-> <<>>]

(* tryInsertCharacter; Insert itself cannot fail while the cursor stays    *)
(* within the buffer, so its out_of_range branch is never taken.           *)
InsertedKeepingConversion(e, ch) == RefreshPredictions(Insert(e, ch))  \* mutant
Inserted(e, ch) == RefreshPredictions(InvalidateConversion(Insert(e, ch)))

IdleInsert(ch) ==
  /\ Ready /\ Len(ime.buffer) < MaxText
  /\ Respond(Inserted(In(ime, "Composing"), ch), TRUE)

-----------------------------------------------------------------------------
(* Composing *)

Composing == ime.currentState = "Composing"

ComposingInsert(ch) ==
  /\ Composing /\ Len(ime.buffer) < MaxText
  /\ Respond(Inserted(ime, ch), TRUE)

(* refreshCompositionAfterBufferEdit *)
AfterEdit(e) ==
  LET edited == InvalidateConversion(e) IN
  IF edited.buffer = <<>> THEN RespondFresh(In(ClearCandidates(edited), "Idle"), TRUE)
  ELSE Respond(RefreshPredictions(edited), TRUE)

ComposingBackspace == Composing /\ AfterEdit(Backspace(ime))
ComposingDelete == Composing /\ AfterEdit(DeleteForward(ime))

ComposingLeft == Composing /\ Respond(ClearCandidates(MoveCursorLeft(ime)), TRUE)
ComposingRight == Composing /\ Respond(ClearCandidates(MoveCursorRight(ime)), TRUE)

EscapeForApplication ==                                            \* mutant
  Composing /\ Respond(ClearCandidates(ime), FALSE)
ComposingEscape ==
  /\ Composing
  /\ IF HasItems(ime.candidates) THEN Respond(ClearCandidates(ime), TRUE)
                                 ELSE Respond(ime, FALSE)

ComposingUnhandled == Composing /\ Respond(ime, FALSE)

Prime(e, list) == [e EXCEPT !.candidates = list, !.primed = TRUE]

(* moveCompositionCandidateSelection: `list` is the moved selection; some  *)
(* keys bring hidden predictions back instead.                             *)
MovePrediction(list, reopenIfHidden) ==
  LET reopened == RefreshPredictions(ime) IN
  IF HasItems(ime.candidates) THEN Respond(Prime(ime, list), TRUE)
  ELSE IF reopenIfHidden THEN Respond(reopened, HasItems(reopened.candidates))
  ELSE Respond(ime, FALSE)

ComposingMove ==
  /\ Composing
  /\ \/ MovePrediction(MoveSelection(ime.candidates, 1), TRUE)                  \* Down, Tab
     \/ MovePrediction(MoveSelection(ime.candidates, -1), FALSE)                \* Up, Shift+Tab
     \/ MovePrediction(MoveSelectionClamped(ime.candidates, PageSize), TRUE)    \* PageDown
     \/ MovePrediction(MoveSelectionClamped(ime.candidates, -PageSize), FALSE)  \* PageUp

ComposingBoundary ==
  /\ Composing
  /\ \E last \in BOOLEAN : MovePrediction(SelectBoundary(ime.candidates, last), FALSE)

ComposingSpace ==
  LET reopened == RefreshPredictions(ime) IN
  /\ Composing
  /\ IF ~HasItems(ime.candidates)
     THEN Respond(IF HasItems(reopened.candidates) THEN Prime(reopened, reopened.candidates)
                  ELSE ClearCandidates(reopened), TRUE)
     ELSE Respond(Prime(ime, IF ime.primed THEN MoveSelection(ime.candidates, 1)
                             ELSE ime.candidates), TRUE)

(* Shift+Space *)
StartConversion ==
  /\ Composing
  /\ LET b == BuildConversion(ime) IN
     \E cut \in Cuts(Reading(b)) :
       Respond(In(RefreshSegmentCandidates(RebuildSegments(b, cut)), "Converting"), TRUE)

LearnBuffer(text, suffix) ==                                       \* mutant
  CommitSession(ime, <<text>> \o suffix, <<[reading |-> ime.buffer, text |-> text]>>)
(* A commit of the composition as `text`, followed by `suffix`. *)
CommitComposition(text, suffix) ==
  CommitSession(ime, <<text>> \o suffix, <<[reading |-> Reading(ime), text |-> text]>>)

Highlighted(otherwise) ==
  IF HasItems(ime.candidates) THEN SelectedText(ime.candidates) ELSE otherwise

(* A digit key that types no digit commits that candidate. *)
ComposingDigit(digit) ==
  /\ Composing /\ CanSelect(ime.candidates, digit)
  /\ CommitComposition(SelectedText(Select(ime.candidates, digit)), <<>>)

EnterHighlighted ==                                                \* mutant
  Composing /\ CommitComposition(Highlighted(Reading(ime)), <<>>)
(* commitCurrentCompositionText: a candidate the user has not moved to is  *)
(* not taken.                                                              *)
ComposingEnter ==
  /\ Composing
  /\ CommitComposition(IF ime.primed THEN Highlighted(Reading(ime)) ELSE Reading(ime), <<>>)

(* A symbol ends the composition; here the first candidate is taken even   *)
(* when the user never moved to it.                                        *)
ComposingMark(mark) ==
  Composing /\ CommitComposition(Highlighted(Reading(ime)), <<<<mark>>>>)

-----------------------------------------------------------------------------
(* Converting *)

Converting == ime.currentState = "Converting"

CommitReadings(e) ==                                               \* mutant
  CommitSession(e, Readings(e.segments), e.segments)
(* commitCurrentConversion *)
CommitConversion(e) == CommitSession(e, Texts(e.segments), e.segments)

AcceptSegment(e) ==
  IF IsLastSegment(e) THEN CommitConversion(PersistSelection(e)) ELSE RespondFresh(Advance(e), TRUE)

Highlight(list) == SyncPreview([ime EXCEPT !.candidates = list])

ConvertingEnter == Converting /\ AcceptSegment(SyncPreview(ime))

ConvertingDigit(digit) ==
  /\ Converting /\ CanSelect(ime.candidates, digit)
  /\ AcceptSegment(Highlight(Select(ime.candidates, digit)))

ConvertingCancel == Converting /\ Respond(LeaveConversion(ime), TRUE)

ConvertingMove ==
  /\ Converting
  /\ \/ RespondFresh(Highlight(MoveSelection(ime.candidates, 1)), TRUE)                 \* Space, Down
     \/ RespondFresh(Highlight(MoveSelection(ime.candidates, -1)), TRUE)                \* Up
     \/ RespondFresh(Highlight(MoveSelectionClamped(ime.candidates, PageSize)), TRUE)   \* PageDown
     \/ RespondFresh(Highlight(MoveSelectionClamped(ime.candidates, -PageSize)), TRUE)  \* PageUp

ConvertingBoundary ==
  /\ Converting
  /\ \E last \in BOOLEAN : RespondFresh(Highlight(SelectBoundary(ime.candidates, last)), TRUE)

(* Left and Right *)
ConvertingLeft ==
  /\ Converting
  /\ IF ime.selected = 1 THEN RespondFresh(ime, FALSE)
     ELSE RespondFresh(MoveToSegment(ime, ime.selected - 1), TRUE)
ConvertingRight ==
  /\ Converting
  /\ IF IsLastSegment(ime) THEN RespondFresh(ime, FALSE)
     ELSE RespondFresh(MoveToSegment(ime, ime.selected + 1), TRUE)

(* Shift+Left and Shift+Right *)
MergeLeft ==
  /\ Converting
  /\ IF ime.selected = 1 THEN RespondFresh(ime, FALSE)
     ELSE RespondFresh(MergeAt(ime, ime.selected - 1), TRUE)
MergeRight ==
  /\ Converting
  /\ IF IsLastSegment(ime) THEN RespondFresh(ime, FALSE)
     ELSE RespondFresh(MergeAt(ime, ime.selected), TRUE)

(* Every other key, a digit that numbers no candidate included. *)
ConvertingUnhandled == Converting /\ RespondFresh(ime, FALSE)

-----------------------------------------------------------------------------
(* Calls of the candidate window.  Where the source answers nullopt it has *)
(* changed nothing.                                                        *)

SetCandidateSelection(i) ==
  /\ CanSelect(ime.candidates, i)
  /\ LET chosen == Select(ime.candidates, i) IN
     \/ Converting /\ RespondFresh(Highlight(chosen), TRUE)
     \/ Composing /\ Respond(Prime(ime, chosen), TRUE)

FinalizeCandidateSelection ==
  /\ HasItems(ime.candidates)
  /\ \/ Composing /\ CommitComposition(SelectedText(ime.candidates), <<>>)
     \/ Converting /\ AcceptSegment(SyncPreview(ime))

AbortCandidateSelection ==
  \/ Composing /\ Respond(ClearCandidates(ime), TRUE)
  \/ Converting /\ Respond(RefreshPredictions(LeaveConversion(ime)), TRUE)

(* The caller closes the composition itself; nothing is answered.          *)
DiscardActiveSession ==
  /\ ime' = [ResetSession(ime) EXCEPT !.currentState = IF @ = "Direct" THEN @ ELSE "Idle"]
  /\ out' = [out EXCEPT !.isConsumed = TRUE, !.composition = NoComposition,
                        !.candidates = NoCandidates, !.commit = <<>>, !.learned = <<>>]

-----------------------------------------------------------------------------
Digits == 0 .. 9

Next ==
  \/ ToggleIme \/ ModeLatin \/ ModeHiragana \/ PassThrough
  \/ IdleOther
  \/ \E mark \in Marks \cup {LongVowel} : IdleCommit(mark)
  \/ \E ch \in InputChars : IdleInsert(ch)
  \/ \E ch \in InputChars \cup {LongVowel} : ComposingInsert(ch)
  \/ ComposingBackspace \/ ComposingDelete \/ ComposingLeft \/ ComposingRight
  \/ ComposingEscape \/ ComposingMove \/ ComposingBoundary \/ ComposingSpace
  \/ StartConversion \/ ComposingEnter \/ ComposingUnhandled
  \/ \E digit \in Digits : ComposingDigit(digit)
  \/ \E mark \in Marks : ComposingMark(mark)
  \/ ConvertingEnter \/ ConvertingCancel \/ ConvertingMove \/ ConvertingBoundary
  \/ ConvertingLeft \/ ConvertingRight \/ MergeLeft \/ MergeRight \/ ConvertingUnhandled
  \/ \E digit \in Digits : ConvertingDigit(digit)
  \/ \E i \in 0 .. Len(ime.candidates.items) - 1 : SetCandidateSelection(i)
  \/ FinalizeCandidateSelection \/ AbortCandidateSelection \/ DiscardActiveSession

Spec == Init /\ [][Next]_vars

-----------------------------------------------------------------------------
(* Correctness *)

EngineType ==
  [currentState : States, buffer : Text, cursor : Nat, dictionary : Dictionaries,
   candidates : Lists, primed : BOOLEAN, conversion : Converted \cup {NotBuilt},
   segments : Seq(Segment), segmentCandidates : Seq(Lists),
   display : Seq(Text), displayDirty : BOOLEAN, selected : Nat \ {0}]

OutputType ==
  [isConsumed : BOOLEAN, composition : [parts : Seq(Text), focus : Nat],
   candidates : Lists, commit : Seq(Text), learned : Seq(Segment)]

(* Every member of the engine and of its output has its type.              *)
TypeOK == ime \in EngineType /\ out \in OutputType

HighlightInside(list) == HasItems(list) => list.selectedIndex < Len(list.items)

(* The cursor stays within the buffer and every highlighted index within   *)
(* its list, so that neither Buffer::insert nor SelectedText ever sees an  *)
(* index outside.                                                          *)
IndicesInside ==
  /\ ime.cursor <= Len(ime.buffer)
  /\ HighlightInside(ime.candidates)
  /\ \A i \in 1 .. Len(ime.segmentCandidates) : HighlightInside(ime.segmentCandidates[i])

(* Outside a session nothing of one is left: no buffer, no segments, no    *)
(* candidate list a later key or a late call of the candidate window could *)
(* still commit.                                                           *)
SessionClosed ==
  ime.currentState \in {"Direct", "Idle", "Committed"} =>
    /\ ime.buffer = <<>>
    /\ ime.segments = <<>>
    /\ ~HasItems(ime.candidates) /\ ~ime.primed

(* A session has something to convert, and segments exactly while it       *)
(* converts.                                                               *)
SessionOpen ==
  /\ Composing \/ Converting => ime.buffer # <<>>
  /\ Converting <=> ime.segments # <<>>

(* The cached conversion is never that of an earlier buffer.               *)
ConversionCoherent == ime.conversion # NotBuilt => ime.conversion = Convert(ime.buffer)

(* However the user cut, merged and moved, the segments still spell the    *)
(* reading that was typed, each has its own candidate list, and one of     *)
(* them is selected.                                                       *)
SegmentsCoverReading ==
  Converting =>
    /\ FlattenSeq(Readings(ime.segments)) = ReadingOf(Convert(ime.buffer))
    /\ Len(ime.segmentCandidates) = Len(ime.segments)
    /\ ime.selected <= Len(ime.segments)

(* The selected segment reads as its highlighted candidate, and the list   *)
(* the user moves in is the one kept for that segment.                     *)
SelectionShown ==
  Converting =>
    /\ ime.segments[ime.selected].text = Highlighted(ime.segments[ime.selected].reading)
    /\ ime.segmentCandidates[ime.selected] = ime.candidates

(* What the user sees while converting is the current segments, never a    *)
(* display cache left over from another cut or another conversion.         *)
DisplayCoherent ==
  Converting => out.composition = [parts |-> Texts(ime.segments), focus |-> ime.selected]

(* A primed selection is one in a list the user sees.                      *)
PrimedVisible == Composing /\ ime.primed => HasItems(ime.candidates)

(* Accepting the last segment, with Enter or in the candidate window,      *)
(* commits the composition the user was looking at.                        *)
ConversionCommitsWhatIsShown ==
  [][Converting /\ ime'.currentState = "Committed"
       /\ (ConvertingEnter \/ FinalizeCandidateSelection)
         => out'.commit = out.composition.parts]_vars

(* Enter commits the kana on screen unless the user moved to a candidate.  *)
EnterCommitsWhatIsShown ==
  [][ime'.currentState = "Committed" /\ ComposingEnter =>
       out'.commit = IF ime.primed THEN <<SelectedText(out.candidates)>>
                     ELSE out.composition.parts]_vars

(* The dictionary learns what was committed, word by word, under readings  *)
(* that together are the reading that was typed.                           *)
LearnsWhatItCommits ==
  [][out'.learned # <<>> =>
       /\ FlattenSeq(Readings(out'.learned)) = ReadingOf(Convert(ime.buffer))
       /\ IsPrefix(Texts(out'.learned), out'.commit)]_vars

(* Leaving a conversion brings back the whole reading, whatever had been   *)
(* chosen, cut or merged.                                                  *)
CancelRestoresReading ==
  [][Converting /\ ime'.currentState = "Composing" =>
       out'.composition.parts = <<FlattenSeq(Readings(ime.segments))>>]_vars

(* The candidates of every segment are those for the text now standing     *)
(* before it.                                                              *)
FollowingCandidatesFollowContext ==
  Converting =>
    \A i \in 2 .. Len(ime.segments) :
      HasItems(ime.segmentCandidates[i]) =>
        ime.segmentCandidates[i].items =
          Candidates(ime.dictionary, ime.segments[i].reading, Preceding(ime.segments, i))

(* Only a merge of two segments can leave such a list behind; choosing,    *)
(* moving and accepting keep every list in step with its context.          *)
OnlyMergeOutdatesCandidates ==
  [][FollowingCandidatesFollowContext /\ ~FollowingCandidatesFollowContext'
       => MergeLeft \/ MergeRight]_vars
=============================================================================
