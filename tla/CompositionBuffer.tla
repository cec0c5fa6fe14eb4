-------------------------- MODULE CompositionBuffer --------------------------
(***************************************************************************)
(* composition::Buffer and the backspace over a whole kana that the engine *)
(* builds on it.  The operators take any record with the fields `buffer`   *)
(* and `cursor`; the cursor counts the characters before it.               *)
(***************************************************************************)
EXTENDS Integers, SequencesExt

CONSTANTS
  Glyphs,      \* every character a text is made of
  Conversion   \* romaji buffer -> [confirmed, composing]

Text == Seq(Glyphs)
Converted == [confirmed : Text, composing : Text]

(* What is known of a buffer outside the domain is that nothing of it      *)
(* converts; with a total Conversion the case does not arise.              *)
Convert(buffer) ==
  IF buffer \in DOMAIN Conversion THEN Conversion[buffer]
  ELSE [confirmed |-> <<>>, composing |-> buffer]

ReadingOf(conversion) == conversion.confirmed \o conversion.composing

(* The converter drops nothing: what is typed shows. *)
ASSUME ConversionAssumption ==
  \A b \in DOMAIN Conversion :
    /\ b \in Text
    /\ Conversion[b] \in Converted
    /\ b # <<>> => ReadingOf(Conversion[b]) # <<>>

-----------------------------------------------------------------------------
MaxRomajiUnitLength == 4   \* kMaxRomajiUnitLength

Insert(e, ch) == [e EXCEPT !.buffer = InsertAt(@, e.cursor + 1, ch), !.cursor = @ + 1]

EraseAt(e, i) == [e EXCEPT !.buffer = RemoveAt(@, i)]

RawBackspace(e) ==
  IF e.cursor = 0 THEN e ELSE [EraseAt(e, e.cursor) EXCEPT !.cursor = @ - 1]

DeleteForward(e) == IF e.cursor >= Len(e.buffer) THEN e ELSE EraseAt(e, e.cursor + 1)

MoveCursorLeft(e) == [e EXCEPT !.cursor = IF @ = 0 THEN 0 ELSE @ - 1]
MoveCursorRight(e) == [e EXCEPT !.cursor = IF @ >= Len(e.buffer) THEN @ ELSE @ + 1]

(* tryBackspaceCompositionUnit: the lengths of the buffer's end that spell *)
(* a kana of their own, one the rest of the buffer does not depend on.     *)
Units(e) ==
  LET n == Len(e.buffer)
      suffix(k) == Convert(SubSeq(e.buffer, n - k + 1, n))
      prefix(k) == Convert(SubSeq(e.buffer, 1, n - k))
  IN IF e.cursor # n THEN {}
     ELSE {k \in 1 .. MaxRomajiUnitLength :
             /\ k <= n
             /\ suffix(k).composing = <<>> /\ suffix(k).confirmed # <<>>
             /\ ReadingOf(Convert(e.buffer)) = ReadingOf(prefix(k)) \o suffix(k).confirmed}

RemoveLastKeepingCursor(e, k) == [e EXCEPT !.buffer = SubSeq(@, 1, Len(@) - k)]  \* mutant
RemoveLast(e, k) ==
  [e EXCEPT !.buffer = SubSeq(@, 1, Len(@) - k), !.cursor = @ - k]

(* What the Backspace key does to the buffer. *)
Backspace(e) ==
  LET units == Units(e) IN
  IF units = {} THEN RawBackspace(e)
  ELSE RemoveLast(e, CHOOSE k \in units : \A j \in units : k <= j)
=============================================================================
