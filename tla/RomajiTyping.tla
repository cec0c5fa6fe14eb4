---------------------------- MODULE RomajiTyping ----------------------------
(***************************************************************************)
(* Typing and editing romaji while composing: the buffer, its cursor, and  *)
(* the kana and unfinished romaji the user sees for them.                  *)
(***************************************************************************)
EXTENDS RomajiConverter, CompositionBuffer

CONSTANTS
  Keys,      \* characters typed into the composition
  Digits,    \* those of them that are digits
  MaxText    \* bound on the length of the buffer

(* Every letter, kana and mark is a glyph; a vowel is a lower-case letter  *)
(* that stands for itself (isVowel, toHalfWidthLowerAsciiChar); and what   *)
(* the buffer converts to is what the converter says.                      *)
ASSUME TypingAssumption ==
  /\ MaxText \in Nat
  /\ Keys \cup {N, SmallTsu, Hatsuon} \subseteq Glyphs
  /\ \A ch \in Keys \cap DOMAIN Lower : Lower[ch] \in Glyphs
  /\ \A spelling \in DOMAIN Table : Table[spelling] \in Text
  /\ Vowels \cap DOMAIN Lower = {}
  /\ Conversion = [b \in BoundedSeq(Keys, MaxText) |-> ConvertRomajiToHiragana(b)]

VARIABLE input   \* [buffer, cursor]

Init == input = [buffer |-> <<>>, cursor |-> 0]

Typed(ch) == Len(input.buffer) < MaxText /\ input' = Insert(input, ch)
BackspaceKey == input.buffer # <<>> /\ input' = Backspace(input)
DeleteKey == input.buffer # <<>> /\ input' = DeleteForward(input)
LeftKey == input.buffer # <<>> /\ input' = MoveCursorLeft(input)
RightKey == input.buffer # <<>> /\ input' = MoveCursorRight(input)

Next ==
  \/ \E ch \in Keys : Typed(ch)
  \/ BackspaceKey \/ DeleteKey \/ LeftKey \/ RightKey

Spec == Init /\ [][Next]_input

-----------------------------------------------------------------------------
Shown(e) == ReadingOf(Convert(e.buffer))
AtEnd == input.cursor = Len(input.buffer)

(* Kana once confirmed stay: typing at the end only adds to them, and      *)
(* Backspace at the end only takes from their end, whatever is pending.    *)
ConfirmedIsStable ==
  [][AtEnd =>
       LET before == Convert(input.buffer).confirmed
           after == Convert(input'.buffer).confirmed
       IN IF Len(input'.buffer) > Len(input.buffer) THEN IsPrefix(before, after)
          ELSE IsPrefix(after, before)]_input

(* Every character typed is accounted for, in order: the confirmed kana    *)
(* spell a beginning of the buffer, and the composing text is the rest of  *)
(* it, as kana or as typed.                                                *)
NothingTypedIsLost == IsParse(input.buffer, Convert(input.buffer))

(* Every digit typed is on screen.                                         *)
DigitsAreShown ==
  LET digits(s) == SelectSeq(s, LAMBDA ch : ch \in Digits)
  IN digits(Shown(input)) = digits(input.buffer)
=============================================================================
