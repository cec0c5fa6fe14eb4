---------------------------- MODULE EnginePromise ----------------------------
(***************************************************************************)
(* ImeEngine as tsf::TextService sees it, and what it promises: a          *)
(* refinement mapping from the engine's members and its last output to the *)
(* session and the answer of EngineContract.                               *)
(***************************************************************************)
EXTENDS ImeEngine

CONSTANT MaxList   \* the most candidates a lookup returns

(* Kana never need more glyphs than the letters they were typed with: so   *)
(* do all entries of romaji_table.cpp, and a doubled letter or an n leaves *)
(* one kana.                                                               *)
ASSUME LimitAssumption ==
  /\ MaxList \in Nat \ {0}
  /\ \A d \in Dictionaries :
       /\ \A k \in DOMAIN Lexicon[d] : Len(Lexicon[d][k]) <= MaxList
       /\ \A r \in DOMAIN Predicted[d] : Len(Predicted[d][r]) <= MaxList
  /\ \A b \in DOMAIN Conversion : Len(ReadingOf(Conversion[b])) <= Len(b)

SizeOf(list) == [count |-> Len(list.items), selected |-> list.selectedIndex]

(* hasActiveSession, hasVisibleCandidateWindow, getState *)
SessionOf(e) ==
  [state |-> IF e.currentState = "Committed" THEN "Idle" ELSE e.currentState,
   text |-> e.buffer,
   ahead |-> IF e.currentState = "Converting" THEN Len(e.segments) - e.selected ELSE 0,
   list |-> SizeOf(e.candidates)]

AnswerOf(e, o) ==
  [consumed |-> o.isConsumed,
   action |-> IF o.commit # <<>> THEN "Commit"
              ELSE IF e.currentState \in {"Composing", "Converting"} THEN "Update" ELSE "Clear"]

Promised == INSTANCE EngineContract
              WITH Chars <- Glyphs, session <- SessionOf(ime), answer <- AnswerOf(ime, out)

(* ImeEngine keeps what EngineContract promises the text service: no key   *)
(* and no call of the candidate window ends, commits, grows or shrinks a   *)
(* session in any other way, or consumes a key it answers nothing for.     *)
KeepsItsPromise == Promised!Spec
=============================================================================
