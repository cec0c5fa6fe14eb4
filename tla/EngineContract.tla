---------------------------- MODULE EngineContract ----------------------------
(***************************************************************************)
(* The abstract specification of ImeEngine: any sequence of keys, calls of *)
(* the candidate window and discarded sessions, each answered as           *)
(* EngineSession allows.                                                   *)
(***************************************************************************)
EXTENDS EngineSession

VARIABLES
  session,   \* what the engine holds
  answer     \* what its last output asks for

vars == <<session, answer>>

Take(o) ==
  /\ session' = o.session
  /\ answer' = [consumed |-> o.consumed, action |-> o.action]

Init ==
  /\ session = Empty("Direct")
  /\ answer = [consumed |-> FALSE, action |-> "Clear"]

PressKey == \E key \in Keys, ch \in Chars : \E o \in Outcomes(session, key, ch) : Take(o)

CallFromWindow ==
  \/ \E i \in 0 .. MaxList : \E o \in SetCandidateSelection(session, i) : Take(o)
  \/ \E o \in FinalizeCandidateSelection(session) : Take(o)
  \/ \E o \in AbortCandidateSelection(session) : Take(o)

Discard == Take(Shows(Discarded(session), TRUE))

Next == PressKey \/ CallFromWindow \/ Discard

Spec == Init /\ [][Next]_vars
=============================================================================
