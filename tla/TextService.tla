----------------------------- MODULE TextService -----------------------------
(***************************************************************************)
(* tsf::TextService: what stands between the engine and the host.  It      *)
(* turns keys into calls of the engine, the engine's outputs into edit     *)
(* sessions on the host's document and into the candidate UI element, and  *)
(* follows focus, contexts and compositions the host may end on its own.   *)
(*                                                                         *)
(* All of it runs on one thread, so each entry point is one action.  The   *)
(* host is external: it grants an edit session at once or, if asked to be  *)
(* asynchronous, later; any of its calls may fail.  A handler is an        *)
(* operator that gives every result the host's answers leave possible.     *)
(*                                                                         *)
(* A text is the set of its characters: what matters of the document is    *)
(* how often each typed character stands in it.                            *)
(***************************************************************************)
EXTENDS EngineSession, CandidateUiElement, FiniteSets

CONSTANTS
  Contexts,    \* ITfContext; a document manager is named by its top context
  NoContext,   \* nullptr
  Configs,     \* the settings files there may be
  NoElement,   \* no candidate UI element
  NoChar,      \* a key that prints nothing
  MaxQueued,   \* bound on the edit sessions the host keeps waiting
  MaxFaults    \* bound on the calls of the host that fail

ASSUME SettingsAssumption ==
  Configs \subseteq [fullWidth : BOOLEAN, commitsOnFocusLoss : BOOLEAN,
                     escapeCommits : BOOLEAN, backspaceCommits : BOOLEAN]

ASSUME BoundsAssumption ==
  /\ MaxList \in Nat /\ MaxQueued \in Nat /\ MaxFaults \in Nat
  /\ IsFiniteSet(Chars)
  /\ NoContext \notin Contexts

VARIABLES
  active,    \* activated by the host
  config,    \* the settings read at activation
  engine,    \* the engine's session, kept between activations
  doc,       \* the active composition, the documents, waiting edit sessions
  element,   \* the registered candidate UI element
  focus,     \* focusedDocumentManager and focusedContext
  open,      \* the contexts the host has open
  sinks      \* the contexts with an advised composition sink

vars == <<active, config, engine, doc, element, focus, open, sinks>>

NoComposition == [context |-> NoContext, text |-> {}]

EditSessions ==
  [context : Contexts, action : {"Update", "Clear", "Commit"}, text : SUBSET Chars]

Copies == 0 .. 2   \* twice is as bad as more

TypeOK ==
  /\ active \in BOOLEAN
  /\ config \in Configs
  /\ engine \in [state : {"Direct", "Idle", "Composing", "Converting"},
                 text : BoundedSeq(Chars, Cardinality(Chars)), ahead : 0 .. Cardinality(Chars),
                 list : Lists]
  /\ doc.composition.context \in Contexts \cup {NoContext}
  /\ doc.composition.text \subseteq Chars
  /\ doc.plain \in [Chars -> Copies]
  /\ doc.left \in BOOLEAN
  /\ \A i \in 1 .. Len(doc.queue) : doc.queue[i] \in EditSessions
  /\ Len(doc.queue) \in 0 .. MaxQueued
  /\ doc.faults \in 0 .. MaxFaults
  /\ element = NoElement \/ element \in [count : 0 .. MaxList, selected : 0 .. MaxList,
       start : 0 .. MaxList, pages : BoundedSeq(0 .. MaxList, MaxList), shown : BOOLEAN]
  /\ focus \in [manager : Contexts \cup {NoContext}, context : Contexts \cup {NoContext}]
  /\ open \in SUBSET Contexts
  /\ sinks \in SUBSET Contexts

-----------------------------------------------------------------------------
(* The document.  Results carry the document left behind and S_OK or not.  *)

Ok(d) == [doc |-> d, ok |-> TRUE]
Failed(d) == [doc |-> d, ok |-> FALSE]

(* A call of the host that fails. *)
Faults(d) == IF d.faults < MaxFaults THEN {[d EXCEPT !.faults = @ + 1]} ELSE {}

Put(plain, text) ==
  [ch \in Chars |-> IF ch \in text /\ plain[ch] < 2 THEN plain[ch] + 1 ELSE plain[ch]]

HasComposition(d) == d.composition # NoComposition

(* releaseActiveComposition forgets the composition without ending it: its *)
(* text stays where it is, and the host may still end it later.            *)
ReleasedWithText(d) == [d EXCEPT !.composition = NoComposition, !.left = TRUE]  \* mutant
Released(d) ==
  IF ~HasComposition(d) THEN d
  ELSE [d EXCEPT !.composition = NoComposition, !.left = TRUE,
                 !.plain = Put(@, d.composition.text)]

(* EndComposition with `text` in the composition's range *)
Ended(d, text) == [d EXCEPT !.composition = NoComposition, !.plain = Put(@, text)]

(* insertTextAtSelection *)
InsertText(d, text) ==
  {Ok([d EXCEPT !.plain = Put(@, text)])} \cup {Failed(f) : f \in Faults(d)}

(* commitText: GetRange fails, SetText fails or EndComposition fails.      *)
CommitTextTwice(d, c, text) == InsertText(d, text)                 \* mutant
CommitText(d, c, text) ==
  IF d.composition.context # c THEN InsertText(d, text)
  ELSE {Ok(Ended(d, text))}
       \cup (UNION {InsertText(Released(f), text) : f \in Faults(d)})
       \cup {Failed(Released(f)) : f \in Faults(d)}
       \cup {Failed([Ended(f, text) EXCEPT !.left = TRUE]) : f \in Faults(d)}

(* ensureActiveComposition: StartComposition or GetRange fails.            *)
EnsureActiveComposition(d, c) ==
  LET here == IF d.composition.context \in {NoContext, c} THEN d ELSE Released(d)
      started == IF HasComposition(here) THEN here
                 ELSE [here EXCEPT !.composition = [context |-> c, text |-> {}]]
  IN {Ok(started)} \cup {Failed(f) : f \in Faults(started)}
       \cup (IF HasComposition(here) THEN {} ELSE {Failed(f) : f \in Faults(here)})

UpdateComposition(d, c, text) ==
  LET tried == EnsureActiveComposition(d, c)
      again == UNION {EnsureActiveComposition(Released(r.doc), c) : r \in {r \in tried : ~r.ok}}
      ranges == {r \in tried : r.ok} \cup again
  IN {r \in ranges : ~r.ok}
       \cup UNION {{Ok([r.doc EXCEPT !.composition.text = text])}
                     \cup {Failed(f) : f \in Faults(r.doc)} : r \in {r \in ranges : r.ok}}

(* clearComposition: GetRange, SetText or EndComposition fails; a text     *)
(* that could not be removed is reported as removed.                       *)
ClearedLater(d) == {Ok(d)}                                         \* mutant
ClearComposition(d) ==
  IF ~HasComposition(d) THEN {Ok(d)}
  ELSE {Ok(Ended(d, {}))}
       \cup {Failed(Ended(f, f.composition.text)) : f \in Faults(d)}
       \cup {Ok(Ended(f, f.composition.text)) : f \in Faults(d)}
       \cup {Failed([Ended(f, {}) EXCEPT !.left = TRUE]) : f \in Faults(d)}

(* DoEditSession: applyEngineOutput *)
ApplyEngineOutput(d, e) ==
  CASE e.action = "Commit" -> CommitText(d, e.context, e.text)
    [] e.action = "Update" -> UpdateComposition(d, e.context, e.text)
    [] OTHER -> ClearComposition(d)

(* requestEditSession.  TF_ES_ASYNCDONTCARE lets the host choose, and a    *)
(* session it will run later counts as a success.  A session waits where   *)
(* the document is locked, and there no synchronous one is granted.        *)
Waits(d, c) == \E i \in 1 .. Len(d.queue) : d.queue[i].context = c

Queued(d, e) ==
  IF Len(d.queue) < MaxQueued THEN {Ok([d EXCEPT !.queue = Append(@, e)])} ELSE {}

RequestEditSession(d, e, synchronous) ==
  {Failed(f) : f \in Faults(d)}
    \cup (IF synchronous THEN {} ELSE Queued(d, e))
    \cup (IF ~Waits(d, e.context) THEN ApplyEngineOutput(d, e)
          ELSE IF synchronous THEN {Failed(d)} ELSE {})

-----------------------------------------------------------------------------
(* Dispatch.  A turn is the engine, the document and the UI element that a *)
(* handler works on.                                                       *)

Now == [engine |-> engine, doc |-> doc, element |-> element]

Done(t) == [turn |-> t, ok |-> TRUE]
Undone(t) == [turn |-> t, ok |-> FALSE]

(* closeCandidateUi *)
CloseCandidateUi(t) == [t EXCEPT !.element = NoElement]

(* ensureCandidateUiElement: the host answers BeginUIElement with whether  *)
(* the service shows the list itself; later updates do not ask.            *)
BegunUiElement(t, e) ==
  {[t EXCEPT !.element = [e EXCEPT !.shown = show]] : show \in BOOLEAN}
    \cup {[CloseCandidateUi(t) EXCEPT !.doc = f] : f \in Faults(t.doc)}

UpdateCandidateUi(t) ==
  IF ~HasVisibleList(t.engine) THEN {CloseCandidateUi(t)}
  ELSE LET e == Updated(t.engine.list.count, t.engine.list.selected)
       IN IF t.element = NoElement THEN BegunUiElement(t, e)
          ELSE {[t EXCEPT !.element = e]}
               \cup UNION {BegunUiElement([t EXCEPT !.doc = f], e) : f \in Faults(t.doc)}

(* dispatchEngineOutput, for an output the engine has just given           *)
OutputText(o) == IF o.action = "Commit" THEN o.sent ELSE o.session.text

DispatchEngineOutput(t, c, o, synchronous) ==
  LET edit == [context |-> c, action |-> o.action, text |-> ToSet(OutputText(o))]
      moved == [t EXCEPT !.engine = o.session]
  IN UNION {IF r.ok THEN {Done(u) : u \in UpdateCandidateUi([moved EXCEPT !.doc = r.doc])}
            ELSE {Undone([moved EXCEPT !.doc = r.doc])} :
              r \in RequestEditSession(t.doc, edit, synchronous)}

RolledBack(t, before) == [t EXCEPT !.engine = before]

(* tryDispatchOutput with a snapshot, through handleDispatchFailure        *)
TryDispatchOutput(t, c, o) ==
  IF c = NoContext THEN {Undone(CloseCandidateUi(t))}
  ELSE {IF r.ok THEN r ELSE Undone(CloseCandidateUi(RolledBack(r.turn, t.engine))) :
          r \in DispatchEngineOutput(t, c, o, TRUE)}

(* tryCommitOpenSession; S_FALSE counts as a success.  It finalizes once,  *)
(* and with a segment ahead that only moves to the next one.               *)
TryCommitOpenSession(t, c) ==
  LET commits == IF t.engine.state = "Converting" THEN FinalizeCandidateSelection(t.engine) ELSE {}
  IN IF c = NoContext THEN {Undone(t)}
     ELSE IF commits = {} THEN {Done(t)}
     ELSE UNION {{IF r.ok THEN r ELSE Undone(RolledBack(r.turn, t.engine)) :
                    r \in DispatchEngineOutput(t, c, o, TRUE)} : o \in commits}

DiscardSessionAndCloseUi(t) ==
  CloseCandidateUi([t EXCEPT !.engine = Discarded(@), !.doc = Released(@)])

-----------------------------------------------------------------------------
(* Keys.  To those of the engine come Backspace, which the settings name,  *)
(* Tab and the paging keys, which are claimed with a list only, Ctrl with  *)
(* a letter, and the digit with its character, which types until there are *)
(* candidates of a conversion to choose from.                              *)

ServiceKeys == Keys \cup {"Backspace", "Tab", "Page", "Chord", "Number"}
EngineKey(s, key) ==
  CASE key = "Backspace" -> "Erase"
    [] key \in {"Tab", "Page"} -> "Pick"
    [] key = "Chord" -> "Other"
    [] key = "Number" -> IF s.state = "Converting" THEN "Digit" ELSE "Letter"
    [] OTHER -> key
Prints(key) == key \in {"Letter", "Number", "Mark"}

(* shouldConsumeKey, what OnTestKeyDown answers *)
ConsumesAllKeys(key) == engine.state # "Direct"                    \* mutant
ShouldConsumeKey(key) ==
  \/ key \in {"Toggle", "Latin", "Hiragana"}
  \/ engine.state = "Direct" /\ config.fullWidth /\ key \in {"Letter", "Chord"}
  \/ /\ engine.state # "Direct" /\ HasActiveSession(engine)
     /\ \/ Prints(key)
        \/ key \in {"Space", "Convert", "Enter", "Escape", "Backspace", "Arrow", "Pick"}
        \/ key = "Erase" /\ engine.state = "Composing"
        \/ key \in {"Tab", "Page"} /\ engine.state = "Composing" /\ HasVisibleList(engine)
        \/ key = "Page" /\ engine.state = "Converting"

(* tryRestartCompositionAfterCommit *)
CommittedOnly(t, c, key, ch) == {t}                                \* mutant
Restarted(t, c, key, ch) ==
  UNION {IF ~o.consumed THEN {t}
         ELSE {IF r.ok THEN r.turn ELSE DiscardSessionAndCloseUi(r.turn) :
                 r \in TryDispatchOutput(t, c, o)} : o \in Outcomes(t.engine, EngineKey(t.engine, key), ch)}

Eaten(t) == [turn |-> t, eaten |-> TRUE]
Declined(t) == [turn |-> t, eaten |-> FALSE]

(* What most keys come to: the engine decides, and a failure to show its   *)
(* decision hands the key back with the session discarded.                 *)
Processed(t, c, key, ch) ==
  UNION {IF ~o.consumed THEN {Declined([t EXCEPT !.engine = o.session])}
         ELSE {IF r.ok THEN Eaten(r.turn) ELSE Declined(DiscardSessionAndCloseUi(r.turn)) :
                 r \in TryDispatchOutput(t, c, o)} : o \in Outcomes(t.engine, EngineKey(t.engine, key), ch)}

(* dispatchOutputOrCloseCandidateUi with buildDirectCommitOutput           *)
CommittedFullWidth(t, c, ch) ==
  IF c = NoContext THEN {DiscardSessionAndCloseUi(t)}
  ELSE {CloseCandidateUi(r.turn) :
          r \in DispatchEngineOutput(t, c, [Commits(<<ch>>) EXCEPT !.session = t.engine], TRUE)}

DiscardsEmptySession(key) ==
  engine.state # "Direct" /\ ~HasActiveSession(engine) /\ key \in {"Backspace", "Erase", "Escape"}

(* shouldCommitPrintable-, Escape- and BackspaceDuringConversion           *)
CommitsConversion(key) ==
  /\ engine.state = "Converting"
  /\ \/ Prints(key)
     \/ key = "Escape" /\ config.escapeCommits
     \/ key = "Backspace" /\ config.backspaceCommits

OnKeyDown(c, key, ch) ==
  IF key = "Tab" /\ ~(engine.state = "Composing" /\ HasVisibleList(engine)) THEN {Declined(Now)}
  ELSE IF DiscardsEmptySession(key) THEN {Declined(DiscardSessionAndCloseUi(Now))}
  ELSE IF engine.state = "Direct" /\ config.fullWidth /\ key = "Letter"
  THEN {Eaten(t) : t \in CommittedFullWidth(Now, c, ch)}
  ELSE IF CommitsConversion(key)
  THEN UNION {IF ~r.ok THEN Processed(r.turn, c, key, ch)
              ELSE IF Prints(key) THEN {Eaten(t) : t \in Restarted(r.turn, c, key, ch)}
              ELSE {Eaten(r.turn)} : r \in TryCommitOpenSession(Now, c)}
  ELSE Processed(Now, c, key, ch)

-----------------------------------------------------------------------------
(* Focus and contexts *)

(* handleFocusLoss: no snapshot, and the edit session may be queued.       *)
GivenUp(t) == DiscardSessionAndCloseUi(t)
HandleFocusLoss(t, c) ==
  LET commits == IF t.engine.state = "Composing"
                 THEN {Commits(t.engine.text)}   \* Enter
                 ELSE FinalizeCandidateSelection(t.engine)
  IN IF ~config.commitsOnFocusLoss \/ ~IsOpen(t.engine) THEN {t}
     ELSE IF c = NoContext THEN {GivenUp(t)}
     ELSE IF commits = {} THEN {t}
     ELSE UNION {{IF r.ok THEN r.turn ELSE GivenUp(r.turn) :
                    r \in DispatchEngineOutput(t, c, o, FALSE)} : o \in commits}

Top(manager) == IF manager \in open THEN manager ELSE NoContext

Take(t) == engine' = t.engine /\ doc' = t.doc /\ element' = t.element

(* OnKeyDown from the host; it names the focused document's context or     *)
(* none.  A printing key handed back is typed by the application.          *)
Typed(t, c, ch) == [t EXCEPT !.doc.plain = IF c = NoContext THEN @ ELSE Put(@, {ch})]

Held(ch) ==
  \/ ch \in doc.composition.text \/ ch \in ToSet(engine.text)
  \/ \E i \in 1 .. Len(doc.queue) : ch \in doc.queue[i].text

Fresh == {ch \in Chars : doc.plain[ch] = 0 /\ ~Held(ch)}
Inputs(key) == IF Prints(key) THEN Fresh ELSE {NoChar}
Targets == {focus.context, IF Top(focus.manager) = NoContext THEN focus.context ELSE Top(focus.manager)}

KeyDown(key, ch) ==
  /\ active
  /\ \E c \in Targets : \E r \in OnKeyDown(c, key, ch) :
       Take(IF Prints(key) /\ ~r.eaten THEN Typed(r.turn, c, ch) ELSE r.turn)
  /\ UNCHANGED <<active, config, focus, open, sinks>>

(* OnSetFocus(FALSE): the application goes to the background.              *)
LoseForeground ==
  /\ active
  /\ \E t \in HandleFocusLoss(Now, focus.context) : Take(CloseCandidateUi(t))
  /\ UNCHANGED <<active, config, focus, open, sinks>>

(* OnSetFocus of the thread manager: commit in the document left behind,   *)
(* then updateFocusedDocumentManager.                                      *)
MoveFocus(manager, previous) ==
  /\ active /\ (focus.manager # NoContext => previous = focus.manager)
  /\ LET left == IF Top(previous) = NoContext THEN {Now} ELSE HandleFocusLoss(Now, Top(previous))
     IN \E t \in left :
          Take(CloseCandidateUi([t EXCEPT !.doc = IF manager = focus.manager THEN @ ELSE Released(@)]))
  /\ focus' = [manager |-> manager, context |-> Top(manager)]
  /\ sinks' = sinks \cup ({Top(manager)} \ {NoContext})
  /\ UNCHANGED <<active, config, open>>

(* OnPushContext *)
PushContext(c) ==
  /\ c \notin open
  /\ open' = open \cup {c}
  /\ sinks' = IF active THEN sinks \cup {c} ELSE sinks
  /\ UNCHANGED <<active, config, engine, doc, element, focus>>

(* OnPopContext: clearTrackedContext; the engine is not told.              *)
PopContext(c) ==
  /\ c \in open
  /\ open' = open \ {c}
  /\ IF active
     THEN /\ focus' = [focus EXCEPT !.context = IF @ = c THEN NoContext ELSE @]
          /\ doc' = IF doc.composition.context = c THEN Released(doc) ELSE doc
          /\ sinks' = sinks \ {c}
     ELSE UNCHANGED <<focus, doc, sinks>>
  /\ UNCHANGED <<active, config, engine, element>>

(* OnCompositionTerminated, for the active composition or for one the      *)
(* service has let go of; it does not look which.                          *)
TerminateComposition ==
  /\ HasComposition(doc) \/ doc.left
  /\ \E left \in {doc.left, FALSE} : doc' = [Released(doc) EXCEPT !.left = left]
  /\ UNCHANGED <<active, config, engine, element, focus, open, sinks>>

(* The host runs an edit session it has kept.                              *)
RunEditSession ==
  /\ doc.queue # <<>>
  /\ \E r \in ApplyEngineOutput([doc EXCEPT !.queue = Tail(@)], Head(doc.queue)) : doc' = r.doc
  /\ UNCHANGED <<active, config, engine, element, focus, open, sinks>>

-----------------------------------------------------------------------------
(* The candidate UI element, called by the host *)

(* applyUiDrivenOutput *)
UiDriven(t, outputs) ==
  IF focus.context = NoContext THEN {CloseCandidateUi(t)}
  ELSE UNION {{r.turn : r \in TryDispatchOutput(t, focus.context, o)} : o \in outputs}

UiSelect(i) ==
  LET outputs == SetCandidateSelection(engine, i)
  IN /\ element # NoElement /\ i < element.count
     /\ \/ outputs = {} /\ UNCHANGED <<engine, doc, element>>
        \/ \E t \in UiDriven(Now, outputs) :
             Take([t EXCEPT !.element = IF @ = NoElement THEN @ ELSE SelectedHere(element, @, i)])
     /\ UNCHANGED <<active, config, focus, open, sinks>>

(* Finalize and Abort; the host may still hold the element of a list that  *)
(* is gone.                                                                *)
Hidden(t) == [t EXCEPT !.element = IF @ = NoElement THEN @ ELSE [@ EXCEPT !.shown = FALSE]]
UiEnd(outputs) ==
  /\ \E t \in IF outputs = {} THEN {Hidden(Now)} ELSE UiDriven(Hidden(Now), outputs) : Take(t)
  /\ UNCHANGED <<active, config, focus, open, sinks>>
UiFinalize == UiEnd(FinalizeCandidateSelection(engine))
UiAbort == UiEnd(AbortCandidateSelection(engine))

(* SetPageIndex and Show *)
UiPage ==
  /\ element # NoElement
  /\ \E pages \in BoundedSeq(0 .. MaxList - 1, MaxList) :
       IsPageTable(pages, element.count) /\ element' = Repaged(element, pages)
  /\ UNCHANGED <<active, config, engine, doc, focus, open, sinks>>

UiShow(show) ==
  /\ element # NoElement
  /\ element' = [element EXCEPT !.shown = show]
  /\ UNCHANGED <<active, config, engine, doc, focus, open, sinks>>

(* EndUIElement from the host *)
UiEnded ==
  /\ element' = NoElement
  /\ UNCHANGED <<active, config, engine, doc, focus, open, sinks>>

-----------------------------------------------------------------------------
(* Activation *)

(* Activate: the hiragana key is given to the engine, its output to nobody. *)
Activate ==
  /\ ~active
  /\ active' = TRUE
  /\ config' \in Configs
  /\ \E o \in ModeOutcomes(engine, "Hiragana") : engine' = o.session
  /\ UNCHANGED <<doc, element, focus, open, sinks>>

(* No session lease, or no sinks: the engine has taken the key all the     *)
(* same.                                                                   *)
FailToActivate ==
  /\ ~active /\ doc.faults < MaxFaults
  /\ doc' = [doc EXCEPT !.faults = @ + 1]
  /\ config' \in Configs
  /\ \E o \in ModeOutcomes(engine, "Hiragana") : engine' = o.session
  /\ UNCHANGED <<active, element, focus, open, sinks>>

(* Deactivate: everything but the engine's session is let go.              *)
Deactivate ==
  /\ active
  /\ active' = FALSE
  /\ sinks' = {}
  /\ element' = NoElement
  /\ doc' = Released(doc)
  /\ focus' = [manager |-> NoContext, context |-> NoContext]
  /\ UNCHANGED <<config, engine, open>>

Init ==
  /\ active = FALSE
  /\ config \in Configs
  /\ engine = Empty("Direct")
  /\ doc = [composition |-> NoComposition, plain |-> [ch \in Chars |-> 0], left |-> FALSE,
            queue |-> <<>>, faults |-> 0]
  /\ element = NoElement
  /\ focus = [manager |-> NoContext, context |-> NoContext]
  /\ open = Contexts
  /\ sinks = {}

Next ==
  \/ \E key \in ServiceKeys : \E ch \in Inputs(key) : KeyDown(key, ch)
  \/ LoseForeground
  \/ \E manager, previous \in Contexts \cup {NoContext} : MoveFocus(manager, previous)
  \/ \E c \in Contexts : PushContext(c) \/ PopContext(c)
  \/ TerminateComposition
  \/ RunEditSession
  \/ \E i \in 0 .. MaxList - 1 : UiSelect(i)
  \/ UiFinalize
  \/ UiAbort
  \/ UiPage
  \/ \E show \in BOOLEAN : UiShow(show)
  \/ UiEnded
  \/ Activate
  \/ FailToActivate
  \/ Deactivate

Spec == Init /\ [][Next]_vars
-----------------------------------------------------------------------------
(* Properties *)

(* The host shows the engine's own candidate list, with its highlight, on  *)
(* the page the highlight is on: ensureCandidateUiElement, SetSelection,   *)
(* SetPageIndex and every path that closes or rolls back.                  *)
UiShowsTheList ==
  element # NoElement =>
    /\ element.count = engine.list.count
    /\ element.selected = engine.list.selected
    /\ ShowsSelectedPage(element)

(* A call of the host fails; an edit session waits; one that came late has *)
(* opened a composition where the focus no longer is.                      *)
CallFails == doc'.faults > doc.faults
SessionWaits == doc.queue # <<>>
Stranded == doc.composition.context \notin {NoContext, focus.context}

(* The text under the focused context's composition is the engine's        *)
(* session, however keys, the candidate window, the focus and the host's   *)
(* own endings of compositions follow each other: only an edit session     *)
(* that waits, or a call that fails, can put them apart (updateComposition, *)
(* commitText, clearComposition and the roll-backs of the dispatch).       *)
CompositionShowsSession ==
  HasComposition(doc) /\ ~Stranded => doc.composition.text = ToSet(engine.text)

OnlyLateSessionsPartFromEngine ==
  [][CompositionShowsSession /\ ~CompositionShowsSession' =>
       SessionWaits \/ SessionWaits' \/ Stranded \/ CallFails]_vars

(* The copies of a character: in the documents, and once more where the    *)
(* engine, the active composition or a waiting edit session still has it.  *)
CopiesOf(ch) == doc.plain[ch] + IF Held(ch) THEN 1 ELSE 0

(* Nothing typed once comes to stand twice, unless the composition's text  *)
(* is left in the document while its session lives on: when the host ends  *)
(* the composition or closes its context, when focus moves on, when the    *)
(* service is deactivated, or when a call fails or comes late.             *)
OnlyAbandonedTextDoubles ==
  [][(\E ch \in Chars : CopiesOf(ch) < 2 /\ CopiesOf(ch)' >= 2) =>
       \/ TerminateComposition
       \/ open' # open \/ focus' # focus
       \/ SessionWaits \/ Stranded \/ CallFails]_vars

(* Nothing typed is lost: what was typed stays until it is erased or       *)
(* discarded by a mode key, whatever calls fail and whatever contexts are  *)
(* left to write to; only an edit session that comes late can take it.     *)
NothingTypedVanishes ==
  [][(\E ch \in Chars : CopiesOf(ch) > 0 /\ CopiesOf(ch)' = 0) =>
       \/ \E key \in {"Erase", "Backspace", "Toggle", "Latin"} : KeyDown(key, NoChar)
       \/ SessionWaits]_vars

(* A printing key the service takes lands in the engine or a document      *)
(* (tryRestartCompositionAfterCommit, buildDirectCommitOutput), except     *)
(* when it ends a conversion with segments ahead, when no context is left  *)
(* or when a call fails or comes late.                                     *)
PrintingKeysLand ==
  active =>
    \A key \in {"Letter", "Number", "Mark"} : \A ch \in Fresh : \A r \in OnKeyDown(focus.context, key, ch) :
      r.eaten =>
        \/ ch \in ToSet(r.turn.engine.text) \/ r.turn.doc.plain[ch] = 1
        \/ engine.state = "Converting" /\ engine.ahead > 0
        \/ SessionWaits \/ r.turn.doc.faults > doc.faults \/ focus.context = NoContext

(* A key OnTestKeyDown has claimed and OnKeyDown then hands back, which    *)
(* the application sees all the same, has changed nothing here, unless a   *)
(* call failed, the document is locked or there is none.                   *)
ClaimedKeysActOnce ==
  active /\ ~SessionWaits /\ focus.context # NoContext =>
    \A key \in {k \in ServiceKeys : ShouldConsumeKey(k)} : \A ch \in Inputs(key) :
      \A r \in OnKeyDown(focus.context, key, ch) :
        r.eaten \/ r.turn = Now \/ r.turn.doc.faults > doc.faults

(* FocusLossCommitsByDefault: where the settings say so, a session that    *)
(* loses the focus is committed; none stays open.                          *)
FocusLossCommits ==
  [][LoseForeground /\ config.commitsOnFocusLoss => ~IsOpen(engine')]_vars
=============================================================================
