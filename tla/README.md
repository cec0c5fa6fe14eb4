# A verification of yume-ime in TLA+

yume-ime is a Japanese input method for the Windows Text Services Framework
(TSF). A key press reaches `TextService`, which asks `ImeEngine` what to do; the
engine keeps the typed romaji, converts it to kana, looks candidates up in the
`Dictionary`, and answers with an `EngineOutput` (a composition to show, a list
of candidates, a text to commit). `TextService` writes the answer into the
host's document inside an edit session. A worker thread flushes what the
dictionary has learned.

The modules here are translated from the C++ sources under `src/src`. TLC
checks them on small instances; TLAPS proves the properties of the engine, and
that it keeps its contract with the text service, for every alphabet, conversion
table and dictionary; those of the text service for every set of characters,
contexts and failures; those of the dictionary's files for every number of
commits, rollbacks and restarts, of the lexicon and of the idle service for
every number of threads, the paging of the candidate element for every page
size, the conversion of romaji for every table, and segmentation, predictions and
learned order for every lexicon.

## 1. The system

| Component | State | Operations | Talks to | What is hard |
|---|---|---|---|---|
| `ImeEngine` | state (Direct, Idle, Composing, Converting, Committed), buffer, cached conversion, candidate list, segments with one list each, display cache, selected segment, primed flag | `processKeyEvent`, `setCandidateSelection`, `finalizeCandidateSelection`, `abortCandidateSelection`, `discardActiveSession` | buffer, converter, dictionary | caches that must be invalidated on every path; indices into lists that are replaced; late calls of the candidate window |
| Composition buffer | text, cursor | insert, backspace, delete, left, right | engine | erasing one kana unit before the cursor |
| Romaji conversion | none (pure) | `convertRomajiToHiragana` | engine | four competing rules, lookahead, doubled letters |
| Segmentation | none (pure) | `rebuildSegmentsFromReading`, `scoreSegmentReading` | engine, dictionary | a dynamic program whose scores depend on what was learned |
| Dictionary | user DB, blocked DB, caches with generations, last commit | lookup, predictions, `recordCommit`, `blockCandidate`, snapshot, restore | engine, files, idle thread | stale caches, rollback after a flush, saturating scores |
| User and default DB | entries, trie, top predictions of every node, context counts | load, save, commit, find | dictionary, files | lists recomputed along one path only |
| Persistence | dirty flag, pending commits, flush times, files | timed flush, flush, reload, recovery | file system, other processes | two threads, several processes, failed saves, crashes |
| `TextService` | engine, focused document and context, active composition, UI element | key sinks, focus sinks, activation, idle tick | TSF host, engine, candidate window | queued edit sessions, focus loss, failed dispatch with rollback |
| Candidate UI element | model, page table, selection | `SetPageIndex`, `SetSelection`, `Finalize`, `Abort`, update | TextService | calls back into its owner while it runs |
| Idle service, module state | leases, worker thread, stop event, registered services | start, stop, acquire, release, tick | TextService, DLL host | start racing stop, stop called from the worker |
| Settings, drawing, registration, logger | configuration, window handles | read, paint, register | | no decision of the input method depends on them beyond four flags |

What makes each of them correct:

* **Engine.** The text that is committed and learned is the text that was on
  screen. Nothing of one session survives into the next. No index leaves its
  list. A key that is passed on to the application has not changed the session.
  The segments always spell what was typed, and no other cut scores more.
* **Buffer and conversion.** Every conversion is a parse of the typed letters;
  a kana once confirmed is not rewritten by the letters behind it; erasing
  removes what the user sees as one unit.
* **Dictionary and persistence.** What counts as saved is in the file, through
  every order of flushes, rollbacks, crashes and restarts; no lookup answers from
  before a change; what cannot be read is not written over; what is
  learned moves up and what is blocked does not come back.
* **TextService.** Each typed character reaches the document, once, and the
  composition in the document is the engine's.
* **Candidate UI element.** The host is shown the engine's list, on the page of
  its highlight.
* **Idle service.** While a session is open a worker runs, after the last one it
  has stopped, and nobody waits for himself.

PROJECT.json lists every component with its files and status, and every hazard
at the line where it bites.

## 2. How the modules compose

```
CandidateList   CompositionBuffer      LexiconTrie
       \         /      \                  |
        ImeEngine   RomajiConverter      UserDb   GrammarBoosts
            |            |                  \      /
            |        RomajiTyping        CandidateRanking
      EnginePromise                            |
  implements|                             Segmentation
            v                                  |
  EngineContract                            Learning
            \
        EngineSession   CandidateUiElement
               \         /
               TextService       DictionaryStore     IdleModule     DefaultLexicon
```

`ImeEngine` and `TextService` meet in `EngineSession`: it holds, as operators,
every outcome a call of the engine may have as far as the text service can see
it. `EngineContract` drives these operators alone and is the abstract
specification of the engine; `EnginePromise` maps the members of `ImeEngine` to
its session, and `KeepsItsPromise`, that `ImeEngine` implements it, is checked by
the run `engine` and proved in section 5. `TextService` drives the same operators from the
keyboard and the host, so what is shown of it holds of the text service with the
real engine as far as the contract reaches.

`ImeEngine` looks at the dictionary as data and at the cut of a reading as a
choice; `CandidateRanking` and `Segmentation` compute both, and `Learning` changes
the dictionary they read. `DictionaryStore` has the files, and takes a database
for the history it depends on. The lexicon all of them take as given is loaded,
shared and replaced in `DefaultLexicon`.

### The plan

Done: the engine, romaji, the threads, the dictionary's files, the text
service with the candidate element, learning and segmentation, the reload of the
lexicon; the proofs named in section 5.

Left, in this order:

1. *Files*: two processes and one temporary file, with saves as several writes, and
   an abstract file that is always one whole save as the specification to refine.
2. *Recursion*: a least position at which a recursive function would fail to exist, or
   to have what is claimed of it, takes the place of an induction, as it does for the
   romaji scan in `RomajiTyping_proofs` and for the segmentation and the tries in
   `Learning_proofs`. That confirmed kana stay (`ConfirmedIsStable`), for the tables of which it
   is true, is next.

## 3. The modules

**CandidateList** is `struct CandidateList` of `ime_engine.hpp`: a sequence of
surface texts and a highlighted index that counts from 0 as in the source.
A null pointer and an empty vector of items are both the empty sequence, because
every reader of the list treats them alike.

**CompositionBuffer** is `Buffer` and the parts of the engine that edit it: the
fields `buffer` and `cursor` of an engine record. Conversion is the constant
function `Conversion` from a text to `[confirmed, pending]`, so that the engine
can be proved correct for every romaji table. `Backspace` is the whole of
`tryBackspaceCompositionUnit` with its fallback to `Buffer::backspace`.

**RomajiConverter** is `Converter::convertRomajiToHiragana` with `matchTrie`,
`handleSokuon` and `handleN`, as a fold that makes one pass of the loop for each letter. `Kana`,
`Raw`, `ConfirmedParses`, `ComposingParses` and `IsParse` are its reference: what it means that a
result is a parse of the input, with no mention of the scan.

**RomajiTyping** drives it by the keys that edit a composition.
**MCRomajiTyping** gives it a sub-table of the real `kEntries`, chosen so that
each rule and each pair of rules that compete for the same letters occurs.

**ImeEngine** is the engine. `ime` holds its members, `out` the last
`EngineOutput`. Private methods are operators from an engine record to an engine
record under their C++ names (`Preview` is `previewSelectedCandidate`, and so
on); each public call, in each state, is one action with everything it does, the
rebuilding of caches in `createOutput` included. Two details of the code matter
and are kept: `createOutput` with a conversion (`Respond`) and without one
(`RespondFresh`) read different sources, and it clamps the list's index and
rebuilds a dirty display cache as a side effect (`Render`).
A lookup in the dictionary is data: `Lexicon` and `Predicted` give the ranking
for each state the dictionary can learn its way to, and a commit that is
learned moves to any such state. The cut of a reading into segments is any
path the code's dynamic program can reach (`Cuts`: no segment longer than
8, none starting with a small kana); which of them has the best score is
`Segmentation`.

**EngineSession** is what the text service may rely on: a session is its
state, the characters typed into it in the order they stand, the number of
segments ahead, and the size and highlight of the list. `Outcomes` and the three
operators for the candidate window give every session a call may lead to,
whether the key is consumed, and whether the document is to be updated, cleared
or committed to. **EngineContract** makes a specification of them.
**EnginePromise** is the refinement mapping (`SessionOf`, `AnswerOf`): a session is the
buffer, the segments behind the selected one, and the size and highlight of the list, and a
committed session is an idle one; `MaxList` bounds what a lookup returns, as the limits given
to `sortAndTrim` and `predictionLimitForReading` do.

**TextService** is `tsf::TextService`. Everything in it runs on one thread, so
each entry point of the host is one action: `KeyDown` (with `OnTestKeyDown` as
the predicate `ShouldConsumeKey`), `LoseForeground`, `MoveFocus`, `PushContext`,
`PopContext`, `TerminateComposition`, the calls on the UI element, `Activate`,
`Deactivate`. Inside, a handler is an operator that gives every result the
host's answers leave possible, because the host may refuse: an edit
session is granted at once, queued (`RunEditSession` runs it later) or denied,
and each of the calls an edit session makes may fail after the ones before it have
changed the document. `doc` has the active composition, how often each character stands
in the documents, the waiting edit sessions, and whether the service has let go
of a composition the host may still end. `RolledBack` is the capture of a session
before a dispatch and its restoration after a failure. An undone step, as in
`UpdateComposition`'s second attempt after a lost composition, stays visible in `doc`.

**CandidateUiElement** is the element the host sees: how many candidates there are, the
selection, the page table and the first visible candidate. `SelectedHere` keeps the
re-entrance of `SetSelection`: the owner it asks may replace the element's list
before the call goes on.

**LexiconTrie** is the trie of both databases. Its nodes are numbered in the order they
are made, and `Rebuild` walks them backwards, as `rebuildAllPredictions` and
`rebuildPath` do; `ListsBest` is the reference. Words with one score, one text and
readings of one length tie: `isBetterEntry` puts neither first, `std::sort` some one
of them. The model leaves that open (`OrderOf` is some order of them, and nothing says
which). **UserDb** adds
what is learned: scores that saturate, in 32 bits, and how often a word
followed another. **GrammarBoosts** is the table of bonuses between parts of
speech and surfaces, **CandidateRanking** the lookups with the black list, the
spellings of the reading, duplicates, the order and the fallback
rule of the engine's predictions. **Segmentation** is the dynamic program of
`rebuildSegmentsFromReading`; `AllCuts` and `Total` are its reference: every cut
there is, and what it scores when counted from its first segment to its last.
**Learning** drives them: `RecordCommit` of anything the user is offered, `BlockCandidate`,
`Restart`. **MCLearning** gives it a lexicon of four words, and
one more to be learned.

**IdleModule** is `ModuleState` with its `IdleService`, and `TextService` as far
as its life goes. A host is a thread of the application (TSF runs each in an
apartment of its own) with one text service; `host[h].pc` says where its call
of `Activate`, `Deactivate` or the destructor is, `worker[k].pc` where
`IdleService::run` and `serviceIdleEngines` are. A step is one region under
`ModuleState::mutex`, one access to the atomic `running`, or one system call.
`releaseSessionLease` is three of them and more: it counts under the lock
(`Decrement`), lets it go (`Unlock`), and stops the service without it
(`BeginStop`, `Signal`, `BeginJoin`, `Joined`, `Reset`). `running` is read by the
worker while no lock is held, and `stopEvent`, `workerThread` and `onTick` are
plain members that the worker captures (`Capture`). A handle is the number of
the event or the worker it names, and open while the service holds it:
`SetEvent` and a new wait on a closed one do nothing, a wait that has begun goes
on. A service lives while its host or a tick holds a reference (`Alive`).

**DictionaryStore** is one `Dictionary` with its two files, and what a later
one of the same process or of another finds of it. `dict` holds the members that
`SessionSnapshot` has; the times and the count of pending commits are left out,
because the model may flush whenever the members are dirty and writable, or
not. A database is the sequence of commits it has seen, or the set of blocked
entries, with its generation: every score, context count and index of it is a
function of that. Each call holds `Dictionary::mutex` from end to end and is one
action. `blockCandidate` is two (`Block`, `SaveBlocked`), with the copy it is
about to save in `blocking`. `reload` is `OpenFromFiles` or `OpenFromCache`: the
program calls it from the constructor only. `Loads` is what can become of one
file: read, created, set aside by `recoverCorruptFile`, or left and
not written to any more. A file in the model carries, beside its content, whether its size and time are those the
reload cache remembers; a save makes them others. A save is
one step, since it writes a temporary file and renames it; a `Crash` is possible
before and after. `snapshots` is the stack of snapshots that nested calls of
`TextService` hold. `flush` and `blockCandidate` are called by the tests only so
far; they are modelled as what the class offers.

**DefaultLexicon** is `DefaultDb`, the one static lexicon of the process. A file is its
version, and that there is no such file is a version too, so adding or removing one is a
`Change`. The code lists the files at once and then asks them one by one; the model asks
each in its turn whether it is there and what it is. `db` has the members `sharedStorage` and `loadedSignature`, `cache` and `mutex` belong to
`acquireStorage`. A thread asks the files one by one (`AskFile`), compares (`Compare`),
takes the cached storage or loads one, and assigns the two members. The dictionaries
of two threads have a lock each, so nothing orders these assignments; that of
a `shared_ptr` is three steps (`BeginAssigning`, `Store`, `Release`), and `owners` are the counts its
control blocks keep. A reference to a storage that is destroyed becomes `Gone`. A lookup is
`findExact` and then `entryAt` for each index, each with an access of its own, as
`buildExactCandidates` makes them. `calm` and `raced` are history variables: no code reads them.
**MCDefaultLexicon** adds the symmetry.

The definitions marked `mutant` are plausible mistakes in the code; no action
uses them, they show that the properties can fail.

## 4. What TLC checks

| Run | Expectation | What it shows |
|---|---|---|
| `engine` | pass | six invariants, five action properties and the refinement of `EngineContract` over every order of keys and candidate-window calls |
| `engine_context` | violation | after a merge, lists of the segments behind may be ranked for a text that is gone |
| `romaji` | pass | every conversion is a parse of the typed letters, confirmed kana stay |
| `romaji_digits` | violation | a doubled digit becomes a small tsu and one digit |
| `text_service` | pass | keys, focus, contexts, the candidate window, edit sessions that wait and calls that fail, in every order: the host shows the engine's list; a key the service takes lands and one it hands back has changed nothing; only what the properties name can part document and engine, double a character or lose one |
| `focus_loss` | violation | a conversion with a segment ahead stays open when the application goes to the background, though the settings say to commit |
| `learning` | pass | top predictions and segmentation equal their references after every order of commits, blocking and restarts; a commit never moves its word down (in predictions, where no tie decides their order; a fallback only until they are reordered); of what is blocked only spellings of the typed reading are offered |
| `idle` | pass | with one application thread: a session has a live worker and is served, and no worker runs when the DLL may be unloaded |
| `idle_apartments` | pass | with two: the count of sessions and the registered pointers stay right, only a stop under way can take a session's worker, and every stop returns |
| `store` | pass | learning, blocking, rollback, idle flush, failing saves, crashes and damaged files in every order: nothing counts as saved or as cached that is not |
| `store_blocking` | pass | two threads block at once, and the older save never undoes the newer |
| `lexicon` | pass | two threads and files that change or cannot be read: an undisturbed lookup is whole and current, and only reloads that overlap leave an old or destroyed lexicon behind |

The three violations are quoted against the line of the documentation or of the
test that says otherwise in PROJECT.json, "findings".

*Bounds of `engine`.* Up to three characters (`MaxText`), typed with one letter
and the long-vowel mark. The letter is `n`: at the end it is pending, two of them
are one kana, before the mark it is that kana too; a doubled mark becomes a
small tsu. So the prefixes of a buffer convert to something else than the whole. Three characters give every cut
into one, two and three segments, hence a segment with neighbours on both sides,
which is all that previewing, persisting, prefetching and merging look at. One
of the glyphs is a small kana, so a cut can be forbidden. The lists have up to two candidates; the
clamped moves by a page and the cyclic moves then both reach both ends; `MaxList` is
therefore 2. Two
states of the dictionary let a list be ranked by an earlier state than the one a
lookup would see now. `Digits` is the code's own range, so every digit that
numbers no candidate occurs. Nothing here is symmetric, so no symmetry is used.

*Bounds of `romaji`.* Up to four keys (`MaxText`), from six that the sub-table
joins in every way: a consonant, the glide, a vowel, the `n` with its
apostrophe, and a capital. Four is a doubled consonant before a whole
three-letter spelling, the longest unit of one kana cluster.

*Bounds of the text service runs.* Each printing key types a character that is not in
use (`Fresh`), so that copies can be told apart; two characters are a session of
up to two segments, one of them ahead. Lists have up to two candidates on pages of one, so the
selection can be on another page than the first. Two documents, each with one
context: the one with the composition and the one with the focus. One waiting
edit session and one failing call (`MaxQueued`, `MaxFaults`): a single
cause is what the properties allow or forbid, and a second one would only excuse
more. The settings are the default ones and those that differ in all four flags. Characters
and contexts are symmetric: no operator orders them. `focus_loss` needs
neither waiting sessions nor failures.

*Bounds of `learning`.* The scores are scaled down (`MaxScore` 4000,
`CommitScore` 1000, `MaxInt` 5300), so that a word which a start file has at 3000 reaches the
maximum with one commit and is committed twice more, where a sum that forgets the maximum wraps;
the bonuses keep the values of the source. Two predictions per node
(`TopPredictionCount`) under a node with three entries below it, two of which tie for the
second place in one of the start files; four candidates
per reading (`ExactLimit`), segments of up to three (`MaxSegmentLength`) of readings of
up to four: limits that are reached. Three commits (`MaxCommits`), so that two words can overtake
each other; one blocked entry (`MaxBlocked`), since entries are looked up one by one.

*Bounds of the idle runs.* One host with three workers started one after the
other: the second start and stop see every handle of the first closed, the third
sees them reused. Two hosts with two workers (`MaxStarts`): one worker that is
being stopped, one that a session started in between. The specification takes
each lock as a whole, so a third host could only repeat what the second does;
the theorems say so of the invariants.

*Bounds of the store runs.* `store`: two words, so that a rollback followed by
another commit gives the same generations to other contents; two commits
(`MaxCommits`), one withdrawn and one that takes its place; one snapshot
(`MaxDepth`), since a rollback looks at the last one only and the proof covers
the stack; one entry and one thread to block it. `store_blocking`: two entries and
two threads, so each order of two saves occurs with the copies apart, no
rollback (`StoreAssumption` allows a second blocker only with `MaxDepth` 0). Nothing
in the program blocks from a second thread; were one added, a rollback at that
moment would set `lastBlackDbSavedGeneration` back under a copy not yet saved. The
generations, not bounded by a constant, stay small because commits and entries are.

*Bounds of `lexicon`.* Two threads: a race on the two members needs no more. They are
symmetric, since nothing orders them. Two files, so that
one can change between being asked and being read, or only one of them be skipped. Two
events (`MaxEvents`), each a change or a failure: one while a reload is under way,
one before it or after it. Four storages (`MaxStorages`): the shared one, one that each
thread brings, one that a race has leaked; `Create` would fail in TLC if a fifth were needed.

*Fairness.* The specifications of the engine, of the romaji typing, of the text
service, of learning, of the lexicon and of the
store state none: everything they do is one call from outside, and nobody must
press a key, and the host need not run an edit session it keeps; that the idle thread calls `servicePersistence` again and again is
`SessionIsServed` of `IdleModule`. `FairSpec` of `IdleModule` states weak fairness of each host's steps
inside a call and of each worker's steps: the operating system schedules threads
that can run, and the lock is always free again after one step. Nobody has to
begin a call. `ClosingSpec` adds that an application thread ends its
session at last (weak fairness of `Deactivate`); `StopReturns` needs it, because
with two apartments a `Deactivate` whose stop meets a session that begins at the
same moment waits for the worker that serves this session, hence for its
end. In the same race the new session may lose the event or the handler of its worker:
`SessionHasWorker` and `UnloadSafe` hold with one host and not with two, which is why
`idle_apartments` checks `OnlyRacingStopLosesWorker` in their place. No document
of the repository promises otherwise for several apartments, so this is no finding.

Deadlock is checked in every run.

## 5. What is proved

**The engine.** `ImeEngine_proofs` proves, for all values of the constants that satisfy the three
assumptions below, that every reachable state satisfies `TypeOK`,
`IndicesInside`, `SessionClosed`, `SessionOpen`, `ConversionCoherent`,
`SelectionShown`, `DisplayCoherent`, `PrimedVisible` and `SegmentsCoverReading`, and that every step
satisfies `ConversionCommitsWhatIsShown`, `EnterCommitsWhatIsShown`, `LearnsWhatItCommits`,
`CancelRestoresReading` and `OnlyMergeOutdatesCandidates`: every property of the run `engine`,
with the refinement below.
(`SessionClosed`, `SessionOpen` and `PrimedVisible` are not in the cfg: the
refinement of `EngineContract` says more of closed sessions. Nor are most of the `TypeOK`
that are proved, here and below.)

Assumptions: `GlyphAssumption` (the typed characters are glyphs, the bound is a
number, there is a dictionary), `LookupAssumption` (a lookup returns a sequence
of texts), `ConversionAssumption` (a conversion returns two texts). TLC
evaluates all three in the `engine` runs. Nothing is assumed of what a
conversion or a lookup returns beyond its type, so the theorems do not depend on
the romaji table, the scores or what was learned.

The argument is one inductive invariant, `IInv`. The properties are not
inductive by themselves: that the committed text is the shown one needs that
the output still on screen was rendered from the present segments, which needs
that the dirty flag of the display cache is down only when the cache is the
segments' texts, which needs that the selected segment reads as its highlighted
candidate, which needs that the list kept for the segment and the list the user
moves in are the same, with an index inside. `IInv` states this chain, one named
part each: the shape of the closed session, the shape of the composing
one and what it has shown, the shape of the converting one and what it has shown.
Every private method that is used by more than one action (`Preview`,
`PersistSelection`, `RefreshSegmentCandidates`, `RebuildSegments`, `MergeAt`,
`CommitSession`, `Respond`, `RespondFresh`) has a lemma that says what it turns a record
with the invariant's parts into; each action has a lemma from these; the
theorems join them.

That the segments spell what was typed (`Covers`) is a part of the shape of a converting
session. `FlattenSeq` is a recursive function, about which the prover knows only that it is
some function with its equation; `FlattenIs` shows that there is one such function, since two would
differ at a least position. The cuts of a reading are slices of it, which put together are the
whole (`CutJoined`), and a merge replaces two neighbours by their concatenation
(`MergeJoined`). From this follows what a commit teaches; and because nothing but
`ConvertingCancel` and `AbortCandidateSelection` goes from converting to composing
(`OnlyCancelComposes`), and both keep the buffer, the reading that comes back is the one the segments
spelled.

`OnlyMergeOutdatesCandidates` is not inductive as it stands, because a merge may already have
broken what it is about: the proof shows of every private method that it keeps
the lists in step (`InContext`) when it finds them so. The list the user moves in
takes part in this (`Fits`): it is written back when the selected segment is left.

**The engine keeps its contract.** `EnginePromise_proofs` proves `KeepsItsPromise`: under the mapping of
`EnginePromise` the initial engine is an initial session, and each action is a key, a call
of the candidate window or a discarded session of `EngineContract`, or stutters. The engine's invariant is
strengthened (`PInv`) by `Roomy`, what the sizes in a session need: no list is longer than
`MaxList`, and a conversion has a candidate to show and no more segments than letters were
typed. The last needs `LimitAssumption`: a lookup returns at most `MaxList`
candidates, and a reading has no more glyphs than there were letters. All entries of `kEntries`
in `romaji_table.cpp` have this, a doubled letter and an `n` leave one kana, and
every other letter stands for itself. TLC evaluates it in the `engine` run.

**The text service.** `TextService_proofs` proves every property of the run `text_service`, for any
characters, contexts, settings and bounds that satisfy `SettingsAssumption` and
`BoundsAssumption` (the characters are finitely many, no context is `NoContext`, the
bounds are numbers): the invariants `TypeOK`, `UiShowsTheList`, `PrintingKeysLand` and `ClaimedKeysActOnce`,
and the action properties `OnlyLateSessionsPartFromEngine`, `NothingTypedVanishes`
and `OnlyAbandonedTextDoubles`. Its first part has the lemmas about the outcomes of
the engine's calls that all of these rest on.

`IInv` is about what the handlers pass on: a session is one the contract allows
(`Good`) with no character twice, and the element mirrors its list (`Sound`); and the
focused context is open and on top (`FocusInv`). What each call of the host may do to
the documents is stated once (`Keeps`, `Follows`, and `Applied` when nothing fails), then for a
dispatch (`DispatchEngineOutputIs`), for each handler (`Handled`), and for each action. The type
invariant needs that a session is no longer than there are characters: it holds none twice.

`NothingTypedVanishes` needs to know of every character where its copies are, and
in particular that a copy about to be taken away is not the last. `Accounted` says this of the session, the composition, the
documents and the edit sessions that wait. What the session holds stands in
the composition or is saved in a document (`Standing`), since a failed call may end the session. What
the composition holds is in the session, is owed by a commit that waits, or is saved, since the next
update replaces it; away from the focus, where no key reaches it, it is saved. An
edit session that waits clears nothing, and takes away nothing but what its own text holds,
and so does each that waits behind it (`Waiting`): they run when the host likes, the ones before
them done or failed. `Accounts(Now, focus.manager)` is inductive together with `IInv`; that a step
takes no copy away while all is accounted for is then shown action by action (`Lasts`), with
the four erasing keys and the waiting sessions as the property names them.

`OnlyAbandonedTextDoubles` is shown of single steps from `IInv`: what stands once is in one document
and nowhere else, or in none (`Single`). A handler takes a character out of the composition when it
puts it into the document, and what was in neither session nor document it brings only if it was
typed (`Unseen`, `KeepsSingle`). This is so only if no edit session waits and no
composition is away from the focus (`Quiet`), which is what the property leaves out.

**The lexicon.** `DefaultLexicon_proofs` proves `TypeOK`, `OnlyRacesLeaveItStale`, `LookupIsWhole` and
`CalmLookupsAreCurrent` for any threads, number of files, events and storages that satisfy
`LexiconAssumption` (the threads are finitely many, there is a file, the special values differ from each other
and from versions). `FreshInv` says that what is in the cache or being loaded is no older than what any
thread that reloads was told of the files, since versions only grow (`PastInv`). `UnracedInv`
follows the two members through the reload of the only thread there is as long as no race shows. `CalmInv`, while
files stand still, needs the owners to be counted: the cached storage has one for each thread
that holds it and one for the member (`Owned`), so nobody's release destroys it. How many
threads there are does not matter to that count, but it must be finite.

**The store.** `DictionaryStore_proofs` proves, for all values of the constants that satisfy
`StoreAssumption` (the words, entries and special values are distinct, the bounds are
numbers, a second blocker only without rollbacks), that every reachable state
satisfies `TypeOK`, `KeptIsOnDisk`, `LookupIsCurrent` and `SavedIsOnDisk`, that
every step satisfies `StartsFromFile` and `UnreadableIsKept`, and, when
nothing is rolled back, `BlockedStaysBlocked`.

What the properties say of the members must hold of every record that may
become the members: of each snapshot (`Good`, in `SnapshotsInv`) and of what the
reload cache remembers (`Trusted`). A save changes the files under all of these;
it keeps their claims because a snapshot is always an earlier state than the
members (`Before`: its commits are a prefix, its blocked entries a subset) and
because a saved file looks like none that is remembered. `BlockingInv` bounds a
copy about to be saved from both sides: no newer than the members, and no older
than any snapshot. `CacheInv` holds because everything that changes the contents
clears the caches, so that the generations given out twice are harmless.
`CopiesInv` adds, for `BlockedStaysBlocked`, that the copies under way are ordered
by their generations and that the file is behind each that may still be saved.

**The idle service.** `IdleModule_proofs` proves, for any set of hosts and any number of
starts that `HostsAssumption` allows, `TypeOK`, `SessionsCounted`,
`RegisteredIsOwned` and the action property `OnlyRacingStopLosesWorker`; and,
when there is one host, `SessionHasWorker` and `UnloadSafe`.

`IInv` has what the count alone does not say: the lock is held between
`Decrement` and `Unlock` (`LockInv`), only services at "active" are registered
(`RegisteredInv`), `running` outlasts the last session only while a host is between its
decrement and its stop (`RunningInv`), and an event the service holds is
the one its current worker has captured, with no number in use that no start has given out
(`HandlesInv`, `NumbersInv`). From these, every step that takes away a part of `HasWorker` belongs to
a call of `stop()`; with one host such a call means that no session is left. For
unloading, `AloneInv` follows the single worker through the host's call: alive
only if it is the service's own, held by handle while the host waits,
ended when the host has come back.

**Romaji.** `RomajiTyping_proofs` proves `NothingTypedIsLost` for any keys, any table and any bound
that satisfy `TypingAssumption`: letters and kana are glyphs, the bound is a number, no vowel is among
the letters that are normalized to others (`isVowel` looks at normalized letters, the grammar at typed
ones), and `Conversion` is the converter. TLC evaluates it in `romaji`. Nothing is assumed of the
entries of the table, which may be ambiguous.
What is typed being letters with the cursor among them (`TypeCorrect`), the rest is a fact about the
converter alone (`ConversionParses`). The scan and both parts of the grammar are recursive functions of
which the prover knows only that they are some function with their equation, if there is one.
That there is one is shown by the least length for which there would be none (`ScanExists`,
`ConfirmedExists`, `ComposingExists`). Then `Parsed` is kept by each
pass, one case for each rule: what is confirmed spells the letters up to some position,
and what is composing spells those from there to where the scan has come. It speaks of every
family of sets closed under the grammar's rules (`Confirms`, `Composes`), so that no equation of
the grammar is needed in the passes. Each pass goes on by a letter at least, so that as many
passes as there are letters end the scan.

**Segmentation.** `Learning_proofs` proves `SegmentationIsBest` (`ConversionCutsBest`): whatever
file was loaded and whatever was learned, blocked and reset since, the cut of every reading is
one of those with the highest score of all its cuts. It holds for any default entries, files, table
of spellings, limits and scores that satisfy `RankingAssumption`, `ScoreAssumption` and
`FileAssumption`, which give them their types and ranges and are
evaluated in `learning`; nothing is assumed of the readings and texts of the entries.

The invariant (`Inductive`) is only the types of what is learned: the words, with integer scores however
often a raise has wrapped around (`WrappedIsInt`), the counts of transitions, and the part of speech the
session was left with. What lies between it and the property is that the program is defined at all. A segment
is scored by its first candidate, so there must be one for every reading, also for one that no
dictionary knows (`FirstCandidateIs`): the candidates are finitely many (`FoundAre`), ranking them is a strict order
(`BetterIsTransitive`), so one of them is not below another (`SomeIsBest`), and the last resort, the
reading itself, is always among them. The spelling of a reading, the rebuilding of a
trie and the ways to each position are recursive functions, which must exist before
anything can be said of them (`SpellingExists`, `RebuildExists`, `FillExists`, `StatesExist`). Then the argument
is the one for a dynamic program. A segment's score depends on the part of speech before it and on nothing
else of the way that led there (`StepIs`); so if to every earlier position the program has, for each part of speech
some way ends in, one at least as good, led on it is at least as good here (`SolvedOn`), and throwing
away all but the best for each part of speech keeps that true (`Matched`).

**Predictions.** `PredictionsStayBest` proves `PredictionsAreBest`: in every state every
node of the user's trie lists the best of all words below it, as many as there are or fit, with none
left out that is better than one listed. It assumes no more than `SegmentationIsBest` does. Words may
tie, as 七 read しち and 七 read なな do with equal scores; which of them comes first is not said, since
`std::sort` does not say it, and no proof uses which order `OrderOf` chooses.

The invariant (`Sound`) has besides the types the shape of the trie: every node is reached through
nodes and every word has one (`Treed`). Two facts carry the proof. A word that the list of a child leaves
out has a whole list of words before it that are no worse, all of them below the parent too
(`PartHasBest`); so the lists of right children have all that their parent's needs, and a node
recomputed after them is right (`NodeIsRight`, `RecomputeIsRight`). And the orders in which
nodes are recomputed put every node after the nodes below it, as far as these are not right already
(`Listed`): the last made before the first when a file is loaded, since a node is made after those that
lead to it (`GrownOn`), and from the leaf to the root when a word is raised, since no word below a
node beside that path has changed (`RightElsewhere`). `RebuildIsRight` needs no more of either.
That a ranking puts each word in a place of its own is `RankedIs`: the place is the number of
words ahead of it (`Ahead`), the better ones and, of those that tie with it, the ones some order puts first.

**Blocking and commits.** `OnlySpellingsStay` proves `OnlySpellingsSurviveBlocking` and `CommitsOnlyRaise`
proves `CommitNeverDemotes`, for any lexicon, homographs included. The first needs nothing else
than the types. The second needs of the files that they are such as `saveToFile` writes (`FileAssumption`:
each word once, scores up to `MaxScore`, counts up to `MaxContextCount`), and of the integers that they have
room for the boosts (`RoomAssumption`): 600 and `MaxContextBoost` above `MaxScore`, which is 2000000000 of
2147483647 in the source. All assumptions are evaluated in `learning`.

For blocking, what is offered is fair (`OfferIs`): no blocked word is in it, and the spellings
of the reading are. What ranking, trimming (`ShownIs`) and reordering (`ReorderedAre`) make of it
has items of it only, and the reordered list has all that were there.

For commits, one dictionary favours a word against another (`Favours`): the word has a score
and boosts no lower, every other word has the same, and nothing else is new. A commit does this
(`CommitFavours`), also to a word it must add first. What is offered for one reading never ties, since each text is
offered once; so the place of a candidate is the number of better ones (`ShownPlace`), which cannot
grow (`StaysUp`). In predictions words of several readings meet and may tie, and a list sorted anew after a
commit may resolve any tie in another way, also between words the commit has nothing to do with.
`CommitNeverDemotes` therefore speaks of the predictions for a prefix where no two of the user's
words below it tie and no two of the candidates do (`OrderIsDecided`); there the best words of the
user are the old ones and the word (`BestStay`), so what stands before it
stood before it already (`OfferRaises`, `FrontShrinks`). When fallbacks are put
behind, the place of any other word is the number of better ones that are none
(`ReorderedPlace`), which cannot grow either (`StaysUpReordered`). That no boosted sum wraps around
(`UsualIsWithinBounds`) is where the invariant `Usual` is needed: each word is in the database once, with a
score from 0 to `MaxScore` and a reading that was typed or stands in lexicon or file. Every commit keeps it
(`LearningIsUsual`), and no boost exceeds its tables (`EntryBoostWithin`).

**The candidate element.** `TextService_proofs` proves, for every page size, list and page table,
that `update`, `SetPageIndex` and `SetSelection` leave the element on the page
of its selection (`ShowsSelectedPage`). The page the code's loop finds is the
one before the first that starts too late, which exists by the least-number
principle (`Smallest`).

**Only model-checked.** `ConfirmedIsStable` compares the scans of two buffers and is a fact about the
table: it fails for one that reads letters together which were confirmed apart.
`SessionIsServed` and `StopReturns` are liveness under fairness, out of the
prover's reach. `engine_context`, `romaji_digits` and `focus_loss` state what is not so.

## 6. What is not modelled

* Which virtual key is which character, Caps Lock, and the keyboard layout: a
  key is a kind of key. Key-up handlers, which never eat a key.
* Kana width, caret positions, the display cursor while converting: layout.
* The out-of-memory and exception paths of the standard library.
* Drawing, registration, logging, the JSON scanner of the settings: no
  decision of the input method depends on them beyond the flags.
* In `TextService`: the lifetime of the plain reference a queued edit session
  keeps to its service; an advise of a sink that fails for one context, on which nothing depends.
* In `IdleModule`: what a tick does to the dictionary it flushes, the server
  locks of the class factory, an allocation that fails. A worker may hold the last
  reference and then destroys a text service on its own thread (`RegisteredIsOwned`
  says only that the pointer was good).
* In `DictionaryStore`: when a flush is due, the parts of a save, several
  processes on one file. Two saves of the same size
  within one tick of the file system's clock would share a signature; in the model
  they never do.
* In the dictionary: numerals, dates and prices offered for digits, the bounds of the file format
  (once there are more than `kMaxEntryCount` entries no later save succeeds, `user_db.cpp:205`),
  `hasExactReading`, the lines of the TSV files and the categories their paths stand for.
* In `DefaultLexicon`: what becomes of the heap when a storage is released twice, and two states
  of a file with the same size and time. The caches of candidates do not ask for the lexicon's
  signature (`combinedGeneration`), so lists made before a reload outlast it; they are in
  `DictionaryStore`, which has no lexicon.

Some behaviour met on the way is in the models and has no run of its own:
a commit that is flushed at once and then rolled back stays in the file
while the dictionary counts as clean (`dictionary_persistence.cpp:174`), and is learned again at a
restart (no property forbids it: `KeptIsOnDisk` says that nothing kept is missing
from the file, not that nothing withdrawn is in it); a lexicon replaced between `findExact` and `entryAt` leaves a lookup with a destroyed list of
indices, or looks its indices up in the new storage (`default_db.cpp:96`, which is what `calm`
excludes and the word "undisturbed" above means);
a unit of more than four letters, as `kkkka`, is erased letter by letter, since the search for it
ends at four (`ime_engine.cpp:328`); Right may move the shown caret left, as from `ts|u`, since
the letters before it are converted without those behind (`ime_engine.cpp:474`); a
prediction is learned under the typed prefix and not under its own reading
(`ime_engine.cpp:406`); a commit of a fallback, as of the reading in katakana, may move it down in
the reordered predictions (`ime_engine_segments.cpp:116`), since its word may drive another fallback
out of the user's best words for the prefix (`dictionary_candidates.cpp:208`), and a word that moves
up behind both is then put before it, so `CommitNeverDemotes` compares a fallback's places before the
reordering.
