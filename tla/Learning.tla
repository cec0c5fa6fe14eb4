------------------------------ MODULE Learning ------------------------------
(***************************************************************************)
(* A dictionary that learns: what commits, blocking and restarts make of   *)
(* the databases, and through them of every later answer.                  *)
(*                                                                         *)
(* Which text is committed for a reading is the user's choice among what   *)
(* is offered for it.  A prediction is learned under the reading that was  *)
(* typed, not under its own, as ImeEngine does.  Files and rollbacks are   *)
(* in DictionaryStore; a restart here finds everything saved.              *)
(***************************************************************************)
EXTENDS Segmentation

CONSTANTS
  Readings,      \* what is typed
  Texts,         \* bound on what is committed and blocked
  StartFiles,    \* user databases of earlier sessions
  MaxCommits,    \* bound on the commits
  MaxBlocked     \* bound on the blocked entries

ASSUME LearningAssumption ==
  /\ Readings \subseteq Seq(Nat) \ {<<>>} /\ Texts \subseteq Seq(Nat) \ {<<>>}
  /\ MaxCommits \in Nat /\ MaxBlocked \in Nat

(* A file is what saveToFile has written: each word once, with a score and *)
(* counts such as commits lead to, and with no part of speech.             *)
ASSUME FileAssumption ==
  \A file \in StartFiles :
    /\ file.entries \in Seq([reading : Seq(Nat), text : Seq(Nat), score : 0 .. MaxScore,
                             partOfSpeech : {"Unknown"}, category : {"None"}])
    /\ \A i, j \in DOMAIN file.entries :
         /\ file.entries[i].reading = file.entries[j].reading
         /\ file.entries[i].text = file.entries[j].text
         => i = j
    /\ \A key \in DOMAIN file.contexts : file.contexts[key] \in 1 .. MaxContextCount

(* The integers leave room for all boosts: 220 for a part of speech, 260   *)
(* for a surface, 120 for a full match and those of the transitions; at    *)
(* worst 160, 260 and 90, and 8 for each letter that is missing.           *)
ASSUME RoomAssumption ==
  /\ MaxScore + MaxContextBoost + 600 <= MaxInt
  /\ \A reading \in Readings \cup {e.reading : e \in ToSet(DefaultEntries)}
                     \cup UNION {{e.reading : e \in ToSet(file.entries)} : file \in StartFiles} :
       8 * Len(reading) + 510 <= MaxInt

VARIABLES
  dict,     \* the databases, and part of speech and surface committed last
  learned   \* the commits since the beginning, with their readings

vars == <<dict, learned>>

Offered(d, reading) ==
  {reading} \cup {c.text : c \in ToSet(Predictions(d, reading, d.pos, d.last))
                                    \cup ToSet(BuildExactCandidates(d, reading, d.pos, d.last))}

Learned(d, reading, text) ==
  LET user == IF d.last = <<>> THEN d.user
              ELSE RecordContextTransition(d.user, d.last, reading, text)
      after == [d EXCEPT !.user = Commit(user, reading, text), !.last = text]
  IN [after EXCEPT !.pos = LookupPartOfSpeech(after, reading, text)]

RecordCommit(reading, text) ==
  /\ Len(learned) < MaxCommits
  /\ dict' = Learned(dict, reading, text)
  /\ learned' = Append(learned, <<reading, text>>)

BlockCandidate(reading, text) ==
  /\ Cardinality(dict.black) < MaxBlocked
  /\ dict' = [dict EXCEPT !.black = @ \cup {<<reading, text>>}]
  /\ UNCHANGED learned

Started(user, black) ==
  [user |-> user, black |-> black, pos |-> "Unknown", last |-> <<>>]

Restart ==
  /\ dict' = Started(Loaded(Saved(dict.user)), dict.black)
  /\ UNCHANGED learned

Init ==
  /\ \E file \in StartFiles : dict = Started(Loaded(file), {})
  /\ learned = <<>>

Next ==
  \/ \E reading \in Readings : \E text \in Offered(dict, reading) \cap Texts :
       RecordCommit(reading, text) \/ BlockCandidate(reading, text)
  \/ Restart

Spec == Init /\ [][Next]_vars

-----------------------------------------------------------------------------
(* Correctness *)

(* A commit changes one leaf, and only the nodes above it are computed     *)
(* again; a start computes all of them from the last made to the first.    *)
(* Either way every node lists the best entries of everything below it,    *)
(* whichever of those that tie are sorted to the front.                    *)
PredictionsAreBest ==
  \A node \in DOMAIN dict.user.top : ListsBest(dict.user, node)

(* What precedes a lookup: nothing, or a word with its part of speech.     *)
Contexts ==
  {<<"Unknown", <<>>>>} \cup {<<e.partOfSpeech, e.text>> : e \in ToSet(DefaultEntries)}

Place(list, reading, text) ==
  LET i == SelectInSeq(list, LAMBDA c : c.reading = reading /\ c.text = text)
  IN IF i = 0 THEN Len(list) + 1 ELSE i

(* Which of the user's words below what is typed are the best, and how     *)
(* what is offered for it is ordered, does not hang on a tie.              *)
IsDecided(items) ==
  \A i, j \in DOMAIN items : Ties(items[i], items[j]) => i = j
OrderIsDecided(d, typed, pos, surface) ==
  /\ IsDecided(Restrict(d.user.entries, Below(d.user, typed)))
  /\ IsDecided([c \in PredictedCandidates(d, typed, PredictionLimit(typed), pos, surface) |-> c])

(* A commit never moves the word it commits down: not in the candidates of *)
(* its reading, not in the predictions for what leads to it, after nothing *)
(* and after any word, however often it has been committed before.  Of     *)
(* predictions this is so where no tie decides their order: a tie may be   *)
(* resolved in another way whenever a list is sorted again.  Of a fallback *)
(* it is so until the predictions are reordered: its commit may drive      *)
(* another one out of the user's best words, and a word that moves up      *)
(* behind both then goes before it.                                        *)
CommitNeverDemotes ==
  [][learned' # learned =>
       LET reading == Last(learned')[1]
           text == Last(learned')[2]
           predicted(d, typed, c) ==
             IF IsFallback(typed, [text |-> text])
             THEN BuildPredictionCandidates(d, typed, PredictionLimit(typed), c[1], c[2])
             ELSE Predictions(d, typed, c[1], c[2])
       IN \A c \in Contexts :
            /\ Place(BuildExactCandidates(dict', reading, c[1], c[2]), reading, text)
                 <= Place(BuildExactCandidates(dict, reading, c[1], c[2]), reading, text)
            /\ \A typed \in {r \in Readings : IsPrefix(r, reading)} :
                 OrderIsDecided(dict, typed, c[1], c[2]) =>
                   Place(predicted(dict', typed, c), reading, text)
                     <= Place(predicted(dict, typed, c), reading, text)]_vars

(* However much is blocked, every lookup finds something, and what it      *)
(* finds although it is blocked is the reading itself in other letters.    *)
OnlySpellingsSurviveBlocking ==
  \A c \in Contexts, typed \in Readings :
    \A list \in {BuildExactCandidates(dict, typed, c[1], c[2]), Predictions(dict, typed, c[1], c[2])} :
      /\ list # <<>>
      /\ \A i \in DOMAIN list :
           <<list[i].reading, list[i].text>> \in dict.black =>
             list[i].reading = typed /\ list[i].text \in {ToRomaji(typed), ToKatakana(typed)}

(* The cut of a reading is the best of all cuts, whatever has been learned *)
(* and whatever was committed last.                                        *)
SegmentationIsBest ==
  \A reading \in Readings :
    LET all == AllCuts(reading)
    IN \A cut \in Cuts(dict, reading) :
         IF all = {} THEN cut = Uncut(reading)
         ELSE cut \in all /\ \A other \in all : Total(dict, reading, other) <= Total(dict, reading, cut)

=============================================================================
