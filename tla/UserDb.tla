------------------------------- MODULE UserDb -------------------------------
(***************************************************************************)
(* dictionary::UserDb: the words the user has committed with their scores, *)
(* and how often a word followed another.  A database is a trie with the   *)
(* field contexts, a function from <<previous text, reading, text>>.       *)
(***************************************************************************)
EXTENDS LexiconTrie

CONSTANTS
  MaxScore,           \* kMaxScore
  CommitScore,        \* what a commit adds to a score
  MaxContextCount,    \* kMaxContextCount
  ContextBoostStep,   \* kContextBoostStep
  MaxContextBoost,    \* kMaxContextBoost
  MaxInt              \* INT32_MAX

ASSUME ScoreAssumption ==
  /\ MaxInt \in Nat /\ MaxScore \in 1 .. MaxInt /\ CommitScore \in 1 .. MaxScore
  /\ {MaxContextCount, ContextBoostStep, MaxContextBoost} \subseteq Nat
  /\ MaxContextCount * ContextBoostStep <= MaxInt

(* A sum as int32_t holds it. *)
Wrapped(n) == ((n + MaxInt + 1) % (2 * (MaxInt + 1))) - (MaxInt + 1)

RaisedBeyondMax(score) ==                                          \* mutant
  IF score > MaxScore THEN MaxScore ELSE Wrapped(score + CommitScore)
Raised(score) ==
  IF score > MaxScore - CommitScore THEN MaxScore ELSE Wrapped(score + CommitScore)

(* A database of a trie. *)
UserData(trie, contexts) ==
  [entries |-> trie.entries, nodes |-> trie.nodes, top |-> trie.top, contexts |-> contexts]

EnsureEntry(db, reading, text) ==
  IF IndexOf(db, reading, text) # 0 THEN db
  ELSE UserData(AddEntry(db, [reading |-> reading, text |-> text, score |-> 0,
                              partOfSpeech |-> "Unknown", category |-> "None"]),
                db.contexts)

Commit(db, reading, text) ==
  LET known == EnsureEntry(db, reading, text)
      i == IndexOf(known, reading, text)
      entry == [known.entries[i] EXCEPT !.score = Raised(@)]
  IN Rebuild([known EXCEPT !.entries = [@ EXCEPT ![i] = entry]], Path(reading))

RecordContextTransition(db, previous, reading, text) ==
  LET key == <<previous, reading, text>>
      count == IF key \in DOMAIN db.contexts THEN db.contexts[key] ELSE 0
  IN [db EXCEPT !.contexts = [k \in DOMAIN @ \cup {key} |->
                                IF k # key THEN @[k]
                                ELSE IF count < MaxContextCount THEN count + 1 ELSE count]]

(* Counts are positive: min(count * step, max) *)
ContextScore(db, previous, reading, text) ==
  LET key == <<previous, reading, text>> IN
  IF key \in DOMAIN db.contexts
  THEN Min({db.contexts[key] * ContextBoostStep, MaxContextBoost}) ELSE 0

(* What saveToFile writes and loadFromFile makes of it. *)
Saved(db) == [entries |-> db.entries, contexts |-> db.contexts]

Loaded(file) == UserData(BuildTrie(file.entries), file.contexts)
=============================================================================
