--------------------------- MODULE DictionaryStore ---------------------------
(***************************************************************************)
(* One Dictionary and its two files: what has been learned, what is        *)
(* blocked, when it reaches the disk, how a rollback takes it back, and    *)
(* what a restart finds.                                                   *)
(*                                                                         *)
(* Every call runs under Dictionary::mutex from end to end and is one      *)
(* action, except blockCandidate, which saves its copy under a second lock *)
(* after it has let the first go.  What a database holds is abstracted to  *)
(* the commits it has seen, in their order; when a flush is due, to a free *)
(* choice.                                                                 *)
(***************************************************************************)
EXTENDS Naturals, Sequences, SequencesExt

CONSTANTS
  Words,        \* a reading with the text committed for it
  Entries,      \* a reading with the text blocked for it
  NoWord,       \* lastCommittedSurfaceText when it is empty
  Owner,        \* the thread of the text service
  Blockers,     \* threads that call blockCandidate
  MaxCommits,   \* bound on the commits the user database has seen
  MaxDepth,     \* bound on the snapshots held at a time by nested calls
  Missing, Corrupt, Nothing

ASSUME StoreAssumption ==
  /\ NoWord \notin Words /\ MaxCommits \in Nat /\ MaxDepth \in Nat
  /\ Missing # Corrupt
  /\ Blockers \subseteq {Owner} \/ MaxDepth = 0
  /\ \A v \in {Missing, Corrupt, Nothing} : v \notin Seq(Words)
  /\ \A v \in {Missing, Corrupt, Nothing}, S \in SUBSET Entries : v # S

VARIABLES
  open,        \* whether the Dictionary exists
  dict,        \* its members, as far as SessionSnapshot has them
  cache,       \* exactCandidateCache or predictionCache, at one key
  snapshots,   \* the snapshots on the call stack of the owner, latest last
  blocking,    \* for each blocker, the copy it is about to save
  userFile, blackFile,
  reloadCache  \* g_reloadCache of this process

vars == <<open, dict, cache, snapshots, blocking, userFile, blackFile, reloadCache>>
files == <<userFile, blackFile>>

-----------------------------------------------------------------------------
(* Databases, files and caches *)

EmptyUser == [learned |-> <<>>, generation |-> 0]
EmptyBlack == [blocked |-> {}, generation |-> 0]
EmptyDict ==
  [user |-> EmptyUser, black |-> EmptyBlack, dirty |-> FALSE, saved |-> 0, context |-> 0,
   last |-> NoWord, userWritable |-> TRUE, blackWritable |-> TRUE]

(* A file: what it holds, and whether size and time of its last save are   *)
(* those that reloadCache remembers.                                       *)
NoFile == [content |-> Missing, remembered |-> FALSE]
Written(content) == [content |-> content, remembered |-> FALSE]
Remembered(file) == [file EXCEPT !.remembered = file.content # Missing]
Forgotten(file) == [file EXCEPT !.remembered = FALSE]
SameSignature(file, wasMissing) ==
  IF file.content = Missing THEN wasMissing ELSE file.remembered

OnDisk(file, empty) == IF file.content \in {Missing, Corrupt} THEN empty ELSE file.content

KeepCaches == UNCHANGED cache                                      \* mutant
ClearCaches == cache' = Nothing

CombinedGeneration == <<dict.user.generation, dict.black.generation, dict.context>>
Content == <<dict.user.learned, dict.black.blocked>>
IsCached == cache # Nothing /\ cache.generation = CombinedGeneration

-----------------------------------------------------------------------------
(* Learning *)

FlushesForgettingFailures(d) ==                                    \* mutant
  {[dict |-> d, file |-> userFile], [dict |-> [d EXCEPT !.dirty = FALSE], file |-> userFile]}
    \cup IF d.dirty /\ d.userWritable
         THEN {[dict |-> [d EXCEPT !.dirty = FALSE], file |-> Written(d.user.learned)]} ELSE {}
(* What flushUserDbNow, or flushUserDbIfDue, makes of the members and the  *)
(* file.                                                                   *)
Flushes(d) ==
  {[dict |-> d, file |-> userFile]}
    \cup IF d.dirty /\ d.userWritable
         THEN {[dict |-> [d EXCEPT !.dirty = FALSE], file |-> Written(d.user.learned)]} ELSE {}
FlushUser(d) == \E f \in Flushes(d) : dict' = f.dict /\ userFile' = f.file

(* The commit, with the transition from the one before.                    *)
Learned(d, word) ==
  [d EXCEPT
     !.user = [learned |-> Append(@.learned, word),
               generation |-> @.generation + (IF d.last = NoWord THEN 1 ELSE 2)],
     !.last = word, !.context = @ + 1, !.dirty = TRUE]

(* The owner is not itself in the middle of blockCandidate.                *)
OwnerFree == open /\ (Owner \in Blockers => blocking[Owner] = Nothing)

RecordCommit(word) ==
  /\ OwnerFree /\ Len(dict.user.learned) < MaxCommits
  /\ FlushUser(Learned(dict, word)) /\ ClearCaches
  /\ UNCHANGED <<open, snapshots, blocking, blackFile, reloadCache>>

ServicePersistence ==
  /\ open /\ FlushUser(dict)
  /\ UNCHANGED <<open, cache, snapshots, blocking, blackFile, reloadCache>>

(* getCandidatesShared and getPredictionsShared *)
Lookup ==
  /\ OwnerFree /\ ~IsCached
  /\ cache' = [generation |-> CombinedGeneration, of |-> Content]
  /\ UNCHANGED <<open, dict, snapshots, blocking, files, reloadCache>>

-----------------------------------------------------------------------------
(* Blocking *)

Blocked(black, entry) ==
  IF entry \in black.blocked THEN black
  ELSE [blocked |-> black.blocked \cup {entry}, generation |-> black.generation + 1]

Block(t, entry) ==
  /\ open /\ blocking[t] = Nothing
  /\ dict' = [dict EXCEPT !.black = Blocked(@, entry)]
  /\ blocking' = [blocking EXCEPT ![t] = Blocked(dict.black, entry)]
  /\ ClearCaches
  /\ UNCHANGED <<open, snapshots, files, reloadCache>>

SaveBlockedAnyOrder(t) ==                                          \* mutant
  /\ open /\ blocking[t] # Nothing
  /\ blocking' = [blocking EXCEPT ![t] = Nothing]
  /\ \/ UNCHANGED <<dict, blackFile>>
     \/ /\ dict.blackWritable
        /\ dict' = [dict EXCEPT !.saved = blocking[t].generation]
        /\ blackFile' = Written(blocking[t].blocked)
  /\ UNCHANGED <<open, cache, snapshots, userFile, reloadCache>>
SaveBlockedUnchecked(t) ==                                         \* mutant
  /\ open /\ blocking[t] # Nothing
  /\ blocking' = [blocking EXCEPT ![t] = Nothing]
  /\ \/ UNCHANGED <<dict, blackFile>>
     \/ /\ dict.blackWritable /\ blocking[t].generation > dict.saved
        /\ dict' = [dict EXCEPT !.saved = blocking[t].generation]
        /\ blackFile' \in {blackFile, Written(blocking[t].blocked)}
  /\ UNCHANGED <<open, cache, snapshots, userFile, reloadCache>>
(* Under blackDbSaveMutex; a copy older than the one last saved is dropped.*)
SaveBlocked(t) ==
  /\ open /\ blocking[t] # Nothing
  /\ blocking' = [blocking EXCEPT ![t] = Nothing]
  /\ \/ UNCHANGED <<dict, blackFile>>
     \/ /\ dict.blackWritable /\ blocking[t].generation > dict.saved
        /\ dict' = [dict EXCEPT !.saved = blocking[t].generation]
        /\ blackFile' = Written(blocking[t].blocked)
  /\ UNCHANGED <<open, cache, snapshots, userFile, reloadCache>>

(* flush saves both, the black list whatever its generation is.            *)
Flush ==
  /\ OwnerFree
  /\ \/ FlushUser(dict) /\ UNCHANGED blackFile
     \/ /\ dict.blackWritable /\ blackFile' = Written(dict.black.blocked)
        /\ FlushUser([dict EXCEPT !.saved = dict.black.generation])
  /\ UNCHANGED <<open, cache, snapshots, blocking, reloadCache>>

-----------------------------------------------------------------------------
(* Rollback: a call of TextService captures, and restores when what it did *)
(* could not be dispatched.  Calls nest, and end in the reverse order.     *)

CaptureSessionSnapshot ==
  /\ OwnerFree /\ Len(snapshots) < MaxDepth
  /\ snapshots' = Append(snapshots, dict)
  /\ UNCHANGED <<open, dict, cache, blocking, files, reloadCache>>

RestoreSessionSnapshot ==
  /\ OwnerFree /\ snapshots # <<>>
  /\ dict' = Last(snapshots) /\ snapshots' = Front(snapshots) /\ ClearCaches
  /\ UNCHANGED <<open, blocking, files, reloadCache>>

DropSnapshot ==
  /\ OwnerFree /\ snapshots # <<>>
  /\ snapshots' = Front(snapshots)
  /\ UNCHANGED <<open, dict, cache, blocking, files, reloadCache>>

-----------------------------------------------------------------------------
(* Start and end *)

LoadsWritable(file, empty, created) ==                             \* mutant
  LET without(f, writable) ==
        [content |-> empty, generation |-> 0, file |-> f, writable |-> writable]
  IN {without(file, TRUE), without(NoFile, TRUE)}
(* What reload can make of one file.  A missing one is created.  One that  *)
(* cannot be read, damaged or not, is set aside under another name.  Where *)
(* that fails the file is not written to any more.                         *)
Loads(file, empty, created) ==
  LET without(f, writable) ==
        [content |-> empty, generation |-> 0, file |-> f, writable |-> writable]
  IN {without(file, FALSE), without(NoFile, TRUE)}
       \cup (IF file.content = Missing THEN {without(created, TRUE)} ELSE {})
       \cup (IF file.content \in {Missing, Corrupt} THEN {}
             ELSE {[content |-> file.content, generation |-> 1, file |-> file, writable |-> TRUE]})

Opened(u, b) ==
  [EmptyDict EXCEPT
     !.user = [learned |-> u.content, generation |-> u.generation],
     !.black = [blocked |-> b.content, generation |-> b.generation],
     !.saved = b.generation, !.userWritable = u.writable, !.blackWritable = b.writable]

(* The signatures are taken after the load.  One that cannot be read keeps *)
(* the state from being remembered.                                        *)
OpenFromFiles ==
  /\ ~open /\ open' = TRUE
  /\ \E u \in Loads(userFile, <<>>, Written(<<>>)),
        b \in Loads(blackFile, {}, Written({})) :
       /\ dict' = Opened(u, b)
       /\ \/ /\ userFile' = u.file /\ blackFile' = b.file /\ UNCHANGED reloadCache
          \/ /\ userFile' = Remembered(u.file) /\ blackFile' = Remembered(b.file)
             /\ reloadCache' = [userMissing |-> u.file.content = Missing,
                                blackMissing |-> b.file.content = Missing, dict |-> dict']
  /\ UNCHANGED <<cache, snapshots, blocking>>

OpenFromCacheByUserFile ==                                         \* mutant
  /\ ~open /\ reloadCache # Nothing
  /\ SameSignature(userFile, reloadCache.userMissing)
  /\ open' = TRUE /\ dict' = reloadCache.dict
  /\ UNCHANGED <<cache, snapshots, blocking, files, reloadCache>>
(* A second Dictionary of the process finds both files as the first did.   *)
OpenFromCache ==
  /\ ~open /\ reloadCache # Nothing
  /\ SameSignature(userFile, reloadCache.userMissing)
  /\ SameSignature(blackFile, reloadCache.blackMissing)
  /\ open' = TRUE /\ dict' = reloadCache.dict
  /\ UNCHANGED <<cache, snapshots, blocking, files, reloadCache>>

Gone ==
  /\ open' = FALSE /\ dict' = EmptyDict /\ cache' = Nothing /\ snapshots' = <<>>
  /\ blocking' = [t \in Blockers |-> Nothing]

(* The destructor, once no call is under way.                              *)
Close ==
  /\ open /\ snapshots = <<>> /\ \A t \in Blockers : blocking[t] = Nothing
  /\ Gone /\ \E f \in Flushes(dict) : userFile' = f.file
  /\ UNCHANGED <<blackFile, reloadCache>>

(* The process ends, in whatever it was doing.  A save that was under way  *)
(* has replaced the file or not.                                           *)
Crash ==
  /\ open \/ reloadCache # Nothing
  /\ Gone /\ reloadCache' = Nothing
  /\ userFile' = Forgotten(userFile) /\ blackFile' = Forgotten(blackFile)

(* A file is damaged or deleted while nobody uses it.                      *)
Damage ==
  /\ ~open
  /\ \/ userFile' \in {NoFile, Written(Corrupt)} /\ UNCHANGED blackFile
     \/ blackFile' \in {NoFile, Written(Corrupt)} /\ UNCHANGED userFile
  /\ UNCHANGED <<open, dict, cache, snapshots, blocking, reloadCache>>

-----------------------------------------------------------------------------
Init ==
  /\ open = FALSE /\ dict = EmptyDict /\ cache = Nothing /\ snapshots = <<>>
  /\ blocking = [t \in Blockers |-> Nothing]
  /\ userFile = NoFile /\ blackFile = NoFile /\ reloadCache = Nothing

Next ==
  \/ \E word \in Words : RecordCommit(word)
  \/ ServicePersistence \/ Lookup \/ Flush
  \/ \E t \in Blockers : SaveBlocked(t) \/ \E entry \in Entries : Block(t, entry)
  \/ CaptureSessionSnapshot \/ RestoreSessionSnapshot \/ DropSnapshot
  \/ OpenFromFiles \/ OpenFromCache \/ Close \/ Crash \/ Damage

Spec == Init /\ [][Next]_vars

-----------------------------------------------------------------------------
(* Correctness *)

Learning == Seq(Words)
DictType ==
  [user : [learned : Learning, generation : Nat],
   black : [blocked : SUBSET Entries, generation : Nat],
   dirty : BOOLEAN, saved : Nat, context : Nat, last : Words \cup {NoWord},
   userWritable : BOOLEAN, blackWritable : BOOLEAN]
UserFileType == [content : {Missing, Corrupt} \cup Learning, remembered : BOOLEAN]
BlackFileType == [content : {Missing, Corrupt} \cup SUBSET Entries, remembered : BOOLEAN]

(* Every variable has its type, and lastBlackDbSavedGeneration is never    *)
(* ahead of the black list: a block would be taken for saved already.      *)
TypeOK ==
  /\ dict.saved <= dict.black.generation
  /\ open \in BOOLEAN /\ dict \in DictType
  /\ cache \in {Nothing} \cup [generation : Nat \X Nat \X Nat, of : Learning \X SUBSET Entries]
  /\ snapshots \in Seq(DictType)
  /\ blocking \in [Blockers -> {Nothing} \cup [blocked : SUBSET Entries, generation : Nat]]
  /\ userFile \in UserFileType /\ blackFile \in BlackFileType
  /\ reloadCache \in {Nothing} \cup [userMissing : BOOLEAN, blackMissing : BOOLEAN, dict : DictType]

(* When isUserDbDirty is down, all that is learned and not withdrawn is in *)
(* the file: a crash loses none of it.                                     *)
KeptIsOnDisk ==
  open /\ ~dict.dirty => IsPrefix(dict.user.learned, OnDisk(userFile, <<>>))

(* A candidate list that is answered from a cache is the one that would be *)
(* built now, though a rollback sets the generations back.                 *)
LookupIsCurrent == IsCached => cache.of = Content

(* When the generation last saved is the present one, every blocked        *)
(* candidate is in the file.                                               *)
SavedIsOnDisk ==
  open /\ dict.saved = dict.black.generation =>
    dict.black.blocked \subseteq OnDisk(blackFile, {})

(* With nobody rolling back, a candidate once blocked in the file stays    *)
(* there, whichever of two savers comes last.                              *)
BlockedStaysBlocked ==
  [][open /\ open' => OnDisk(blackFile, {}) \subseteq OnDisk(blackFile', {})]_vars

(* A Dictionary starts with what the file holds, from wherever it takes    *)
(* it, or the file has been set aside, or will not be written to.          *)
StartsFromFile ==
  [][~open /\ open' =>
       /\ dict'.user.learned = OnDisk(userFile, <<>>) \/ userFile' = NoFile \/ ~dict'.userWritable
       /\ dict'.black.blocked = OnDisk(blackFile, {}) \/ blackFile' = NoFile \/ ~dict'.blackWritable]_vars

(* What could not be read and not set aside is never written over.         *)
UnreadableIsKept ==
  [][open =>
       /\ userFile.content = Corrupt => userFile'.content = Corrupt
       /\ blackFile.content = Corrupt => blackFile'.content = Corrupt]_vars
=============================================================================
