----------------------- MODULE DictionaryStore_proofs -----------------------
(***************************************************************************)
(* The dictionary and its files agree, for every set of words and entries, *)
(* every number of commits and every depth of nested calls.                *)
(*                                                                         *)
(* The argument: a rollback can install any snapshot on the stack, and a   *)
(* start what the reload cache remembers.  So what a property says of the  *)
(* members is required of each of these records too (Good, Trusted), and a *)
(* save keeps it because a snapshot never knows more than the members that *)
(* are saved (Before).                                                     *)
(***************************************************************************)
EXTENDS DictionaryStore, SequenceTheorems, TLAPS

-----------------------------------------------------------------------------
(* Prefixes *)

(* A prefix agrees with the whole up to its length.                        *)
LEMMA PrefixIs ==
  ASSUME NEW S, NEW s \in Seq(S), NEW t \in Seq(S)
  PROVE IsPrefix(s, t) <=> Len(s) <= Len(t) /\ \A i \in 1 .. Len(s) : s[i] = t[i]
  <1>1. CASE Len(s) <= Len(t)
    <2>1. /\ SubSeq(s, 1, Len(s)) \in Seq(S) /\ Len(SubSeq(s, 1, Len(s))) = Len(s)
          /\ \A i \in 1 .. Len(s) : SubSeq(s, 1, Len(s))[i] = s[i]
      BY SMT
    <2>2. /\ SubSeq(t, 1, Len(s)) \in Seq(S) /\ Len(SubSeq(t, 1, Len(s))) = Len(s)
          /\ \A i \in 1 .. Len(s) : SubSeq(t, 1, Len(s))[i] = t[i]
      BY <1>1, SMT
    <2>3. SubSeq(s, 1, Len(s)) = SubSeq(t, 1, Len(s)) <=> \A i \in 1 .. Len(s) : s[i] = t[i]
      BY <2>1, <2>2, SeqEqual
    <2> QED BY <1>1, <2>3 DEF IsPrefix
  <1> QED BY <1>1 DEF IsPrefix

(* Everything learned begins with itself.                                  *)
LEMMA PrefixReflexive ==
  ASSUME NEW S, NEW s \in Seq(S)
  PROVE IsPrefix(s, s)
  BY PrefixIs

(* What precedes a prefix precedes the whole.                              *)
LEMMA PrefixTransitive ==
  ASSUME NEW S, NEW r \in Seq(S), NEW s \in Seq(S), NEW t \in Seq(S),
         IsPrefix(r, s), IsPrefix(s, t)
  PROVE IsPrefix(r, t)
  BY PrefixIs

(* One more commit keeps every prefix.                                     *)
LEMMA PrefixAppend ==
  ASSUME NEW S, NEW s \in Seq(S), NEW t \in Seq(S), NEW x \in S, IsPrefix(s, t)
  PROVE IsPrefix(s, Append(t, x))
  <1>1. Len(s) <= Len(t) /\ \A i \in 1 .. Len(s) : s[i] = t[i]
    BY PrefixIs
  <1>2. Append(t, x) \in Seq(S)
    OBVIOUS
  <1>3. Len(Append(t, x)) = Len(t) + 1 /\ \A i \in 1 .. Len(t) : Append(t, x)[i] = t[i]
    OBVIOUS
  <1>4. Len(s) \in Nat /\ Len(t) \in Nat
    OBVIOUS
  <1>5. \A i \in 1 .. Len(s) : s[i] = Append(t, x)[i]
    BY <1>1, <1>3, <1>4
  <1>6. Len(s) <= Len(Append(t, x))
    BY <1>1, <1>3, <1>4
  <1> DEFINE u == Append(t, x)
  <1>7. u \in Seq(S) /\ Len(s) <= Len(u) /\ \A i \in 1 .. Len(s) : s[i] = u[i]
    BY <1>2, <1>5, <1>6
  <1>8. IsPrefix(s, u)
    <2> HIDE DEF u
    <2> QED BY <1>7, PrefixIs
  <1> QED BY <1>8

(* Nothing precedes everything.                                            *)
LEMMA EmptyPrefix ==
  ASSUME NEW S, NEW t \in Seq(S)
  PROVE IsPrefix(<<>>, t)
  <1>1. <<>> \in Seq(S) /\ Len(<<>>) = 0 /\ 1 .. 0 = {} /\ 0 <= Len(t)
    OBVIOUS
  <1> QED BY <1>1, PrefixIs

-----------------------------------------------------------------------------
(* The invariant *)

Closed == [t \in Blockers |-> Nothing]
UserDisk(u) == OnDisk(u, <<>>)
BlackDisk(b) == OnDisk(b, {})

(* What the members d may claim with the files u and b on the disk.        *)
Good(d, u, b) ==
  /\ d.saved <= d.black.generation
  /\ ~d.dirty => IsPrefix(d.user.learned, UserDisk(u))
  /\ d.saved = d.black.generation => d.black.blocked \subseteq BlackDisk(b)
  /\ u.content = Corrupt => ~d.userWritable
  /\ b.content = Corrupt => ~d.blackWritable

(* d was a state of the members from which e has come.                     *)
Before(d, e) ==
  /\ IsPrefix(d.user.learned, e.user.learned) /\ d.black.blocked \subseteq e.black.blocked
  /\ d.black.generation <= e.black.generation
  /\ d.userWritable = e.userWritable /\ d.blackWritable = e.blackWritable

SnapshotsInv ==
  /\ Len(snapshots) <= MaxDepth
  /\ \A i \in 1 .. Len(snapshots) :
       Good(snapshots[i], userFile, blackFile) /\ Before(snapshots[i], dict)
  /\ \A i, j \in 1 .. Len(snapshots) : i <= j => Before(snapshots[i], snapshots[j])

(* A copy about to be saved is of an earlier state of the black list, or   *)
(* of the present one, and no snapshot is later.                           *)
BlockingInv ==
  \A t \in Blockers : blocking[t] # Nothing =>
    /\ blocking[t].generation <= dict.black.generation
    /\ blocking[t].generation = dict.black.generation => blocking[t].blocked = dict.black.blocked
    /\ blocking[t].blocked \subseteq dict.black.blocked
    /\ \A i \in 1 .. Len(snapshots) : snapshots[i].black.blocked \subseteq blocking[t].blocked

ClosedInv == ~open => snapshots = <<>> /\ blocking = Closed /\ cache = Nothing /\ dict = EmptyDict

CacheInv == cache # Nothing => cache.of = Content

(* What the reload cache remembers is what the files hold, as long as they *)
(* have the signatures it remembers.                                       *)
Trusted(r, u, b) ==
  /\ ~r.dict.dirty /\ r.dict.saved = r.dict.black.generation
  /\ SameSignature(u, r.userMissing) =>
       /\ r.dict.user.learned = UserDisk(u) \/ (r.dict.user.learned = <<>> /\ ~r.dict.userWritable)
       /\ u.content = Corrupt => ~r.dict.userWritable
  /\ SameSignature(b, r.blackMissing) =>
       /\ r.dict.black.blocked = BlackDisk(b) \/ (r.dict.black.blocked = {} /\ ~r.dict.blackWritable)
       /\ b.content = Corrupt => ~r.dict.blackWritable
  /\ r.userMissing => r.dict.user.learned = <<>>
  /\ r.blackMissing => r.dict.black.blocked = {}

RememberedInv == reloadCache # Nothing => Trusted(reloadCache, userFile, blackFile)

IInv ==
  /\ TypeOK
  /\ open => Good(dict, userFile, blackFile)
  /\ SnapshotsInv /\ BlockingInv /\ ClosedInv /\ CacheInv /\ RememberedInv

-----------------------------------------------------------------------------
(* Files *)

ReloadType == [userMissing : BOOLEAN, blackMissing : BOOLEAN, dict : DictType]

(* What has just been saved is what the disk holds, and looks like no file *)
(* the reload cache has seen.                                              *)
LEMMA WrittenUser ==
  ASSUME NEW l \in Learning
  PROVE /\ Written(l) \in UserFileType /\ UserDisk(Written(l)) = l
        /\ Written(l).content # Corrupt /\ Written(l).content # Missing
        /\ \A m \in BOOLEAN : ~SameSignature(Written(l), m)
  <1>1. l # Missing /\ l # Corrupt
    BY StoreAssumption DEF StoreAssumption, Learning
  <1> QED BY <1>1 DEF Written, UserFileType, UserDisk, OnDisk, SameSignature

(* The same for the list of blocked candidates.                            *)
LEMMA WrittenBlack ==
  ASSUME NEW l \in SUBSET Entries
  PROVE /\ Written(l) \in BlackFileType /\ BlackDisk(Written(l)) = l
        /\ Written(l).content # Corrupt /\ Written(l).content # Missing
        /\ \A m \in BOOLEAN : ~SameSignature(Written(l), m)
  <1>1. l # Missing /\ l # Corrupt
    BY StoreAssumption DEF StoreAssumption
  <1> QED BY <1>1 DEF Written, BlackFileType, BlackDisk, OnDisk, SameSignature

(* A disk holds something learned, and a set of entries.                   *)
LEMMA DiskType ==
  ASSUME NEW u \in UserFileType, NEW b \in BlackFileType
  PROVE UserDisk(u) \in Learning /\ BlackDisk(b) \in SUBSET Entries
  <1>1. <<>> \in Learning
    BY DEF Learning
  <1> QED BY <1>1 DEF UserDisk, BlackDisk, OnDisk, UserFileType, BlackFileType

(* A save of later members keeps what earlier ones may claim.              *)
LEMMA UserSaveGood ==
  ASSUME NEW d \in DictType, NEW e \in DictType, NEW u, NEW b, Good(d, u, b), Before(d, e)
  PROVE Good(d, Written(e.user.learned), b)
  <1>1. e.user.learned \in Learning
    BY DEF DictType
  <1> QED BY <1>1, WrittenUser DEF Good, Before

(* A save of a longer black list keeps what the members may claim.         *)
LEMMA BlackSaveGood ==
  ASSUME NEW d \in DictType, NEW u, NEW b, NEW l \in SUBSET Entries,
         Good(d, u, b), d.black.blocked \subseteq l
  PROVE Good(d, u, Written(l))
  BY WrittenBlack DEF Good

(* A save makes the reload cache useless, and so keeps it right.           *)
LEMMA SaveTrusted ==
  ASSUME NEW r \in ReloadType, NEW u, NEW b, Trusted(r, u, b)
  PROVE /\ \A l \in Learning : Trusted(r, Written(l), b)
        /\ \A l \in SUBSET Entries : Trusted(r, u, Written(l))
  BY WrittenUser, WrittenBlack DEF Trusted, ReloadType

(* Earlier is transitive, and every state is as early as itself.           *)
LEMMA BeforeOrder ==
  ASSUME NEW c \in DictType, NEW d \in DictType, NEW e \in DictType
  PROVE /\ Before(d, d)
        /\ Before(c, d) /\ Before(d, e) => Before(c, e)
  <1>1. /\ c.user.learned \in Seq(Words) /\ d.user.learned \in Seq(Words)
        /\ e.user.learned \in Seq(Words)
        /\ c.black.generation \in Nat /\ d.black.generation \in Nat /\ e.black.generation \in Nat
    BY DEF DictType, Learning
  <1>2. IsPrefix(d.user.learned, d.user.learned)
    BY <1>1, PrefixReflexive
  <1>3. IsPrefix(c.user.learned, d.user.learned) /\ IsPrefix(d.user.learned, e.user.learned)
          => IsPrefix(c.user.learned, e.user.learned)
    BY <1>1, PrefixTransitive
  <1> QED BY <1>1, <1>2, <1>3 DEF Before

-----------------------------------------------------------------------------
(* Flushing *)

(* A flush, done or not, leaves members and file in agreement, for the     *)
(* members, for every earlier state of them and for the reload cache.      *)
LEMMA FlushGood ==
  ASSUME userFile \in UserFileType, NEW b \in BlackFileType, NEW d \in DictType,
         Good(d, userFile, b), NEW f \in Flushes(d)
  PROVE /\ f.dict \in DictType /\ f.file \in UserFileType
        /\ Good(f.dict, f.file, b) /\ Before(d, f.dict)
        /\ f.dict.black = d.black /\ f.dict.user = d.user
        /\ \A c \in DictType : Good(c, userFile, b) /\ Before(c, d) => Good(c, f.file, b)
        /\ \A r \in ReloadType : Trusted(r, userFile, b) => Trusted(r, f.file, b)
        /\ userFile.content = Corrupt => f.file = userFile
  <1>1. CASE f = [dict |-> d, file |-> userFile]
    <2>1. f.dict = d /\ f.file = userFile
      BY <1>1
    <2> QED BY <2>1, BeforeOrder
  <1>2. CASE /\ d.userWritable
             /\ f = [dict |-> [d EXCEPT !.dirty = FALSE], file |-> Written(d.user.learned)]
    <2>1. f.dict = [d EXCEPT !.dirty = FALSE] /\ f.file = Written(d.user.learned)
      BY <1>2
    <2>2. d.user.learned \in Learning /\ f.dict \in DictType
      BY <2>1 DEF DictType
    <2>3. /\ f.dict.black = d.black /\ f.dict.user = d.user /\ f.dict.saved = d.saved
          /\ f.dict.userWritable = d.userWritable /\ f.dict.blackWritable = d.blackWritable
      BY <2>1 DEF DictType
    <2>4. IsPrefix(d.user.learned, d.user.learned) /\ d.black.generation \in Nat
      BY <2>2, PrefixReflexive DEF Learning, DictType
    <2>5. f.file \in UserFileType /\ UserDisk(f.file) = d.user.learned /\ f.file.content # Corrupt
      BY <2>1, <2>2, WrittenUser
    <2>6. Good(f.dict, f.file, b)
      BY <2>3, <2>4, <2>5 DEF Good
    <2>7. Before(d, f.dict)
      BY <2>3, <2>4 DEF Before
    <2>8. \A c \in DictType : Good(c, userFile, b) /\ Before(c, d) => Good(c, f.file, b)
      BY <2>1, UserSaveGood
    <2>9. \A r \in ReloadType : Trusted(r, userFile, b) => Trusted(r, f.file, b)
      BY <2>1, <2>2, SaveTrusted
    <2>10. userFile.content # Corrupt
      BY <1>2 DEF Good
    <2> QED BY <2>2, <2>3, <2>5, <2>6, <2>7, <2>8, <2>9, <2>10
  <1> QED BY <1>1, <1>2 DEF Flushes

-----------------------------------------------------------------------------
(* Steps of an open dictionary *)

(* What the type invariant says of the members and the snapshots.          *)
LEMMA MembersTyped ==
  ASSUME TypeOK
  PROVE /\ dict \in DictType /\ userFile \in UserFileType /\ blackFile \in BlackFileType
        /\ \A i \in 1 .. Len(snapshots) : snapshots[i] \in DictType
        /\ Len(snapshots) \in Nat
        /\ reloadCache # Nothing => reloadCache \in ReloadType
  BY DEF TypeOK, ReloadType

(* A step that takes the members forward keeps the invariant when it keeps *)
(* what every earlier state of them and the reload cache may claim.        *)
LEMMA ForwardInv ==
  ASSUME IInv, open, UNCHANGED <<open, snapshots, reloadCache>>,
         dict' \in DictType, userFile' \in UserFileType, blackFile' \in BlackFileType,
         Good(dict', userFile', blackFile'), Before(dict, dict'),
         \A c \in DictType : Good(c, userFile, blackFile) /\ Before(c, dict)
                               => Good(c, userFile', blackFile'),
         \A r \in ReloadType : Trusted(r, userFile, blackFile) => Trusted(r, userFile', blackFile'),
         blocking' \in [Blockers -> {Nothing} \cup [blocked : SUBSET Entries, generation : Nat]],
         BlockingInv',
         cache' = Nothing \/ (cache' = cache /\ Content' = Content)
  PROVE IInv'
  <1>1. /\ TypeOK /\ SnapshotsInv /\ CacheInv /\ RememberedInv
    BY DEF IInv
  <1>2. /\ dict \in DictType /\ \A i \in 1 .. Len(snapshots) : snapshots[i] \in DictType
        /\ reloadCache # Nothing => reloadCache \in ReloadType
    BY <1>1, MembersTyped
  <1>3. TypeOK'
    <2>1. dict'.saved <= dict'.black.generation
      BY DEF Good
    <2> QED BY <1>1, <2>1 DEF TypeOK
  <1>4. SnapshotsInv'
    <2>1. \A i \in 1 .. Len(snapshots) :
            Good(snapshots[i], userFile', blackFile') /\ Before(snapshots[i], dict')
      BY <1>1, <1>2, BeforeOrder DEF SnapshotsInv
    <2> QED BY <1>1, <2>1 DEF SnapshotsInv
  <1>5. RememberedInv'
    BY <1>1, <1>2 DEF RememberedInv
  <1>6. CacheInv'
    <2>1. CASE cache' = Nothing
      BY <2>1 DEF CacheInv
    <2>2. CASE cache' = cache /\ Content' = Content
      <3>1. cache' # Nothing => cache'.of = Content
        BY <1>1, <2>2 DEF CacheInv
      <3> QED BY <2>2, <3>1, Zenon DEF CacheInv
    <2> QED BY <2>1, <2>2
  <1>7. ClosedInv'
    BY DEF ClosedInv
  <1> QED BY <1>3, <1>4, <1>5, <1>6, <1>7 DEF IInv

(* Copies stay what they are while the black list is not touched.          *)
LEMMA BlockingKept ==
  ASSUME BlockingInv, UNCHANGED <<blocking, snapshots>>, dict'.black = dict.black
  PROVE BlockingInv'
  BY DEF BlockingInv

(* What a commit makes of the members.                                     *)
LEMMA LearnedMembers ==
  ASSUME dict \in DictType, NEW word \in Words
  PROVE /\ Learned(dict, word) \in DictType /\ Learned(dict, word).dirty
        /\ Learned(dict, word).black = dict.black /\ Learned(dict, word).saved = dict.saved
        /\ Learned(dict, word).user.learned = Append(dict.user.learned, word)
        /\ Learned(dict, word).userWritable = dict.userWritable
        /\ Learned(dict, word).blackWritable = dict.blackWritable
  <1> DEFINE user == [learned |-> Append(dict.user.learned, word),
                      generation |-> dict.user.generation + (IF dict.last = NoWord THEN 1 ELSE 2)]
             d == Learned(dict, word)
  <1>1. d = [dict EXCEPT !.user = user, !.last = word, !.context = dict.context + 1, !.dirty = TRUE]
    BY DEF Learned, DictType
  <1>2. user \in [learned : Learning, generation : Nat]
    BY DEF DictType, Learning
  <1>3. user.learned = Append(dict.user.learned, word)
    OBVIOUS
  <1>4. dict.context + 1 \in Nat
    BY DEF DictType
  <1> HIDE DEF user, d
  <1>5. /\ d \in DictType /\ d.dirty /\ d.black = dict.black /\ d.saved = dict.saved
        /\ d.user.learned = Append(dict.user.learned, word)
        /\ d.userWritable = dict.userWritable /\ d.blackWritable = dict.blackWritable
    BY <1>1, <1>2, <1>3, <1>4 DEF DictType
  <1> QED BY <1>5, Zenon DEF d

(* A commit, flushed at once or not, keeps the invariant.                  *)
LEMMA RecordCommitInv ==
  ASSUME IInv, NEW word \in Words, RecordCommit(word)
  PROVE IInv'
  <1> DEFINE d == Learned(dict, word)
  <1>1. /\ TypeOK /\ BlockingInv /\ Good(dict, userFile, blackFile) /\ open
    BY DEF IInv, RecordCommit, OwnerFree
  <1>2. dict \in DictType /\ userFile \in UserFileType /\ blackFile \in BlackFileType
    BY <1>1, MembersTyped
  <1>3. /\ d \in DictType /\ d.dirty /\ d.black = dict.black /\ d.saved = dict.saved
        /\ d.user.learned = Append(dict.user.learned, word)
        /\ d.userWritable = dict.userWritable /\ d.blackWritable = dict.blackWritable
    BY <1>2, LearnedMembers
  <1>4. dict.user.learned \in Seq(Words) /\ dict.black.generation \in Nat
    BY <1>2 DEF DictType, Learning
  <1>5. IsPrefix(dict.user.learned, d.user.learned)
    BY <1>3, <1>4, PrefixReflexive, PrefixAppend
  <1>6. Before(dict, d)
    BY <1>3, <1>4, <1>5 DEF Before
  <1>7. Good(d, userFile, blackFile)
    BY <1>1, <1>3 DEF Good
  <1>8. PICK f \in Flushes(d) : dict' = f.dict /\ userFile' = f.file
    BY DEF RecordCommit, FlushUser
  <1>9. /\ cache' = Nothing /\ blackFile' = blackFile
        /\ UNCHANGED <<open, snapshots, blocking, reloadCache>>
    BY DEF RecordCommit, ClearCaches
  <1> HIDE DEF d
  <1>10. /\ f.dict \in DictType /\ f.file \in UserFileType
         /\ Good(f.dict, f.file, blackFile) /\ Before(d, f.dict)
         /\ f.dict.black = d.black
         /\ \A c \in DictType : Good(c, userFile, blackFile) /\ Before(c, d) => Good(c, f.file, blackFile)
         /\ \A r \in ReloadType : Trusted(r, userFile, blackFile) => Trusted(r, f.file, blackFile)
    BY <1>2, <1>3, <1>7, FlushGood
  <1>11. Before(dict, dict')
    BY <1>2, <1>3, <1>6, <1>8, <1>10, BeforeOrder
  <1>12. \A c \in DictType : Good(c, userFile, blackFile) /\ Before(c, dict)
                               => Good(c, userFile', blackFile')
    BY <1>2, <1>3, <1>6, <1>8, <1>9, <1>10, BeforeOrder
  <1>13. BlockingInv'
    BY <1>1, <1>3, <1>8, <1>9, <1>10, BlockingKept
  <1>14. blocking' \in [Blockers -> {Nothing} \cup [blocked : SUBSET Entries, generation : Nat]]
    BY <1>1, <1>9 DEF TypeOK
  <1> QED BY <1>1, <1>2, <1>8, <1>9, <1>10, <1>11, <1>12, <1>13, <1>14, ForwardInv

(* The idle flush keeps the invariant.                                     *)
LEMMA ServiceInv ==
  ASSUME IInv, ServicePersistence
  PROVE IInv'
  <1>1. /\ TypeOK /\ BlockingInv /\ Good(dict, userFile, blackFile) /\ open
    BY DEF IInv, ServicePersistence
  <1>2. dict \in DictType /\ userFile \in UserFileType /\ blackFile \in BlackFileType
    BY <1>1, MembersTyped
  <1>3. PICK f \in Flushes(dict) : dict' = f.dict /\ userFile' = f.file
    BY DEF ServicePersistence, FlushUser
  <1>4. /\ cache' = cache /\ blackFile' = blackFile
        /\ UNCHANGED <<open, snapshots, blocking, reloadCache>>
    BY DEF ServicePersistence
  <1>5. /\ f.dict \in DictType /\ f.file \in UserFileType
        /\ Good(f.dict, f.file, blackFile) /\ Before(dict, f.dict)
        /\ f.dict.black = dict.black /\ f.dict.user = dict.user
        /\ \A c \in DictType : Good(c, userFile, blackFile) /\ Before(c, dict) => Good(c, f.file, blackFile)
        /\ \A r \in ReloadType : Trusted(r, userFile, blackFile) => Trusted(r, f.file, blackFile)
    BY <1>1, <1>2, FlushGood
  <1>6. BlockingInv' /\ Content' = Content
    BY <1>1, <1>3, <1>4, <1>5, BlockingKept DEF Content
  <1>7. blocking' \in [Blockers -> {Nothing} \cup [blocked : SUBSET Entries, generation : Nat]]
    BY <1>1, <1>4 DEF TypeOK
  <1> QED BY <1>1, <1>2, <1>3, <1>4, <1>5, <1>6, <1>7, ForwardInv

(* A list built now is the one cached.                                     *)
LEMMA LookupInv ==
  ASSUME IInv, Lookup
  PROVE IInv'
  <1>1. /\ TypeOK /\ open /\ dict \in DictType
        /\ UNCHANGED <<open, dict, snapshots, blocking, userFile, blackFile, reloadCache>>
        /\ cache' = [generation |-> CombinedGeneration, of |-> Content]
    BY MembersTyped DEF IInv, Lookup, OwnerFree, files
  <1>2. CombinedGeneration \in Nat \X Nat \X Nat /\ Content \in Learning \X SUBSET Entries
    BY <1>1 DEF DictType, CombinedGeneration, Content
  <1>3. TypeOK'
    BY <1>1, <1>2 DEF TypeOK
  <1>4. CacheInv'
    BY <1>1 DEF CacheInv, Content
  <1>5. SnapshotsInv' /\ BlockingInv' /\ ClosedInv' /\ RememberedInv'
    BY <1>1 DEF IInv, SnapshotsInv, BlockingInv, ClosedInv, RememberedInv
  <1>6. open' => Good(dict', userFile', blackFile')
    BY <1>1 DEF IInv
  <1> QED BY <1>3, <1>4, <1>5, <1>6 DEF IInv

(* Saving the whole black list is a step forward for everything that       *)
(* claims something of it.                                                 *)
LEMMA FlushInv ==
  ASSUME IInv, Flush
  PROVE IInv'
  <1>1. /\ TypeOK /\ BlockingInv /\ Good(dict, userFile, blackFile) /\ open
    BY DEF IInv, Flush, OwnerFree
  <1>2. dict \in DictType /\ userFile \in UserFileType /\ blackFile \in BlackFileType
    BY <1>1, MembersTyped
  <1>3. /\ cache' = cache
        /\ UNCHANGED <<open, snapshots, blocking, reloadCache>>
    BY DEF Flush
  <1>4. blocking' \in [Blockers -> {Nothing} \cup [blocked : SUBSET Entries, generation : Nat]]
    BY <1>1, <1>3 DEF TypeOK
  <1>5. CASE FlushUser(dict) /\ UNCHANGED blackFile
    <2>1. ServicePersistence
      BY <1>1, <1>3, <1>5 DEF ServicePersistence
    <2> QED BY <2>1, ServiceInv
  <1>6. CASE /\ dict.blackWritable /\ blackFile' = Written(dict.black.blocked)
             /\ FlushUser([dict EXCEPT !.saved = dict.black.generation])
    <2> DEFINE d == [dict EXCEPT !.saved = dict.black.generation]
    <2>1. /\ d \in DictType /\ d.black = dict.black /\ d.user = dict.user /\ d.dirty = dict.dirty
          /\ d.saved = dict.black.generation
          /\ d.userWritable = dict.userWritable /\ d.blackWritable = dict.blackWritable
      BY <1>2 DEF DictType
    <2>2. PICK f \in Flushes(d) : dict' = f.dict /\ userFile' = f.file
      BY <1>6 DEF FlushUser
    <2>3. dict.black.blocked \in SUBSET Entries /\ dict.black.generation \in Nat
          /\ dict.user.learned \in Seq(Words)
      BY <1>2 DEF DictType, Learning
    <2>4. /\ blackFile' \in BlackFileType /\ BlackDisk(blackFile') = dict.black.blocked
          /\ blackFile'.content # Corrupt
      BY <1>6, <2>3, WrittenBlack
    <2> HIDE DEF d
    <2>5. Good(d, userFile, blackFile')
      BY <1>1, <2>1, <2>3, <2>4 DEF Good
    <2>6. IsPrefix(dict.user.learned, dict.user.learned)
      BY <2>3, PrefixReflexive
    <2>7. Before(dict, d) /\ \A c \in DictType : Before(c, dict) => Before(c, d)
      BY <1>2, <2>1, <2>3, <2>6, BeforeOrder DEF Before
    <2>8. /\ f.dict \in DictType /\ f.file \in UserFileType
          /\ Good(f.dict, f.file, blackFile') /\ Before(d, f.dict)
          /\ f.dict.black = d.black /\ f.dict.user = d.user
          /\ \A c \in DictType :
               Good(c, userFile, blackFile') /\ Before(c, d) => Good(c, f.file, blackFile')
          /\ \A r \in ReloadType : Trusted(r, userFile, blackFile') => Trusted(r, f.file, blackFile')
      BY <1>2, <2>1, <2>4, <2>5, FlushGood
    <2>9. Before(dict, dict')
      BY <1>2, <2>1, <2>2, <2>7, <2>8, BeforeOrder
    <2>10. \A c \in DictType : Good(c, userFile, blackFile) /\ Before(c, dict)
                                 => Good(c, userFile', blackFile')
      <3>1. \A c \in DictType : Good(c, userFile, blackFile) /\ Before(c, dict)
                                  => Good(c, userFile, blackFile')
        BY <1>6, <2>3, BlackSaveGood DEF Before
      <3> QED BY <2>2, <2>7, <2>8, <3>1
    <2>11. \A r \in ReloadType : Trusted(r, userFile, blackFile) => Trusted(r, userFile', blackFile')
      <3>1. \A r \in ReloadType : Trusted(r, userFile, blackFile) => Trusted(r, userFile, blackFile')
        BY <1>6, <2>3, SaveTrusted
      <3> QED BY <2>2, <2>8, <3>1
    <2>12. BlockingInv' /\ Content' = Content
      BY <1>1, <1>3, <2>1, <2>2, <2>8, BlockingKept DEF Content
    <2> QED BY <1>1, <1>3, <1>4, <2>2, <2>4, <2>8, <2>9, <2>10, <2>11, <2>12, ForwardInv
  <1> QED BY <1>5, <1>6 DEF Flush

(* A newly blocked candidate is ahead of every copy under way.             *)
LEMMA BlockInv ==
  ASSUME IInv, NEW t \in Blockers, NEW entry \in Entries, Block(t, entry)
  PROVE IInv'
  <1> DEFINE black == Blocked(dict.black, entry)
  <1>1. /\ TypeOK /\ BlockingInv /\ SnapshotsInv /\ Good(dict, userFile, blackFile) /\ open
    BY DEF IInv, Block
  <1>2. dict \in DictType /\ userFile \in UserFileType /\ blackFile \in BlackFileType
    BY <1>1, MembersTyped
  <1>3. /\ dict' = [dict EXCEPT !.black = black] /\ blocking' = [blocking EXCEPT ![t] = black]
        /\ cache' = Nothing
        /\ UNCHANGED <<open, snapshots, userFile, blackFile, reloadCache>>
    BY DEF Block, ClearCaches, files
  <1>4. /\ dict.black \in [blocked : SUBSET Entries, generation : Nat] /\ dict.saved \in Nat
        /\ dict.user.learned \in Seq(Words)
    BY <1>2 DEF DictType, Learning
  <1>5. /\ black \in [blocked : SUBSET Entries, generation : Nat]
        /\ dict.black.blocked \subseteq black.blocked
        /\ black.generation >= dict.black.generation
        /\ black.generation = dict.black.generation => black = dict.black
    BY <1>4 DEF Blocked
  <1> HIDE DEF black
  <1>6. /\ dict' \in DictType /\ dict'.black = black /\ dict'.user = dict.user
        /\ dict'.dirty = dict.dirty /\ dict'.saved = dict.saved
        /\ dict'.userWritable = dict.userWritable /\ dict'.blackWritable = dict.blackWritable
    BY <1>2, <1>3, <1>5 DEF DictType
  <1>7. Good(dict', userFile', blackFile')
    BY <1>1, <1>3, <1>4, <1>5, <1>6 DEF Good
  <1>8. IsPrefix(dict.user.learned, dict.user.learned)
    BY <1>4, PrefixReflexive
  <1>9. Before(dict, dict')
    BY <1>4, <1>5, <1>6, <1>8 DEF Before
  <1>10. /\ blocking \in [Blockers -> {Nothing} \cup [blocked : SUBSET Entries, generation : Nat]]
         /\ blocking' \in [Blockers -> {Nothing} \cup [blocked : SUBSET Entries, generation : Nat]]
    BY <1>1, <1>3, <1>5 DEF TypeOK
  <1>11. BlockingInv'
    <2>1. \A i \in 1 .. Len(snapshots) : snapshots[i].black.blocked \subseteq dict.black.blocked
      BY <1>1 DEF SnapshotsInv, Before
    <2>2. blocking'[t] = black
      BY <1>3, <1>10
    <2>3. ASSUME NEW q \in Blockers, blocking'[q] # Nothing
          PROVE /\ blocking'[q].generation <= dict'.black.generation
                /\ blocking'[q].generation = dict'.black.generation
                     => blocking'[q].blocked = dict'.black.blocked
                /\ blocking'[q].blocked \subseteq dict'.black.blocked
                /\ \A i \in 1 .. Len(snapshots) :
                     snapshots[i].black.blocked \subseteq blocking'[q].blocked
      <3>1. CASE q = t
        BY <1>5, <1>6, <2>1, <2>2, <3>1
      <3>2. CASE q # t
        <4>1. blocking'[q] = blocking[q]
          BY <1>3, <1>10, <3>2
        <4>2. blocking[q].generation \in Nat
          BY <1>10, <2>3, <4>1
        <4>3. /\ blocking[q].generation <= dict.black.generation
              /\ blocking[q].generation = dict.black.generation
                   => blocking[q].blocked = dict.black.blocked
              /\ blocking[q].blocked \subseteq dict.black.blocked
              /\ \A i \in 1 .. Len(snapshots) :
                   snapshots[i].black.blocked \subseteq blocking[q].blocked
          BY <1>1, <2>3, <4>1 DEF BlockingInv
        <4> QED BY <1>4, <1>5, <1>6, <4>1, <4>2, <4>3
      <3> QED BY <3>1, <3>2
    <2> QED BY <1>3, <2>3 DEF BlockingInv
  <1> QED BY <1>1, <1>2, <1>3, <1>6, <1>7, <1>9, <1>10, <1>11, ForwardInv

(* A copy newer than the last one saved holds whatever the earlier states  *)
(* claim of the file, and the present one when it is not older than it.    *)
LEMMA SaveBlockedInv ==
  ASSUME IInv, NEW t \in Blockers, SaveBlocked(t)
  PROVE IInv'
  <1>1. /\ TypeOK /\ BlockingInv /\ SnapshotsInv /\ Good(dict, userFile, blackFile) /\ open
        /\ blocking[t] # Nothing
    BY DEF IInv, SaveBlocked
  <1>2. dict \in DictType /\ userFile \in UserFileType /\ blackFile \in BlackFileType
    BY <1>1, MembersTyped
  <1>3. /\ blocking' = [blocking EXCEPT ![t] = Nothing] /\ cache' = cache
        /\ UNCHANGED <<open, snapshots, userFile, reloadCache>>
    BY DEF SaveBlocked
  <1>4. /\ blocking \in [Blockers -> {Nothing} \cup [blocked : SUBSET Entries, generation : Nat]]
        /\ blocking' \in [Blockers -> {Nothing} \cup [blocked : SUBSET Entries, generation : Nat]]
    BY <1>1, <1>3 DEF TypeOK
  <1>5. blocking[t].blocked \in SUBSET Entries /\ blocking[t].generation \in Nat
    BY <1>1, <1>4
  <1>6. /\ blocking[t].generation <= dict.black.generation
        /\ blocking[t].generation = dict.black.generation => blocking[t].blocked = dict.black.blocked
        /\ \A i \in 1 .. Len(snapshots) : snapshots[i].black.blocked \subseteq blocking[t].blocked
    BY <1>1 DEF BlockingInv
  <1>7. /\ dict.user.learned \in Seq(Words) /\ dict.black.generation \in Nat /\ dict.saved \in Nat
    BY <1>2 DEF DictType, Learning
  <1>8. IsPrefix(dict.user.learned, dict.user.learned)
    BY <1>7, PrefixReflexive
  <1>9. ASSUME dict'.black = dict.black
        PROVE BlockingInv'
    <2>1. \A q \in Blockers : blocking'[q] # Nothing => blocking'[q] = blocking[q]
      BY <1>3, <1>4
    <2> QED BY <1>1, <1>3, <1>9, <2>1 DEF BlockingInv
  <1>10. CASE UNCHANGED <<dict, blackFile>>
    <2>1. BlockingInv' /\ Content' = Content
      BY <1>9, <1>10 DEF Content
    <2>2. Before(dict, dict')
      BY <1>2, <1>10, BeforeOrder
    <2> QED BY <1>1, <1>2, <1>3, <1>4, <1>10, <2>1, <2>2, ForwardInv
  <1>11. CASE /\ dict.blackWritable /\ blocking[t].generation > dict.saved
              /\ dict' = [dict EXCEPT !.saved = blocking[t].generation]
              /\ blackFile' = Written(blocking[t].blocked)
    <2>1. /\ dict' \in DictType /\ dict'.black = dict.black /\ dict'.user = dict.user
          /\ dict'.dirty = dict.dirty /\ dict'.saved = blocking[t].generation
          /\ dict'.userWritable = dict.userWritable /\ dict'.blackWritable = dict.blackWritable
      BY <1>2, <1>5, <1>11 DEF DictType
    <2>2. /\ blackFile' \in BlackFileType /\ BlackDisk(blackFile') = blocking[t].blocked
          /\ blackFile'.content # Corrupt
      BY <1>5, <1>11, WrittenBlack
    <2>3. Good(dict', userFile', blackFile')
      BY <1>1, <1>3, <1>6, <2>1, <2>2 DEF Good
    <2>4. Before(dict, dict')
      BY <1>7, <1>8, <2>1 DEF Before
    <2>5. \A i \in 1 .. Len(snapshots) : Good(snapshots[i], userFile', blackFile')
      <3> DEFINE l == blocking[t].blocked
      <3>1. l \in SUBSET Entries /\ blackFile' = Written(l) /\ userFile' = userFile
            /\ \A i \in 1 .. Len(snapshots) : snapshots[i].black.blocked \subseteq l
        BY <1>3, <1>5, <1>6, <1>11
      <3>2. \A i \in 1 .. Len(snapshots) :
              snapshots[i] \in DictType /\ Good(snapshots[i], userFile, blackFile)
        BY <1>1, MembersTyped DEF SnapshotsInv
      <3> HIDE DEF l
      <3>3. \A i \in 1 .. Len(snapshots) : Good(snapshots[i], userFile, Written(l))
        BY <3>1, <3>2, BlackSaveGood
      <3> QED BY <3>1, <3>3
    <2>6. SnapshotsInv'
      <3>1. \A i \in 1 .. Len(snapshots) : Before(snapshots[i], dict')
        BY <1>1, <2>1 DEF SnapshotsInv, Before
      <3> QED BY <1>1, <1>3, <2>5, <3>1 DEF SnapshotsInv
    <2>7. RememberedInv'
      <3>1. reloadCache # Nothing => reloadCache \in ReloadType /\ Trusted(reloadCache, userFile, blackFile)
        BY <1>1, MembersTyped DEF IInv, RememberedInv
      <3>2. reloadCache # Nothing => Trusted(reloadCache, userFile, blackFile')
        BY <1>5, <1>11, <3>1, SaveTrusted
      <3> QED BY <1>3, <3>2 DEF RememberedInv
    <2>8. TypeOK'
      <3>1. dict'.saved <= dict'.black.generation
        BY <2>3 DEF Good
      <3> QED BY <1>1, <1>3, <1>4, <2>1, <2>2, <3>1 DEF TypeOK
    <2>9. BlockingInv'
      BY <1>9, <2>1
    <2>10. CacheInv'
      <3>1. cache # Nothing => cache.of = Content
        BY DEF IInv, CacheInv
      <3>2. cache' = cache /\ Content' = Content
        BY <1>3, <2>1 DEF Content
      <3>3. cache' # Nothing => cache'.of = Content
        BY <3>1, <3>2
      <3> QED BY <3>2, <3>3, Zenon DEF CacheInv
    <2>11. ClosedInv'
      BY <1>1, <1>3 DEF ClosedInv
    <2> QED BY <2>3, <2>6, <2>7, <2>8, <2>9, <2>10, <2>11 DEF IInv
  <1> QED BY <1>10, <1>11 DEF SaveBlocked

(* All but the last snapshot, and the last one.                            *)
LEMMA FrontAndLast ==
  ASSUME NEW s \in Seq(DictType), s # <<>>
  PROVE /\ Front(s) \in Seq(DictType) /\ Len(Front(s)) = Len(s) - 1 /\ Len(s) \in Nat \ {0}
        /\ \A i \in 1 .. Len(Front(s)) : Front(s)[i] = s[i] /\ i \in 1 .. Len(s)
        /\ Last(s) = s[Len(s)] /\ Last(s) \in DictType /\ Len(s) \in 1 .. Len(s)
  <1>1. ASSUME NEW S, NEW r \in Seq(S), r # <<>>
        PROVE /\ SubSeq(r, 1, Len(r) - 1) \in Seq(S)
              /\ Len(SubSeq(r, 1, Len(r) - 1)) = Len(r) - 1 /\ Len(r) \in Nat \ {0}
              /\ \A i \in 1 .. Len(r) - 1 : SubSeq(r, 1, Len(r) - 1)[i] = r[i] /\ i \in 1 .. Len(r)
              /\ r[Len(r)] \in S /\ Len(r) \in 1 .. Len(r)
    <2>1. Len(r) \in Nat \ {0}
      BY <1>1, SMT
    <2>2. r[Len(r)] \in S /\ Len(r) \in 1 .. Len(r)
      BY <1>1, <2>1, SMT
    <2>3. SubSeq(r, 1, Len(r) - 1) \in Seq(S) /\ Len(SubSeq(r, 1, Len(r) - 1)) = Len(r) - 1
      <3> DEFINE n == Len(r) - 1
                 q == SubSeq(r, 1, n)
      <3>1. n \in Nat /\ \A i \in 1 .. n : r[i] \in S
        BY <1>1, <2>1
      <3> HIDE DEF n
      <3>2. q \in Seq(S) /\ Len(q) = IF 1 <= n THEN n - 1 + 1 ELSE 0
        BY <3>1, SubSeqProperties
      <3> HIDE DEF q
      <3>3. q \in Seq(S) /\ Len(q) = n
        BY <3>1, <3>2
      <3> QED BY <3>3, Zenon DEF n, q
    <2>4. \A i \in 1 .. Len(r) - 1 : SubSeq(r, 1, Len(r) - 1)[i] = r[i] /\ i \in 1 .. Len(r)
      BY <1>1, <2>1, SMT
    <2> QED BY <2>1, <2>2, <2>3, <2>4
  <1> QED BY <1>1 DEF Front, Last

(* A call of the owner is not inside blockCandidate, and while snapshots   *)
(* are kept nobody else is.                                                *)
LEMMA NobodyBlocking ==
  ASSUME TypeOK, OwnerFree, MaxDepth > 0, NEW t \in Blockers
  PROVE blocking[t] = Nothing
  BY StoreAssumption DEF StoreAssumption, OwnerFree

(* A snapshot may claim what the members may.                              *)
LEMMA CaptureInv ==
  ASSUME IInv, CaptureSessionSnapshot
  PROVE IInv'
  <1>1. /\ TypeOK /\ SnapshotsInv /\ Good(dict, userFile, blackFile) /\ open /\ OwnerFree
    BY DEF IInv, CaptureSessionSnapshot, OwnerFree
  <1>2. /\ UNCHANGED <<open, dict, cache, blocking, userFile, blackFile, reloadCache>>
        /\ Len(snapshots) < MaxDepth /\ snapshots' = Append(snapshots, dict)
    BY DEF CaptureSessionSnapshot, files
  <1>3. dict \in DictType /\ snapshots \in Seq(DictType) /\ MaxDepth \in Nat
    BY <1>1, StoreAssumption DEF TypeOK, StoreAssumption
  <1>4. /\ Len(snapshots) \in Nat /\ snapshots' \in Seq(DictType)
        /\ Len(snapshots') = Len(snapshots) + 1
        /\ snapshots'[Len(snapshots) + 1] = dict
        /\ \A i \in 1 .. Len(snapshots) : snapshots'[i] = snapshots[i]
    BY <1>2, <1>3
  <1>5. \A t \in Blockers : blocking[t] = Nothing
    BY <1>1, <1>2, <1>3, <1>4, NobodyBlocking
  <1>6. \A i \in 1 .. Len(snapshots') : i \in 1 .. Len(snapshots) \/ i = Len(snapshots) + 1
    BY <1>4
  <1>7. Before(dict, dict)
    BY <1>3, BeforeOrder
  <1>8. /\ \A i \in 1 .. Len(snapshots) :
             Good(snapshots[i], userFile, blackFile) /\ Before(snapshots[i], dict)
        /\ \A i, j \in 1 .. Len(snapshots) : i <= j => Before(snapshots[i], snapshots[j])
    BY <1>1 DEF SnapshotsInv
  <1>9. SnapshotsInv'
    <2>1. \A i \in 1 .. Len(snapshots') :
            Good(snapshots'[i], userFile, blackFile) /\ Before(snapshots'[i], dict)
      BY <1>1, <1>4, <1>6, <1>7, <1>8
    <2>2. ASSUME NEW i \in 1 .. Len(snapshots'), NEW j \in 1 .. Len(snapshots'), i <= j
          PROVE Before(snapshots'[i], snapshots'[j])
      <3>1. CASE j = Len(snapshots) + 1
        BY <1>4, <2>1, <3>1
      <3>2. CASE j # Len(snapshots) + 1
        <4>1. i \in 1 .. Len(snapshots) /\ j \in 1 .. Len(snapshots)
          BY <1>4, <1>6, <2>2, <3>2
        <4>2. Before(snapshots[i], snapshots[j])
          BY <1>8, <2>2, <4>1
        <4> QED BY <1>4, <4>1, <4>2
      <3> QED BY <3>1, <3>2
    <2>3. Len(snapshots') <= MaxDepth
      BY <1>2, <1>3, <1>4
    <2> QED BY <1>2, <2>1, <2>2, <2>3 DEF SnapshotsInv
  <1>10. TypeOK'
    BY <1>1, <1>2, <1>4 DEF TypeOK
  <1>11. BlockingInv'
    BY <1>2, <1>5 DEF BlockingInv
  <1>12. ClosedInv' /\ RememberedInv'
    BY <1>1, <1>2 DEF IInv, ClosedInv, RememberedInv
  <1>13. CacheInv'
    BY <1>2 DEF IInv, CacheInv, Content
  <1> QED BY <1>1, <1>2, <1>9, <1>10, <1>11, <1>12, <1>13 DEF IInv

(* A shorter stack of snapshots claims no more.                            *)
LEMMA PoppedInv ==
  ASSUME TypeOK, SnapshotsInv, snapshots # <<>>, snapshots' = Front(snapshots),
         UNCHANGED <<userFile, blackFile>>, dict' \in {dict, Last(snapshots)}
  PROVE SnapshotsInv' /\ snapshots' \in Seq(DictType)
  <1>1. /\ Len(snapshots) \in Nat \ {0} /\ Len(snapshots') = Len(snapshots) - 1
        /\ snapshots' \in Seq(DictType)
        /\ \A i \in 1 .. Len(snapshots') : snapshots'[i] = snapshots[i] /\ i \in 1 .. Len(snapshots)
        /\ Last(snapshots) = snapshots[Len(snapshots)] /\ Len(snapshots) \in 1 .. Len(snapshots)
    BY FrontAndLast DEF TypeOK
  <1>2. \A i \in 1 .. Len(snapshots') :
          Good(snapshots'[i], userFile, blackFile) /\ Before(snapshots'[i], dict)
    BY <1>1 DEF SnapshotsInv
  <1>3. \A i \in 1 .. Len(snapshots') : Before(snapshots'[i], Last(snapshots))
    <2>1. ASSUME NEW i \in 1 .. Len(snapshots')
          PROVE Before(snapshots'[i], Last(snapshots))
      <3>1. i \in 1 .. Len(snapshots) /\ i <= Len(snapshots)
        BY <1>1
      <3>2. Before(snapshots[i], snapshots[Len(snapshots)])
        BY <1>1, <3>1 DEF SnapshotsInv
      <3> QED BY <1>1, <3>2
    <2> QED BY <2>1
  <1>4. \A i, j \in 1 .. Len(snapshots') : i <= j => Before(snapshots'[i], snapshots'[j])
    BY <1>1 DEF SnapshotsInv
  <1>5. Len(snapshots') <= MaxDepth
    BY <1>1, StoreAssumption DEF SnapshotsInv, StoreAssumption
  <1>6. \A i \in 1 .. Len(snapshots') :
          Good(snapshots'[i], userFile', blackFile') /\ Before(snapshots'[i], dict')
    BY <1>2, <1>3
  <1> QED BY <1>1, <1>4, <1>5, <1>6 DEF SnapshotsInv

(* What a rollback installs was a snapshot, of which all is already known. *)
LEMMA RestoreInv ==
  ASSUME IInv, RestoreSessionSnapshot
  PROVE IInv'
  <1>1. /\ TypeOK /\ SnapshotsInv /\ open /\ OwnerFree /\ snapshots # <<>>
    BY DEF IInv, RestoreSessionSnapshot, OwnerFree
  <1>2. /\ UNCHANGED <<open, blocking, userFile, blackFile, reloadCache>>
        /\ dict' = Last(snapshots) /\ snapshots' = Front(snapshots) /\ cache' = Nothing
    BY DEF RestoreSessionSnapshot, ClearCaches, files
  <1>3. /\ Len(snapshots) \in Nat \ {0} /\ Last(snapshots) = snapshots[Len(snapshots)]
        /\ Last(snapshots) \in DictType /\ Len(snapshots) \in 1 .. Len(snapshots)
    BY <1>1, FrontAndLast DEF TypeOK
  <1>4. Good(dict', userFile', blackFile')
    BY <1>1, <1>2, <1>3 DEF SnapshotsInv
  <1>5. SnapshotsInv' /\ snapshots' \in Seq(DictType)
    BY <1>1, <1>2, PoppedInv
  <1>6. TypeOK'
    <2>1. dict'.saved <= dict'.black.generation
      BY <1>4 DEF Good
    <2> QED BY <1>1, <1>2, <1>3, <1>5, <2>1 DEF TypeOK
  <1>7. MaxDepth > 0
    BY <1>1, <1>3, StoreAssumption DEF SnapshotsInv, StoreAssumption
  <1>8. \A t \in Blockers : blocking'[t] = Nothing
    BY <1>1, <1>2, <1>7, NobodyBlocking
  <1>9. BlockingInv'
    BY <1>8 DEF BlockingInv
  <1>10. CacheInv' /\ ClosedInv' /\ RememberedInv'
    BY <1>1, <1>2 DEF IInv, CacheInv, ClosedInv, RememberedInv
  <1> QED BY <1>4, <1>5, <1>6, <1>9, <1>10 DEF IInv

(* A call that succeeds leaves everything else as it is.                   *)
LEMMA DropInv ==
  ASSUME IInv, DropSnapshot
  PROVE IInv'
  <1>1. /\ TypeOK /\ SnapshotsInv /\ open /\ OwnerFree /\ snapshots # <<>>
    BY DEF IInv, DropSnapshot, OwnerFree
  <1>2. /\ UNCHANGED <<open, dict, cache, blocking, userFile, blackFile, reloadCache>>
        /\ snapshots' = Front(snapshots)
    BY DEF DropSnapshot, files
  <1>3. SnapshotsInv' /\ snapshots' \in Seq(DictType)
    BY <1>1, <1>2, PoppedInv
  <1>4. TypeOK'
    BY <1>1, <1>2, <1>3 DEF TypeOK
  <1>5. Len(snapshots) \in Nat \ {0}
    BY <1>1, FrontAndLast DEF TypeOK
  <1>6. MaxDepth > 0
    BY <1>1, <1>5, StoreAssumption DEF SnapshotsInv, StoreAssumption
  <1>7. \A t \in Blockers : blocking'[t] = Nothing
    BY <1>1, <1>2, <1>6, NobodyBlocking
  <1>8. BlockingInv'
    BY <1>7 DEF BlockingInv
  <1>9. ClosedInv' /\ RememberedInv'
    BY <1>1, <1>2 DEF IInv, ClosedInv, RememberedInv
  <1>10. CacheInv'
    BY <1>2 DEF IInv, CacheInv, Content
  <1> QED BY <1>1, <1>2, <1>3, <1>4, <1>8, <1>9, <1>10 DEF IInv

-----------------------------------------------------------------------------
(* Start and end *)

(* What a start makes of the user file: what it has is what the file       *)
(* holds, or nothing, and then it never writes to that file.               *)
LEMMA LoadsUser ==
  ASSUME userFile \in UserFileType, NEW u \in Loads(userFile, <<>>, Written(<<>>))
  PROVE /\ u.content \in Learning /\ u.generation \in Nat /\ u.writable \in BOOLEAN
        /\ u.file \in UserFileType
        /\ u.content = UserDisk(u.file) \/ (u.content = <<>> /\ ~u.writable)
        /\ u.file.content = Corrupt => ~u.writable
        /\ u.file.content = Missing => u.content = <<>>
        /\ u.file \in {userFile, NoFile, Written(<<>>)}
        /\ u.content = UserDisk(userFile) \/ u.file = NoFile \/ ~u.writable
  <1>1. <<>> \in Learning
    BY DEF Learning
  <1>2. Written(<<>>) \in UserFileType /\ UserDisk(Written(<<>>)) = <<>>
        /\ Written(<<>>).content # Corrupt /\ Written(<<>>).content # Missing
    BY <1>1, WrittenUser
  <1>3. NoFile \in UserFileType /\ NoFile.content = Missing /\ UserDisk(NoFile) = <<>>
    BY DEF NoFile, UserFileType, UserDisk, OnDisk
  <1>4. Missing # Corrupt
    BY StoreAssumption DEF StoreAssumption
  <1>5. CASE u = [content |-> <<>>, generation |-> 0, file |-> userFile, writable |-> FALSE]
    BY <1>1, <1>5
  <1>6. CASE u = [content |-> <<>>, generation |-> 0, file |-> NoFile, writable |-> TRUE]
    BY <1>1, <1>3, <1>4, <1>6
  <1>7. CASE /\ userFile.content = Missing
             /\ u = [content |-> <<>>, generation |-> 0, file |-> Written(<<>>), writable |-> TRUE]
    <2>1. UserDisk(userFile) = <<>>
      BY <1>7 DEF UserDisk, OnDisk
    <2> QED BY <1>1, <1>2, <1>7, <2>1
  <1>8. CASE /\ userFile.content \notin {Missing, Corrupt}
             /\ u = [content |-> userFile.content, generation |-> 1, file |-> userFile, writable |-> TRUE]
    <2>1. UserDisk(userFile) = userFile.content /\ userFile.content \in Learning
      BY <1>8 DEF UserDisk, OnDisk, UserFileType
    <2> QED BY <1>8, <2>1
  <1> QED BY <1>5, <1>6, <1>7, <1>8 DEF Loads

(* The same for the file of blocked candidates.                            *)
LEMMA LoadsBlack ==
  ASSUME blackFile \in BlackFileType, NEW b \in Loads(blackFile, {}, Written({}))
  PROVE /\ b.content \in SUBSET Entries /\ b.generation \in Nat /\ b.writable \in BOOLEAN
        /\ b.file \in BlackFileType
        /\ b.content = BlackDisk(b.file) \/ (b.content = {} /\ ~b.writable)
        /\ b.file.content = Corrupt => ~b.writable
        /\ b.file.content = Missing => b.content = {}
        /\ b.file \in {blackFile, NoFile, Written({})}
        /\ b.content = BlackDisk(blackFile) \/ b.file = NoFile \/ ~b.writable
  <1>1. {} \in SUBSET Entries
    OBVIOUS
  <1>2. Written({}) \in BlackFileType /\ BlackDisk(Written({})) = {}
        /\ Written({}).content # Corrupt /\ Written({}).content # Missing
    BY <1>1, WrittenBlack
  <1>3. NoFile \in BlackFileType /\ NoFile.content = Missing /\ BlackDisk(NoFile) = {}
    BY DEF NoFile, BlackFileType, BlackDisk, OnDisk
  <1>4. Missing # Corrupt
    BY StoreAssumption DEF StoreAssumption
  <1>5. CASE b = [content |-> {}, generation |-> 0, file |-> blackFile, writable |-> FALSE]
    BY <1>1, <1>5
  <1>6. CASE b = [content |-> {}, generation |-> 0, file |-> NoFile, writable |-> TRUE]
    BY <1>1, <1>3, <1>4, <1>6
  <1>7. CASE /\ blackFile.content = Missing
             /\ b = [content |-> {}, generation |-> 0, file |-> Written({}), writable |-> TRUE]
    <2>1. BlackDisk(blackFile) = {}
      BY <1>7 DEF BlackDisk, OnDisk
    <2> QED BY <1>1, <1>2, <1>7, <2>1
  <1>8. CASE /\ blackFile.content \notin {Missing, Corrupt}
             /\ b = [content |-> blackFile.content, generation |-> 1, file |-> blackFile, writable |-> TRUE]
    <2>1. BlackDisk(blackFile) = blackFile.content /\ blackFile.content \in SUBSET Entries
      BY <1>8 DEF BlackDisk, OnDisk, BlackFileType
    <2> QED BY <1>8, <2>1
  <1> QED BY <1>5, <1>6, <1>7, <1>8 DEF Loads

(* What the reload cache remembers stays right when a file is set aside,   *)
(* created, damaged or forgotten.                                          *)
LEMMA OtherFileTrusted ==
  ASSUME NEW r \in ReloadType, NEW u, NEW b, Trusted(r, u, b)
  PROVE /\ Trusted(r, NoFile, b) /\ Trusted(r, u, NoFile)
        /\ Trusted(r, Written(<<>>), b) /\ Trusted(r, u, Written({}))
        /\ Trusted(r, Written(Corrupt), b) /\ Trusted(r, u, Written(Corrupt))
  <1>1. NoFile.content = Missing /\ UserDisk(NoFile) = <<>> /\ BlackDisk(NoFile) = {}
    BY DEF NoFile, UserDisk, BlackDisk, OnDisk
  <1>2. Missing # Corrupt
    BY StoreAssumption DEF StoreAssumption
  <1>3. Trusted(r, NoFile, b) /\ Trusted(r, u, NoFile)
    BY <1>1, <1>2 DEF Trusted, SameSignature
  <1>4. <<>> \in Learning /\ {} \in SUBSET Entries
    BY DEF Learning
  <1>5. ~SameSignature(Written(Corrupt), r.userMissing) /\ ~SameSignature(Written(Corrupt), r.blackMissing)
    BY <1>2 DEF Written, SameSignature
  <1>6. Trusted(r, Written(Corrupt), b) /\ Trusted(r, u, Written(Corrupt))
    BY <1>5 DEF Trusted
  <1> QED BY <1>3, <1>4, <1>6, SaveTrusted

(* A start keeps the invariant when it may claim what it has.              *)
LEMMA OpenedInv ==
  ASSUME IInv, ~open, open' = TRUE, UNCHANGED <<cache, snapshots, blocking>>,
         dict' \in DictType, userFile' \in UserFileType, blackFile' \in BlackFileType,
         reloadCache' \in {Nothing} \cup ReloadType,
         Good(dict', userFile', blackFile'), RememberedInv'
  PROVE IInv'
  <1>1. /\ TypeOK /\ snapshots' = <<>> /\ cache' = Nothing /\ blocking' = Closed
    BY DEF IInv, ClosedInv
  <1>2. TypeOK'
    <2>1. dict'.saved <= dict'.black.generation
      BY DEF Good
    <2> QED BY <1>1, <2>1 DEF TypeOK, ReloadType
  <1>3. SnapshotsInv'
    <2>1. Len(snapshots') = 0 /\ 1 .. 0 = {}
      BY <1>1
    <2> QED BY <2>1, StoreAssumption DEF SnapshotsInv, StoreAssumption
  <1>4. BlockingInv'
    BY <1>1 DEF BlockingInv, Closed
  <1>5. ClosedInv' /\ CacheInv'
    BY <1>1 DEF ClosedInv, CacheInv
  <1> QED BY <1>2, <1>3, <1>4, <1>5 DEF IInv

(* Without a Dictionary there is only what the reload cache claims.        *)
LEMMA GoneInv ==
  ASSUME open' = FALSE, dict' = EmptyDict, cache' = Nothing, snapshots' = <<>>,
         blocking' = Closed, userFile' \in UserFileType, blackFile' \in BlackFileType,
         reloadCache' \in {Nothing} \cup ReloadType, RememberedInv'
  PROVE IInv'
  <1>1. EmptyDict \in DictType /\ EmptyDict.saved <= EmptyDict.black.generation
    <2>1. <<>> \in Learning
      BY DEF Learning
    <2> QED BY <2>1 DEF EmptyDict, EmptyUser, EmptyBlack, DictType
  <1>2. TypeOK'
    <2>1. snapshots' \in Seq(DictType)
      OBVIOUS
    <2>2. blocking' \in [Blockers -> {Nothing} \cup [blocked : SUBSET Entries, generation : Nat]]
      BY DEF Closed
    <2> QED BY <1>1, <2>1, <2>2 DEF TypeOK, ReloadType
  <1>3. SnapshotsInv'
    <2>1. Len(snapshots') = 0 /\ 1 .. 0 = {}
      OBVIOUS
    <2> QED BY <2>1, StoreAssumption DEF SnapshotsInv, StoreAssumption
  <1>4. BlockingInv'
    BY DEF BlockingInv, Closed
  <1>5. ClosedInv' /\ CacheInv'
    BY DEF ClosedInv, CacheInv
  <1> QED BY <1>2, <1>3, <1>4, <1>5 DEF IInv

(* The members of a Dictionary that has just been loaded.                  *)
LEMMA OpenedMembers ==
  ASSUME TypeOK, NEW u \in Loads(userFile, <<>>, Written(<<>>)),
         NEW b \in Loads(blackFile, {}, Written({}))
  PROVE /\ Opened(u, b) \in DictType /\ ~Opened(u, b).dirty
        /\ Opened(u, b).user.learned = u.content /\ Opened(u, b).black.blocked = b.content
        /\ Opened(u, b).saved = Opened(u, b).black.generation
        /\ Opened(u, b).userWritable = u.writable /\ Opened(u, b).blackWritable = b.writable
  <1>1. /\ u.content \in Learning /\ u.generation \in Nat /\ u.writable \in BOOLEAN
        /\ b.content \in SUBSET Entries /\ b.generation \in Nat /\ b.writable \in BOOLEAN
    BY MembersTyped, LoadsUser, LoadsBlack
  <1> DEFINE user == [learned |-> u.content, generation |-> u.generation]
             black == [blocked |-> b.content, generation |-> b.generation]
  <1>2. /\ user \in [learned : Learning, generation : Nat] /\ user.learned = u.content
        /\ black \in [blocked : SUBSET Entries, generation : Nat]
        /\ black.blocked = b.content /\ black.generation = b.generation
    BY <1>1
  <1>3. Opened(u, b) = [EmptyDict EXCEPT !.user = user, !.black = black, !.saved = b.generation,
                                         !.userWritable = u.writable, !.blackWritable = b.writable]
    BY DEF Opened
  <1> HIDE DEF user, black
  <1>4. Opened(u, b) = [user |-> user, black |-> black, dirty |-> FALSE, saved |-> b.generation,
                        context |-> 0, last |-> NoWord,
                        userWritable |-> u.writable, blackWritable |-> b.writable]
    BY <1>3 DEF EmptyDict
  <1> QED BY <1>1, <1>2, <1>4 DEF DictType

(* A start from the files claims what they hold, and is remembered as it   *)
(* is or not at all.                                                       *)
LEMMA OpenFromFilesInv ==
  ASSUME IInv, OpenFromFiles
  PROVE IInv'
  <1>1. /\ TypeOK /\ RememberedInv /\ ~open /\ open' = TRUE
        /\ UNCHANGED <<cache, snapshots, blocking>>
    BY DEF IInv, OpenFromFiles
  <1>2. PICK u \in Loads(userFile, <<>>, Written(<<>>)), b \in Loads(blackFile, {}, Written({})) :
          /\ dict' = Opened(u, b)
          /\ \/ /\ userFile' = u.file /\ blackFile' = b.file /\ UNCHANGED reloadCache
             \/ /\ userFile' = Remembered(u.file) /\ blackFile' = Remembered(b.file)
                /\ reloadCache' = [userMissing |-> u.file.content = Missing,
                                   blackMissing |-> b.file.content = Missing, dict |-> dict']
    BY DEF OpenFromFiles
  <1>3. /\ dict' \in DictType /\ ~dict'.dirty /\ dict'.saved = dict'.black.generation
        /\ dict'.user.learned = u.content /\ dict'.black.blocked = b.content
        /\ dict'.userWritable = u.writable /\ dict'.blackWritable = b.writable
    BY <1>1, <1>2, OpenedMembers
  <1>4. /\ u.content \in Learning /\ u.file \in UserFileType
        /\ u.content = UserDisk(u.file) \/ (u.content = <<>> /\ ~u.writable)
        /\ u.file.content = Corrupt => ~u.writable
        /\ u.file.content = Missing => u.content = <<>>
        /\ u.file \in {userFile, NoFile, Written(<<>>)}
    BY <1>1, MembersTyped, LoadsUser
  <1>5. /\ b.content \in SUBSET Entries /\ b.file \in BlackFileType
        /\ b.content = BlackDisk(b.file) \/ (b.content = {} /\ ~b.writable)
        /\ b.file.content = Corrupt => ~b.writable
        /\ b.file.content = Missing => b.content = {}
        /\ b.file \in {blackFile, NoFile, Written({})}
    BY <1>1, MembersTyped, LoadsBlack
  <1>6. dict'.black.generation \in Nat
    BY <1>3 DEF DictType
  <1>7. IsPrefix(u.content, UserDisk(u.file))
    <2>1. UserDisk(u.file) \in Seq(Words) /\ u.content \in Seq(Words)
      BY <1>4, <1>5, DiskType DEF Learning
    <2> QED BY <1>4, <2>1, PrefixReflexive, EmptyPrefix
  <1>8. CASE userFile' = u.file /\ blackFile' = b.file /\ UNCHANGED reloadCache
    <2>1. Good(dict', userFile', blackFile')
      BY <1>3, <1>4, <1>5, <1>6, <1>7, <1>8 DEF Good
    <2>2. RememberedInv'
      <3>1. reloadCache # Nothing => reloadCache \in ReloadType /\ Trusted(reloadCache, userFile, blackFile)
        BY <1>1, MembersTyped DEF RememberedInv
      <3>2. reloadCache # Nothing => Trusted(reloadCache, u.file, blackFile)
        BY <1>4, <3>1, OtherFileTrusted
      <3>3. reloadCache # Nothing => Trusted(reloadCache, u.file, b.file)
        BY <1>5, <3>1, <3>2, OtherFileTrusted
      <3> QED BY <1>8, <3>3 DEF RememberedInv
    <2>3. reloadCache' \in {Nothing} \cup ReloadType
      BY <1>1, <1>8 DEF TypeOK, ReloadType
    <2> QED BY <1>1, <1>3, <1>4, <1>5, <1>8, <2>1, <2>2, <2>3, OpenedInv
  <1>9. CASE /\ userFile' = Remembered(u.file) /\ blackFile' = Remembered(b.file)
             /\ reloadCache' = [userMissing |-> u.file.content = Missing,
                                blackMissing |-> b.file.content = Missing, dict |-> dict']
    <2>1. /\ userFile' \in UserFileType /\ userFile'.content = u.file.content
          /\ blackFile' \in BlackFileType /\ blackFile'.content = b.file.content
      BY <1>4, <1>5, <1>9 DEF Remembered, UserFileType, BlackFileType
    <2>2. UserDisk(userFile') = UserDisk(u.file) /\ BlackDisk(blackFile') = BlackDisk(b.file)
      BY <2>1 DEF UserDisk, BlackDisk, OnDisk
    <2>3. Good(dict', userFile', blackFile')
      BY <1>3, <1>4, <1>5, <1>6, <1>7, <2>1, <2>2 DEF Good
    <2>4. /\ reloadCache'.dict = dict' /\ reloadCache' \in ReloadType
          /\ reloadCache'.userMissing = (u.file.content = Missing)
          /\ reloadCache'.blackMissing = (b.file.content = Missing)
      BY <1>3, <1>9 DEF ReloadType
    <2>5. Trusted(reloadCache', userFile', blackFile')
      BY <1>3, <1>4, <1>5, <2>1, <2>2, <2>4 DEF Trusted
    <2>6. RememberedInv'
      BY <2>5 DEF RememberedInv
    <2> QED BY <1>1, <1>3, <2>1, <2>3, <2>4, <2>6, OpenedInv
  <1> QED BY <1>2, <1>8, <1>9

(* A start from the reload cache claims what the files hold.               *)
LEMMA OpenFromCacheInv ==
  ASSUME IInv, OpenFromCache
  PROVE IInv'
  <1>1. /\ TypeOK /\ ~open /\ open' = TRUE /\ dict' = reloadCache.dict
        /\ UNCHANGED <<cache, snapshots, blocking, userFile, blackFile, reloadCache>>
        /\ reloadCache \in ReloadType /\ Trusted(reloadCache, userFile, blackFile)
        /\ SameSignature(userFile, reloadCache.userMissing)
        /\ SameSignature(blackFile, reloadCache.blackMissing)
    BY MembersTyped DEF IInv, OpenFromCache, RememberedInv, files
  <1>2. dict' \in DictType /\ userFile' \in UserFileType /\ blackFile' \in BlackFileType
    BY <1>1, MembersTyped DEF ReloadType
  <1>3. UserDisk(userFile') \in Seq(Words) /\ dict'.user.learned \in Seq(Words)
        /\ dict'.black.generation \in Nat
    BY <1>2, DiskType DEF DictType, Learning
  <1>4. IsPrefix(dict'.user.learned, UserDisk(userFile'))
    BY <1>1, <1>3, PrefixReflexive, EmptyPrefix DEF Trusted
  <1>5. Good(dict', userFile', blackFile')
    BY <1>1, <1>3, <1>4 DEF Good, Trusted
  <1>6. RememberedInv'
    BY <1>1 DEF RememberedInv
  <1> QED BY <1>1, <1>2, <1>5, <1>6, OpenedInv

(* The last flush keeps the reload cache right.                            *)
LEMMA CloseInv ==
  ASSUME IInv, Close
  PROVE IInv'
  <1>1. /\ TypeOK /\ RememberedInv /\ Good(dict, userFile, blackFile)
        /\ open' = FALSE /\ dict' = EmptyDict /\ cache' = Nothing /\ snapshots' = <<>>
        /\ blocking' = Closed /\ UNCHANGED <<blackFile, reloadCache>>
    BY DEF IInv, Close, Gone, Closed
  <1>2. PICK f \in Flushes(dict) : userFile' = f.file
    BY DEF Close
  <1>3. /\ dict \in DictType /\ userFile \in UserFileType /\ blackFile \in BlackFileType
        /\ reloadCache # Nothing => reloadCache \in ReloadType
    BY <1>1, MembersTyped
  <1>4. /\ f.file \in UserFileType
        /\ \A r \in ReloadType : Trusted(r, userFile, blackFile) => Trusted(r, f.file, blackFile)
    BY <1>1, <1>3, FlushGood
  <1>5. RememberedInv'
    BY <1>1, <1>2, <1>3, <1>4 DEF RememberedInv
  <1>6. reloadCache' \in {Nothing} \cup ReloadType
    BY <1>1, <1>3
  <1> QED BY <1>1, <1>2, <1>3, <1>4, <1>5, <1>6, GoneInv

(* A process that ends takes its reload cache with it.                     *)
LEMMA CrashInv ==
  ASSUME IInv, Crash
  PROVE IInv'
  <1>1. /\ userFile \in UserFileType /\ blackFile \in BlackFileType
        /\ open' = FALSE /\ dict' = EmptyDict /\ cache' = Nothing /\ snapshots' = <<>>
        /\ blocking' = Closed /\ reloadCache' = Nothing
        /\ userFile' = Forgotten(userFile) /\ blackFile' = Forgotten(blackFile)
    BY MembersTyped DEF IInv, Crash, Gone, Closed
  <1>2. userFile' \in UserFileType /\ blackFile' \in BlackFileType
    BY <1>1 DEF Forgotten, UserFileType, BlackFileType
  <1>3. RememberedInv'
    BY <1>1 DEF RememberedInv
  <1> QED BY <1>1, <1>2, <1>3, GoneInv

(* A damaged file has not the signature that is remembered.                *)
LEMMA DamageInv ==
  ASSUME IInv, Damage
  PROVE IInv'
  <1>1. /\ TypeOK /\ RememberedInv
        /\ open' = FALSE /\ dict' = EmptyDict /\ cache' = Nothing /\ snapshots' = <<>>
        /\ blocking' = Closed /\ reloadCache' = reloadCache
    BY DEF IInv, Damage, ClosedInv, TypeOK
  <1>2. /\ userFile \in UserFileType /\ blackFile \in BlackFileType
        /\ reloadCache # Nothing => reloadCache \in ReloadType
    BY <1>1, MembersTyped
  <1>3. /\ NoFile \in UserFileType /\ NoFile \in BlackFileType
        /\ Written(Corrupt) \in UserFileType /\ Written(Corrupt) \in BlackFileType
    BY DEF NoFile, Written, UserFileType, BlackFileType
  <1>4. \/ userFile' \in {NoFile, Written(Corrupt)} /\ blackFile' = blackFile
        \/ blackFile' \in {NoFile, Written(Corrupt)} /\ userFile' = userFile
    BY DEF Damage
  <1>5. userFile' \in UserFileType /\ blackFile' \in BlackFileType
    BY <1>2, <1>3, <1>4
  <1>6. reloadCache # Nothing => Trusted(reloadCache, userFile', blackFile')
    BY <1>1, <1>2, <1>4, OtherFileTrusted DEF RememberedInv
  <1>7. RememberedInv'
    BY <1>1, <1>6 DEF RememberedInv
  <1>8. reloadCache' \in {Nothing} \cup ReloadType
    BY <1>1, <1>2
  <1> QED BY <1>1, <1>5, <1>7, <1>8, GoneInv

-----------------------------------------------------------------------------
(* The specification *)

(* Nothing on the disk, nothing remembered.                                *)
LEMMA InitInv ==
  ASSUME Init
  PROVE IInv
  <1>1. NoFile \in UserFileType /\ NoFile \in BlackFileType
    BY DEF NoFile, UserFileType, BlackFileType
  <1>2. EmptyDict \in DictType /\ EmptyDict.saved <= EmptyDict.black.generation
    <2>1. <<>> \in Learning
      BY DEF Learning
    <2> QED BY <2>1 DEF EmptyDict, EmptyUser, EmptyBlack, DictType
  <1>3. blocking = Closed /\ snapshots = <<>> /\ snapshots \in Seq(DictType)
    BY DEF Init, Closed
  <1>4. blocking \in [Blockers -> {Nothing} \cup [blocked : SUBSET Entries, generation : Nat]]
    BY <1>3 DEF Closed
  <1>5. TypeOK
    BY <1>1, <1>2, <1>3, <1>4 DEF Init, TypeOK
  <1>6. Len(snapshots) = 0 /\ 1 .. 0 = {}
    BY <1>3
  <1>7. SnapshotsInv /\ BlockingInv /\ ClosedInv /\ CacheInv /\ RememberedInv
    BY <1>3, <1>6, StoreAssumption
       DEF StoreAssumption, SnapshotsInv, BlockingInv, Closed, ClosedInv, CacheInv, RememberedInv, Init
  <1> QED BY <1>5, <1>7 DEF IInv, Init

(* A step that changes nothing.                                            *)
LEMMA StutterInv ==
  ASSUME IInv, UNCHANGED vars
  PROVE IInv'
  <1>1. UNCHANGED <<open, dict, cache, snapshots, blocking, userFile, blackFile, reloadCache>>
    BY DEF vars
  <1>2. TypeOK' /\ SnapshotsInv' /\ BlockingInv' /\ ClosedInv' /\ RememberedInv'
    BY <1>1 DEF IInv, TypeOK, SnapshotsInv, BlockingInv, ClosedInv, RememberedInv
  <1>3. CacheInv'
    BY <1>1 DEF IInv, CacheInv, Content
  <1>4. open' => Good(dict', userFile', blackFile')
    BY <1>1 DEF IInv
  <1> QED BY <1>2, <1>3, <1>4 DEF IInv

(* Every step keeps the invariant.                                         *)
LEMMA StepInv ==
  ASSUME IInv, [Next]_vars
  PROVE IInv'
  <1>1. ASSUME NEW word \in Words, RecordCommit(word) PROVE IInv'
    BY <1>1, RecordCommitInv
  <1>2. CASE ServicePersistence
    BY <1>2, ServiceInv
  <1>3. CASE Lookup
    BY <1>3, LookupInv
  <1>4. CASE Flush
    BY <1>4, FlushInv
  <1>5. ASSUME NEW t \in Blockers, SaveBlocked(t) PROVE IInv'
    BY <1>5, SaveBlockedInv
  <1>6. ASSUME NEW t \in Blockers, NEW entry \in Entries, Block(t, entry) PROVE IInv'
    BY <1>6, BlockInv
  <1>7. CASE CaptureSessionSnapshot
    BY <1>7, CaptureInv
  <1>8. CASE RestoreSessionSnapshot
    BY <1>8, RestoreInv
  <1>9. CASE DropSnapshot
    BY <1>9, DropInv
  <1>10. CASE OpenFromFiles
    BY <1>10, OpenFromFilesInv
  <1>11. CASE OpenFromCache
    BY <1>11, OpenFromCacheInv
  <1>12. CASE Close
    BY <1>12, CloseInv
  <1>13. CASE Crash
    BY <1>13, CrashInv
  <1>14. CASE Damage
    BY <1>14, DamageInv
  <1>15. CASE UNCHANGED vars
    BY <1>15, StutterInv
  <1> QED BY <1>1, <1>2, <1>3, <1>4, <1>5, <1>6, <1>7, <1>8, <1>9, <1>10, <1>11, <1>12,
             <1>13, <1>14, <1>15 DEF Next

(* The invariant holds throughout.                                         *)
LEMMA Invariance == Spec => []IInv
  BY InitInv, StepInv, PTL DEF Spec

(* Every variable keeps its type, and no generation is counted as saved    *)
(* that the black list has not reached.                                    *)
THEOREM StoreTypeCorrect == Spec => []TypeOK
  <1>1. IInv => TypeOK
    BY DEF IInv
  <1> QED BY <1>1, Invariance, PTL

(* Whatever is flushed, rolled back, crashed or restarted: while           *)
(* isUserDbDirty is down, all that is learned is in the file.              *)
THEOREM LearningIsKept == Spec => []KeptIsOnDisk
  <1>1. IInv => KeptIsOnDisk
    BY DEF IInv, Good, KeptIsOnDisk, UserDisk
  <1> QED BY <1>1, Invariance, PTL

(* No cached candidate list outlives what it was built from, though a      *)
(* rollback sets the generations back.                                     *)
THEOREM CachedListIsCurrent == Spec => []LookupIsCurrent
  <1>1. IInv => LookupIsCurrent
    BY DEF IInv, CacheInv, LookupIsCurrent, IsCached
  <1> QED BY <1>1, Invariance, PTL

(* A black list whose generation counts as saved is in the file, whichever *)
(* thread saved last and whatever was rolled back.                         *)
THEOREM SavedBlocksAreOnDisk == Spec => []SavedIsOnDisk
  <1>1. IInv => SavedIsOnDisk
    BY DEF IInv, Good, SavedIsOnDisk, BlackDisk
  <1> QED BY <1>1, Invariance, PTL

(* A start takes what the files hold, even through the reload cache, or    *)
(* has set the file aside, or does not write to it.                        *)
THEOREM StartIsFromFile == Spec => StartsFromFile
  <1> DEFINE A == ~open /\ open' =>
       /\ dict'.user.learned = OnDisk(userFile, <<>>) \/ userFile' = NoFile \/ ~dict'.userWritable
       /\ dict'.black.blocked = OnDisk(blackFile, {}) \/ blackFile' = NoFile \/ ~dict'.blackWritable
  <1>1. ASSUME IInv, [Next]_vars, ~open, open' PROVE A
    <2>1. OpenFromFiles \/ OpenFromCache
      BY <1>1 DEF vars, Next, RecordCommit, ServicePersistence, Lookup, Flush, SaveBlocked, Block,
                  CaptureSessionSnapshot, RestoreSessionSnapshot, DropSnapshot, Close, Crash,
                  Gone, Damage, OwnerFree
    <2>2. TypeOK /\ userFile \in UserFileType /\ blackFile \in BlackFileType
      BY <1>1, MembersTyped DEF IInv
    <2>3. CASE OpenFromFiles
      <3>1. PICK u \in Loads(userFile, <<>>, Written(<<>>)), b \in Loads(blackFile, {}, Written({})) :
              /\ dict' = Opened(u, b)
              /\ userFile' \in {u.file, Remembered(u.file)}
              /\ blackFile' \in {b.file, Remembered(b.file)}
        BY <2>3 DEF OpenFromFiles
      <3>2. Remembered(NoFile) = NoFile
        <4>1. ASSUME NEW f, NEW x \in BOOLEAN, f = [content |-> Missing, remembered |-> x]
              PROVE [f EXCEPT !.remembered = x] = f
          BY <4>1
        <4>2. (NoFile.content # Missing) = FALSE
          BY DEF NoFile
        <4>3. NoFile = [content |-> Missing, remembered |-> NoFile.content # Missing]
          BY <4>2, Zenon DEF NoFile
        <4>4. [NoFile EXCEPT !.remembered = NoFile.content # Missing] = NoFile
          BY <4>1, <4>2, <4>3
        <4> QED BY <4>4, Zenon DEF Remembered
      <3>3. /\ dict'.user.learned = u.content /\ dict'.black.blocked = b.content
            /\ dict'.userWritable = u.writable /\ dict'.blackWritable = b.writable
        BY <2>2, <3>1, OpenedMembers
      <3>4. /\ u.content = UserDisk(userFile) \/ u.file = NoFile \/ ~u.writable
            /\ b.content = BlackDisk(blackFile) \/ b.file = NoFile \/ ~b.writable
        BY <2>2, <3>1, LoadsUser, LoadsBlack
      <3> QED BY <3>1, <3>2, <3>3, <3>4 DEF UserDisk, BlackDisk
    <2>4. CASE OpenFromCache
      BY <1>1, <2>4 DEF OpenFromCache, IInv, RememberedInv, Trusted, UserDisk, BlackDisk
    <2> QED BY <2>1, <2>3, <2>4
  <1>2. IInv /\ [Next]_vars => [A]_vars
    BY <1>1
  <1> QED BY <1>2, Invariance, PTL DEF Spec, StartsFromFile

(* A file that could neither be read nor set aside is left as it is until  *)
(* the Dictionary is gone.                                                 *)
THEOREM UnreadableFileIsKept == Spec => UnreadableIsKept
  <1> DEFINE A == open =>
       /\ userFile.content = Corrupt => userFile'.content = Corrupt
       /\ blackFile.content = Corrupt => blackFile'.content = Corrupt
  <1>1. ASSUME IInv, [Next]_vars, open PROVE A
    <2>1. /\ TypeOK /\ Good(dict, userFile, blackFile) /\ dict \in DictType
          /\ userFile \in UserFileType /\ blackFile \in BlackFileType
      BY <1>1, MembersTyped DEF IInv
    <2>2. ASSUME NEW d \in DictType, Good(d, userFile, blackFile), NEW f \in Flushes(d)
          PROVE userFile.content = Corrupt => f.file.content = Corrupt
      BY <2>1, <2>2, FlushGood
    <2>3. ASSUME NEW word \in Words, RecordCommit(word) PROVE A
      <3>1. blackFile' = blackFile /\ \E f \in Flushes(Learned(dict, word)) : userFile' = f.file
        BY <2>3 DEF RecordCommit, FlushUser
      <3>2. Learned(dict, word).userWritable = dict.userWritable
        BY <2>1 DEF Learned, DictType
      <3>3. userFile.content = Corrupt => userFile' = userFile
        BY <2>1, <3>1, <3>2 DEF Flushes, Good
      <3> QED BY <3>1, <3>3
    <2>4. CASE ServicePersistence \/ Close
      BY <2>1, <2>2, <2>4 DEF ServicePersistence, Close, FlushUser
    <2>5. CASE Flush
      <3>1. CASE FlushUser(dict) /\ UNCHANGED blackFile
        BY <2>1, <2>2, <3>1 DEF FlushUser
      <3>2. CASE dict.blackWritable /\ FlushUser([dict EXCEPT !.saved = dict.black.generation])
        <4>1. [dict EXCEPT !.saved = dict.black.generation].userWritable = dict.userWritable
          BY <2>1 DEF DictType
        <4>2. userFile.content = Corrupt => userFile' = userFile
          BY <2>1, <3>2, <4>1 DEF FlushUser, Flushes, Good
        <4> QED BY <2>1, <3>2, <4>2 DEF Good
      <3> QED BY <2>5, <3>1, <3>2 DEF Flush
    <2>6. ASSUME NEW t \in Blockers, SaveBlocked(t) PROVE A
      BY <2>1, <2>6 DEF SaveBlocked, Good
    <2>7. CASE Crash
      BY <2>1, <2>7 DEF Crash, Forgotten, UserFileType, BlackFileType
    <2>8. ASSUME UNCHANGED <<userFile, blackFile>> PROVE A
      BY <2>8
    <2> QED BY <1>1, <2>3, <2>4, <2>5, <2>6, <2>7, <2>8
            DEF Next, vars, files, Lookup, Block, CaptureSessionSnapshot, RestoreSessionSnapshot,
                DropSnapshot, OpenFromFiles, OpenFromCache, Damage
  <1>2. IInv /\ [Next]_vars => [A]_vars
    BY <1>1
  <1> QED BY <1>2, Invariance, PTL DEF Spec, UnreadableIsKept

-----------------------------------------------------------------------------
(* Two threads that block                                                  *)

(* The copies under way grow with their generation; the file is behind     *)
(* each that may still be saved, and behind the members.                   *)
CopiesInv ==
  /\ \A t, q \in Blockers :
       blocking[t] # Nothing /\ blocking[q] # Nothing
         /\ blocking[t].generation <= blocking[q].generation
           => blocking[t].blocked \subseteq blocking[q].blocked
  /\ open /\ dict.blackWritable =>
       /\ BlackDisk(blackFile) \subseteq dict.black.blocked
       /\ \A t \in Blockers : blocking[t] # Nothing /\ blocking[t].generation > dict.saved =>
            BlackDisk(blackFile) \subseteq blocking[t].blocked

BlockedGrows == open /\ open' => OnDisk(blackFile, {}) \subseteq OnDisk(blackFile', {})

(* A step that does not touch the black list or its file.                  *)
LEMMA CopiesKept ==
  ASSUME CopiesInv, UNCHANGED <<open, blocking, blackFile>>, dict'.black = dict.black,
         dict'.saved = dict.saved, dict'.blackWritable = dict.blackWritable
  PROVE CopiesInv' /\ BlockedGrows
  BY DEF CopiesInv, BlackDisk, BlockedGrows

(* A flush of the user database does not touch the black list.             *)
LEMMA FlushKeepsBlack ==
  ASSUME NEW d \in DictType, NEW f \in Flushes(d)
  PROVE /\ f.dict.black = d.black /\ f.dict.saved = d.saved
        /\ f.dict.blackWritable = d.blackWritable
  <1>1. CASE f = [dict |-> d, file |-> userFile]
    <2>1. f.dict = d
      BY <1>1
    <2> QED BY <2>1
  <1>2. CASE f = [dict |-> [d EXCEPT !.dirty = FALSE], file |-> Written(d.user.learned)]
    <2>1. f.dict = [d EXCEPT !.dirty = FALSE]
      BY <1>2
    <2> QED BY <2>1 DEF DictType
  <1> QED BY <1>1, <1>2 DEF Flushes

(* A newly blocked candidate makes the last copy.                          *)
LEMMA BlockCopies ==
  ASSUME IInv, CopiesInv, NEW t \in Blockers, NEW entry \in Entries, Block(t, entry)
  PROVE CopiesInv' /\ BlockedGrows
  <1> DEFINE black == Blocked(dict.black, entry)
  <1>1. /\ BlockingInv /\ open /\ dict \in DictType
        /\ blocking \in [Blockers -> {Nothing} \cup [blocked : SUBSET Entries, generation : Nat]]
    BY MembersTyped DEF IInv, TypeOK, Block
  <1>2. /\ dict' = [dict EXCEPT !.black = black] /\ blocking' = [blocking EXCEPT ![t] = black]
        /\ UNCHANGED <<open, blackFile>>
    BY DEF Block, files
  <1>3. /\ black \in [blocked : SUBSET Entries, generation : Nat]
        /\ dict.black.blocked \subseteq black.blocked
        /\ dict.black.generation \in Nat /\ black.generation >= dict.black.generation
        /\ black.generation = dict.black.generation => black = dict.black
    BY <1>1 DEF Blocked, DictType
  <1> HIDE DEF black
  <1>4. dict'.black = black /\ dict'.saved = dict.saved /\ dict'.blackWritable = dict.blackWritable
    BY <1>1, <1>2 DEF DictType
  <1>5. blocking'[t] = black /\ \A q \in Blockers : q # t => blocking'[q] = blocking[q]
    BY <1>1, <1>2
  <1>6. \A q \in Blockers : q # t /\ blocking'[q] # Nothing =>
          /\ blocking[q].generation \in Nat /\ blocking[q].generation <= dict.black.generation
          /\ blocking[q].generation = dict.black.generation => blocking[q].blocked = dict.black.blocked
          /\ blocking[q].blocked \subseteq dict.black.blocked
    BY <1>1, <1>5 DEF BlockingInv
  <1>7. ASSUME NEW p \in Blockers, NEW q \in Blockers, blocking'[p] # Nothing, blocking'[q] # Nothing,
               blocking'[p].generation <= blocking'[q].generation
        PROVE blocking'[p].blocked \subseteq blocking'[q].blocked
    <2>1. CASE q = t
      <3>1. CASE p = t
        BY <2>1, <3>1
      <3>2. CASE p # t
        <4>1. blocking'[p] = blocking[p] /\ blocking[p].blocked \subseteq dict.black.blocked
          BY <1>5, <1>6, <1>7, <3>2
        <4> QED BY <1>3, <1>5, <2>1, <4>1
      <3> QED BY <3>1, <3>2
    <2>2. CASE q # t /\ p = t
      <3>1. blocking'[p] = black /\ blocking'[q] = blocking[q]
        BY <1>5, <2>2
      <3>2. black.generation = dict.black.generation
            /\ blocking[q].generation = dict.black.generation
        BY <1>3, <1>6, <1>7, <2>2, <3>1
      <3> QED BY <1>3, <1>6, <1>7, <2>2, <3>1, <3>2
    <2>3. CASE q # t /\ p # t
      BY <1>5, <1>7, <2>3 DEF CopiesInv
    <2> QED BY <2>1, <2>2, <2>3
  <1>8. ASSUME dict.blackWritable
        PROVE /\ BlackDisk(blackFile) \subseteq dict'.black.blocked
              /\ \A q \in Blockers : blocking'[q] # Nothing /\ blocking'[q].generation > dict.saved =>
                   BlackDisk(blackFile) \subseteq blocking'[q].blocked
    <2>1. BlackDisk(blackFile) \subseteq dict.black.blocked
      BY <1>1, <1>8 DEF CopiesInv
    <2>2. ASSUME NEW q \in Blockers, blocking'[q] # Nothing, blocking'[q].generation > dict.saved
          PROVE BlackDisk(blackFile) \subseteq blocking'[q].blocked
      <3>1. CASE q = t
        BY <1>3, <1>5, <2>1, <3>1
      <3>2. CASE q # t
        BY <1>1, <1>5, <1>8, <2>2, <3>2 DEF CopiesInv
      <3> QED BY <3>1, <3>2
    <2> QED BY <1>3, <1>4, <2>1, <2>2
  <1> QED BY <1>2, <1>4, <1>7, <1>8 DEF CopiesInv, BlackDisk, BlockedGrows

(* The generation decides which of two copies may still be saved.          *)
LEMMA SaveBlockedCopies ==
  ASSUME IInv, CopiesInv, NEW t \in Blockers, SaveBlocked(t)
  PROVE CopiesInv' /\ BlockedGrows
  <1>1. /\ BlockingInv /\ open /\ dict \in DictType /\ blocking[t] # Nothing
        /\ blocking \in [Blockers -> {Nothing} \cup [blocked : SUBSET Entries, generation : Nat]]
        /\ blocking' = [blocking EXCEPT ![t] = Nothing] /\ open' = open
    BY MembersTyped DEF IInv, TypeOK, SaveBlocked
  <1>2. \A q \in Blockers : blocking'[q] # Nothing => blocking'[q] = blocking[q]
    BY <1>1
  <1>3. blocking[t].blocked \in SUBSET Entries /\ blocking[t].generation \in Nat
        /\ \A q \in Blockers : blocking[q] # Nothing => blocking[q].generation \in Nat
    BY <1>1
  <1>4. CASE UNCHANGED <<dict, blackFile>>
    BY <1>1, <1>2, <1>4 DEF CopiesInv, BlackDisk, BlockedGrows
  <1>5. CASE /\ dict.blackWritable /\ blocking[t].generation > dict.saved
             /\ dict' = [dict EXCEPT !.saved = blocking[t].generation]
             /\ blackFile' = Written(blocking[t].blocked)
    <2>1. /\ dict'.black = dict.black /\ dict'.saved = blocking[t].generation
          /\ dict'.blackWritable = dict.blackWritable
      BY <1>1, <1>5 DEF DictType
    <2>2. BlackDisk(blackFile') = blocking[t].blocked
      BY <1>3, <1>5, WrittenBlack
    <2>3. BlackDisk(blackFile) \subseteq blocking[t].blocked
      BY <1>1, <1>5 DEF CopiesInv
    <2>4. blocking[t].blocked \subseteq dict.black.blocked
      BY <1>1 DEF BlockingInv
    <2>5. ASSUME NEW q \in Blockers, blocking'[q] # Nothing, blocking'[q].generation > dict'.saved
          PROVE blocking[t].blocked \subseteq blocking'[q].blocked
      BY <1>1, <1>2, <1>3, <2>1, <2>5 DEF CopiesInv
    <2>6. \A p, q \in Blockers :
            blocking'[p] # Nothing /\ blocking'[q] # Nothing
              /\ blocking'[p].generation <= blocking'[q].generation
                => blocking'[p].blocked \subseteq blocking'[q].blocked
      BY <1>2 DEF CopiesInv
    <2> QED BY <1>1, <2>1, <2>2, <2>3, <2>4, <2>5, <2>6 DEF CopiesInv, BlackDisk, BlockedGrows
  <1> QED BY <1>4, <1>5 DEF SaveBlocked

(* After a flush of both files no copy under way is newer than the file.   *)
LEMMA FlushCopies ==
  ASSUME IInv, CopiesInv, Flush
  PROVE CopiesInv' /\ BlockedGrows
  <1>1. /\ BlockingInv /\ open /\ dict \in DictType /\ UNCHANGED <<open, blocking>>
        /\ blocking \in [Blockers -> {Nothing} \cup [blocked : SUBSET Entries, generation : Nat]]
    BY MembersTyped DEF IInv, TypeOK, Flush, OwnerFree
  <1>2. CASE FlushUser(dict) /\ UNCHANGED blackFile
    <2>1. /\ dict'.black = dict.black /\ dict'.saved = dict.saved
          /\ dict'.blackWritable = dict.blackWritable
      BY <1>1, <1>2, FlushKeepsBlack DEF FlushUser
    <2> QED BY <1>1, <1>2, <2>1, CopiesKept
  <1>3. CASE /\ dict.blackWritable /\ blackFile' = Written(dict.black.blocked)
             /\ FlushUser([dict EXCEPT !.saved = dict.black.generation])
    <2> DEFINE d == [dict EXCEPT !.saved = dict.black.generation]
    <2>1. /\ d \in DictType /\ d.black = dict.black /\ d.saved = dict.black.generation
          /\ d.blackWritable = dict.blackWritable
      BY <1>1 DEF DictType
    <2>2. \E f \in Flushes(d) : dict' = f.dict
      BY <1>3 DEF FlushUser
    <2> HIDE DEF d
    <2>3. /\ dict'.black = dict.black /\ dict'.saved = dict.black.generation
          /\ dict'.blackWritable = dict.blackWritable
      BY <2>1, <2>2, FlushKeepsBlack
    <2>4. BlackDisk(blackFile') = dict.black.blocked
      BY <1>1, <1>3, WrittenBlack DEF DictType
    <2>5. BlackDisk(blackFile) \subseteq dict.black.blocked
      BY <1>1, <1>3 DEF CopiesInv
    <2>6. \A q \in Blockers : blocking[q] # Nothing => ~(blocking[q].generation > dict.black.generation)
      <3>1. ASSUME NEW q \in Blockers, blocking[q] # Nothing
            PROVE ~(blocking[q].generation > dict.black.generation)
        <4>1. blocking[q].generation \in Nat /\ dict.black.generation \in Nat
          BY <1>1, <3>1 DEF DictType
        <4>2. blocking[q].generation <= dict.black.generation
          BY <1>1, <3>1 DEF BlockingInv
        <4> QED BY <4>1, <4>2
      <3> QED BY <3>1
    <2> QED BY <1>1, <2>3, <2>4, <2>5, <2>6 DEF CopiesInv, BlackDisk, BlockedGrows
  <1> QED BY <1>2, <1>3 DEF Flush

(* A start and an end leave no copy under way.                             *)
LEMMA OpenCloseCopies ==
  ASSUME IInv, CopiesInv, OpenFromFiles \/ OpenFromCache \/ Close \/ Crash \/ Damage
  PROVE CopiesInv' /\ BlockedGrows
  <1>1. CASE Close \/ Crash \/ Damage
    <2>1. ~open' /\ \A t \in Blockers : blocking'[t] = Nothing
      BY <1>1 DEF Close, Crash, Gone, Damage, IInv, ClosedInv, Closed
    <2> QED BY <2>1 DEF CopiesInv, BlockedGrows
  <1>2. CASE OpenFromFiles \/ OpenFromCache
    <2>1. ~open /\ open' /\ \A t \in Blockers : blocking'[t] = Nothing
      BY <1>2 DEF OpenFromFiles, OpenFromCache, IInv, ClosedInv, Closed
    <2>2. dict'.blackWritable => BlackDisk(blackFile') = dict'.black.blocked
      <3>1. CASE OpenFromFiles
        <4>1. PICK u \in Loads(userFile, <<>>, Written(<<>>)), b \in Loads(blackFile, {}, Written({})) :
                dict' = Opened(u, b) /\ blackFile' \in {b.file, Remembered(b.file)}
          BY <3>1 DEF OpenFromFiles
        <4>2. /\ dict'.black.blocked = b.content /\ dict'.blackWritable = b.writable
              /\ b.file \in BlackFileType
              /\ b.content = BlackDisk(b.file) \/ (b.content = {} /\ ~b.writable)
          BY <4>1, MembersTyped, OpenedMembers, LoadsBlack DEF IInv
        <4>3. BlackDisk(blackFile') = BlackDisk(b.file)
          BY <4>1, <4>2 DEF BlackDisk, OnDisk, Remembered, BlackFileType
        <4> QED BY <4>2, <4>3
      <3>2. CASE OpenFromCache
        BY <3>2 DEF OpenFromCache, IInv, RememberedInv, Trusted, files
      <3> QED BY <1>2, <3>1, <3>2
    <2> QED BY <2>1, <2>2 DEF CopiesInv, BlockedGrows
  <1> QED BY <1>1, <1>2

(* With nobody rolling back, what is once blocked in the file stays there, *)
(* in whatever order any number of threads save their copies.              *)
THEOREM BlockedIsNotForgotten ==
  ASSUME MaxDepth = 0
  PROVE Spec => BlockedStaysBlocked
  <1>1. Init => CopiesInv
    BY DEF Init, CopiesInv
  <1>2. ASSUME IInv, CopiesInv, Next PROVE CopiesInv' /\ BlockedGrows
    <2>1. TypeOK /\ SnapshotsInv /\ dict \in DictType
      BY <1>2, MembersTyped DEF IInv
    <2>2. ASSUME NEW word \in Words, RecordCommit(word) PROVE CopiesInv' /\ BlockedGrows
      <3> DEFINE d == Learned(dict, word)
      <3>1. /\ d \in DictType /\ d.black = dict.black /\ d.saved = dict.saved
            /\ d.blackWritable = dict.blackWritable
        BY <2>1, LearnedMembers
      <3>2. \E f \in Flushes(d) : dict' = f.dict
        BY <2>2 DEF RecordCommit, FlushUser
      <3> HIDE DEF d
      <3>3. /\ dict'.black = dict.black /\ dict'.saved = dict.saved
            /\ dict'.blackWritable = dict.blackWritable
        BY <3>1, <3>2, FlushKeepsBlack
      <3> QED BY <1>2, <2>2, <3>3, CopiesKept DEF RecordCommit
    <2>3. CASE ServicePersistence
      <3>1. /\ dict'.black = dict.black /\ dict'.saved = dict.saved
            /\ dict'.blackWritable = dict.blackWritable
        BY <2>1, <2>3, FlushKeepsBlack DEF ServicePersistence, FlushUser
      <3> QED BY <1>2, <2>3, <3>1, CopiesKept DEF ServicePersistence
    <2>4. CASE Lookup \/ CaptureSessionSnapshot \/ DropSnapshot
      BY <1>2, <2>4, CopiesKept DEF Lookup, CaptureSessionSnapshot, DropSnapshot, files
    <2>5. ~RestoreSessionSnapshot
      <3>1. Len(snapshots) <= 0
        BY <2>1 DEF SnapshotsInv
      <3>2. snapshots # <<>> => Len(snapshots) \in Nat \ {0}
        BY <2>1, FrontAndLast DEF TypeOK
      <3> QED BY <3>1, <3>2 DEF RestoreSessionSnapshot
    <2> QED BY <1>2, <2>2, <2>3, <2>4, <2>5, FlushCopies, SaveBlockedCopies, BlockCopies,
               OpenCloseCopies DEF Next
  <1>3. ASSUME IInv, CopiesInv, UNCHANGED vars PROVE CopiesInv'
    BY <1>3, CopiesKept DEF vars
  <1>4. IInv /\ CopiesInv /\ [Next]_vars => CopiesInv' /\ [BlockedGrows]_vars
    BY <1>2, <1>3
  <1>5. Spec => [][BlockedGrows]_vars
    BY <1>1, <1>4, Invariance, PTL DEF Spec
  <1> QED BY <1>5, PTL DEF BlockedStaysBlocked, BlockedGrows

=============================================================================
