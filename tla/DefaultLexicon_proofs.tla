------------------------ MODULE DefaultLexicon_proofs ------------------------
(***************************************************************************)
(* Proofs about DefaultLexicon, for any number of threads, files, events   *)
(* and storages.                                                           *)
(***************************************************************************)
EXTENDS DefaultLexicon, FiniteSetTheorems, TLAPS

-----------------------------------------------------------------------------
(* The inductive invariant *)

(* What a thread holds follows from where it is.                           *)
CallShape(c) ==
  /\ c.acquired # Null <=> c.pc \in {"assigning", "storing"}
  /\ c.old # Null => c.pc \in {"storing", "releasing"}
  /\ c.pc = "idle" => c.found = Null
  /\ c.pc = "asking" => Failed \notin Range(c.signature) /\ Len(c.signature) <= FileCount
  /\ c.pc \in {"idle", "returning", "reading"} => c.signature = <<>>
  /\ c.pc \in {"comparing", "locking", "loading", "assigning", "storing", "releasing", "signing"} =>
       c.signature \in Signatures
  /\ c.pc = "loading" => Len(c.loaded) <= FileCount
ShapeInv == \A t \in Threads : CallShape(call[t])

(* Only what is still stored is referred to, and it has an owner.          *)
Refers(c, s) == s \in {c.acquired, c.old, c.found, c.read}
LiveInv ==
  \A s \in Storages :
    /\ stored[s] # Null => owners[s] >= 1
    /\ stored[s] = Null => /\ db.storage # s /\ cache.storage # s
                           /\ \A t \in Threads : ~Refers(call[t], s)

MutexInv == \A t \in Threads : At(t, "loading") <=> mutex = t

(* Nothing has been loaded or asked that is newer than the files.          *)
Loadable(loaded) == \A i \in DOMAIN loaded : i \in 1 .. FileCount => loaded[i] <= files[i]
Askable(signature) ==
  \A i \in DOMAIN signature :
    signature[i] # Failed /\ i \in 1 .. FileCount => signature[i] <= files[i]
PastInv ==
  /\ \A s \in Storages : stored[s] # Null => Loadable(stored[s])
  /\ \A t \in Threads : Loadable(call[t].loaded) /\ Askable(call[t].signature)
  /\ db.signature # Null => Askable(db.signature)

(* The lexicon in the cache, and the one being loaded, are no older than   *)
(* what any thread that reloads, or has reloaded, was told of the files.   *)
CoversAll(loaded) ==
  /\ Covers(loaded, db.signature)
  /\ \A u \in Reloading : Covers(loaded, call[u].signature)
FreshInv ==
  /\ cache.storage # Null =>
       Covers(stored[cache.storage], cache.signature) /\ CoversAll(stored[cache.storage])
  /\ \A t \in Threads :
       At(t, "loading") => Covers(call[t].loaded, call[t].signature) /\ CoversAll(call[t].loaded)

(* Where no race shows, one thread reloads, and it alone has the two       *)
(* members in its hands.                                                   *)
Undisturbed(t) ==
  LET c == call[t]
  IN /\ c.pc \in {"assigning", "storing"} =>
          /\ c.acquired \in Storages
          /\ Covers(stored[c.acquired], c.signature)
          /\ Covers(stored[c.acquired], db.signature)
          /\ db.storage = c.acquired => owners[c.acquired] >= 2
     /\ c.pc = "storing" => c.old = db.storage
     /\ c.pc \in {"releasing", "signing"} =>
          db.storage \in Storages /\ Covers(stored[db.storage], c.signature)
     /\ c.pc = "releasing" /\ c.old = db.storage => owners[db.storage] >= 2
UnracedInv ==
  ~raced =>
    /\ ~Torn
    /\ \A t, u \in Reloading : t = u
    /\ \A t \in Threads : Undisturbed(t)

(* While files stand still and can be read, every thread is told the same, *)
(* and all that reload take the same storage, which has an owner for each  *)
(* of them and for the member.  Once it stands in the member with its      *)
(* signature, it stays.                                                    *)
Settled == db.storage # Null /\ db.signature = files
CacheIsCurrent == cache.signature = files /\ cache.storage # Null
Holders(s) ==
  {t \in Threads : call[t].acquired = s \/ (At(t, "releasing") /\ call[t].old = s)}
Owned(s) == Cardinality(Holders(s)) + (IF db.storage = s THEN 1 ELSE 0)
CalmCall(t) ==
  LET c == call[t]
  IN /\ \A i \in DOMAIN c.signature : c.signature[i] = files[i]
     /\ c.pc # "comparing"
     /\ c.pc \in {"locking", "loading", "assigning", "storing", "releasing", "signing"} =>
          c.signature = files
     /\ c.pc = "loading" => ~Settled /\ Reloading = {}
     /\ c.pc = "locking" /\ Settled => CacheIsCurrent /\ db.storage = cache.storage
     /\ c.pc \in {"assigning", "storing"} =>
          /\ CacheIsCurrent /\ c.acquired = cache.storage
          /\ Settled => db.storage = cache.storage
     /\ c.pc \in {"storing", "releasing"} /\ c.old = cache.storage /\ cache.storage # Null =>
          db.storage = cache.storage
     /\ c.pc \in {"releasing", "signing"} => CacheIsCurrent /\ db.storage = cache.storage
     /\ c.pc \in {"returning", "reading"} => Settled
     /\ c.pc = "reading" => c.found # Null /\ c.read = c.found
     /\ c.found # Null => Settled /\ c.found = db.storage
Agreed ==
  /\ \A t \in Threads : CalmCall(t)
  /\ CacheIsCurrent => owners[cache.storage] >= Owned(cache.storage)
CalmInv == calm => Agreed

IInv ==
  /\ TypeOK
  /\ ShapeInv
  /\ LiveInv
  /\ MutexInv
  /\ PastInv
  /\ FreshInv
  /\ UnracedInv
  /\ CalmInv

-----------------------------------------------------------------------------
(* What the steps do to the call of their thread *)

IsCall(c, pc, signature, loaded, acquired, old, found, read) ==
  /\ c.pc = pc /\ c.signature = signature /\ c.loaded = loaded
  /\ c.acquired = acquired /\ c.old = old /\ c.found = found /\ c.read = read

(* The calls of the other threads stay.                                    *)
Turns(t) ==
  /\ call' \in [Threads -> Calls]
  /\ \A u \in Threads : u # t => call'[u] = call[u]

LEMMA GrowingSequences ==
  /\ <<>> \in Seq(Nat \cup {Failed}) /\ <<>> \in Seq(Nat)
  /\ \A s \in Seq(Nat \cup {Failed}) : \A x \in Nat \cup {Failed} : Append(s, x) \in Seq(Nat \cup {Failed})
  /\ \A s \in Seq(Nat) : \A n \in Nat : Append(s, n) \in Seq(Nat)
  /\ Skipped \in Nat /\ [i \in 1 .. FileCount |-> Skipped] \in Seq(Nat)
BY LexiconAssumption DEF Skipped

LEMMA Turning ==
  ASSUME TypeOK, NEW t \in Threads, NEW c \in Calls, Goes(t, c)
  PROVE  Turns(t) /\ call'[t] = c
BY DEF TypeOK, Goes, Turns

LEMMA BeginLookupEffect ==
  ASSUME TypeOK, NEW t \in Threads, BeginLookup(t)
  PROVE  LET c == call[t]
         IN /\ Turns(t)
            /\ IsCall(call'[t], "asking", <<>>, <<>>, Null, Null, Null, Null)
<1> DEFINE c == call[t]
           d == Access(AtRest)
<1>1. c \in Calls
  BY DEF TypeOK
<1>2. d \in Calls
  BY <1>1, GrowingSequences DEF Calls, References, Access, AtRest
<1>3. IsCall(d, "asking", <<>>, <<>>, Null, Null, Null, Null)
  BY <1>1 DEF Calls, IsCall, Access, AtRest
<1>4. Goes(t, d)
  BY DEF BeginLookup
<1> HIDE DEF d
<1> QED
  BY <1>2, <1>3, <1>4, Turning

LEMMA AskFileEffect ==
  ASSUME TypeOK, NEW t \in Threads, AskFile(t)
  PROVE  LET c == call[t]
         IN /\ Turns(t)
            /\ \/ IsCall(call'[t], c.pc, Append(c.signature, files[Len(c.signature) + 1]), c.loaded, c.acquired, c.old, c.found, c.read) /\ UNCHANGED <<events, calm>>
               \/ IsCall(call'[t], "comparing", Append(c.signature, Failed), c.loaded, c.acquired, c.old, c.found, c.read) /\ Fault
<1> DEFINE c == call[t]
           asked == [c EXCEPT !.signature = Append(c.signature, files[Len(c.signature) + 1])]
           failed == [c EXCEPT !.pc = "comparing", !.signature = Append(c.signature, Failed)]
<1>1. c \in Calls
  BY DEF TypeOK
<1>2. files[Len(c.signature) + 1] \in Nat \cup {Failed}
  <2>1. Len(c.signature) \in Nat /\ Len(c.signature) < FileCount
    BY <1>1 DEF AskFile, Calls
  <2>2. files \in [1 .. FileCount -> Nat \ {0}]
    BY DEF TypeOK
  <2> QED
    BY <2>1, <2>2, LexiconAssumption
<1>3. asked \in Calls /\ failed \in Calls
  BY <1>1, <1>2, GrowingSequences DEF Calls, References
<1>4. IsCall(asked, c.pc, Append(c.signature, files[Len(c.signature) + 1]), c.loaded, c.acquired, c.old, c.found, c.read)
  BY <1>1 DEF Calls, IsCall
<1>5. IsCall(failed, "comparing", Append(c.signature, Failed), c.loaded, c.acquired, c.old, c.found, c.read)
  BY <1>1 DEF Calls, IsCall
<1>6. (Goes(t, asked) /\ UNCHANGED <<events, calm>>) \/ (Goes(t, failed) /\ Fault)
  BY DEF AskFile
<1> HIDE DEF asked, failed
<1> QED
  BY <1>3, <1>4, <1>5, <1>6, Turning

LEMMA AcquireCachedEffect ==
  ASSUME TypeOK, NEW t \in Threads, AcquireCached(t)
  PROVE  LET c == call[t]
         IN /\ Turns(t)
            /\ IsCall(call'[t], "assigning", c.signature, c.loaded, cache.storage, c.old, c.found, c.read)
<1> DEFINE c == call[t]
           d == [c EXCEPT !.pc = "assigning", !.acquired = cache.storage]
<1>1. c \in Calls
  BY DEF TypeOK
<1>2. cache.storage \in References
  BY DEF TypeOK, References
<1>3. d \in Calls
  BY <1>1, <1>2, GrowingSequences DEF Calls, References
<1>4. IsCall(d, "assigning", c.signature, c.loaded, cache.storage, c.old, c.found, c.read)
  BY <1>1 DEF Calls, IsCall
<1>5. Goes(t, d)
  BY DEF AcquireCached
<1> HIDE DEF d
<1> QED
  BY <1>3, <1>4, <1>5, Turning

LEMMA BeginLoadingEffect ==
  ASSUME TypeOK, NEW t \in Threads, BeginLoading(t)
  PROVE  LET c == call[t]
         IN /\ Turns(t)
            /\ IsCall(call'[t], "loading", c.signature, <<>>, c.acquired, c.old, c.found, c.read)
<1> DEFINE c == call[t]
           d == [c EXCEPT !.pc = "loading", !.loaded = <<>>]
<1>1. c \in Calls
  BY DEF TypeOK
<1>2. d \in Calls
  BY <1>1, GrowingSequences DEF Calls, References
<1>3. IsCall(d, "loading", c.signature, <<>>, c.acquired, c.old, c.found, c.read)
  BY <1>1 DEF Calls, IsCall
<1>4. Goes(t, d)
  BY DEF BeginLoading
<1> HIDE DEF d
<1> QED
  BY <1>2, <1>3, <1>4, Turning

LEMMA BeginAssigningEffect ==
  ASSUME TypeOK, NEW t \in Threads, BeginAssigning(t)
  PROVE  LET c == call[t]
         IN /\ Turns(t)
            /\ IsCall(call'[t], "storing", c.signature, c.loaded, c.acquired, db.storage, c.found, c.read)
<1> DEFINE c == call[t]
           d == [c EXCEPT !.pc = "storing", !.old = db.storage]
<1>1. c \in Calls
  BY DEF TypeOK
<1>2. db.storage \in References
  BY DEF TypeOK
<1>3. d \in Calls
  BY <1>1, <1>2, GrowingSequences DEF Calls, References
<1>4. IsCall(d, "storing", c.signature, c.loaded, c.acquired, db.storage, c.found, c.read)
  BY <1>1 DEF Calls, IsCall
<1>5. Goes(t, d)
  BY DEF BeginAssigning
<1> HIDE DEF d
<1> QED
  BY <1>3, <1>4, <1>5, Turning

LEMMA StoreEffect ==
  ASSUME TypeOK, NEW t \in Threads, Store(t)
  PROVE  LET c == call[t]
         IN /\ Turns(t)
            /\ IsCall(call'[t], "releasing", c.signature, c.loaded, Null, c.old, c.found, c.read)
<1> DEFINE c == call[t]
           d == [c EXCEPT !.pc = "releasing", !.acquired = Null]
<1>1. c \in Calls
  BY DEF TypeOK
<1>2. d \in Calls
  BY <1>1, GrowingSequences DEF Calls, References
<1>3. IsCall(d, "releasing", c.signature, c.loaded, Null, c.old, c.found, c.read)
  BY <1>1 DEF Calls, IsCall
<1>4. Goes(t, d)
  BY DEF Store
<1> HIDE DEF d
<1> QED
  BY <1>2, <1>3, <1>4, Turning

LEMMA AssignSignatureEffect ==
  ASSUME TypeOK, NEW t \in Threads, AssignSignature(t)
  PROVE  LET c == call[t]
         IN /\ Turns(t)
            /\ IsCall(call'[t], "returning", <<>>, c.loaded, c.acquired, c.old, c.found, c.read)
<1> DEFINE c == call[t]
           d == Loaded(c)
<1>1. c \in Calls
  BY DEF TypeOK
<1>2. d \in Calls
  BY <1>1, GrowingSequences DEF Calls, References, Loaded
<1>3. IsCall(d, "returning", <<>>, c.loaded, c.acquired, c.old, c.found, c.read)
  BY <1>1 DEF Calls, IsCall, Loaded
<1>4. Goes(t, d)
  BY DEF AssignSignature
<1> HIDE DEF d
<1> QED
  BY <1>2, <1>3, <1>4, Turning

LEMMA ReadEntryEffect ==
  ASSUME TypeOK, NEW t \in Threads, ReadEntry(t)
  PROVE  LET c == call[t]
         IN /\ Turns(t)
            /\ IsCall(call'[t], "asking", c.signature, c.loaded, c.acquired, c.old, c.found, Null)
<1> DEFINE c == call[t]
           d == Access([c EXCEPT !.read = Null])
<1>1. c \in Calls
  BY DEF TypeOK
<1>2. d \in Calls
  BY <1>1, GrowingSequences DEF Calls, References, Access
<1>3. IsCall(d, "asking", c.signature, c.loaded, c.acquired, c.old, c.found, Null)
  BY <1>1 DEF Calls, IsCall, Access
<1>4. Goes(t, d)
  BY DEF ReadEntry
<1> HIDE DEF d
<1> QED
  BY <1>2, <1>3, <1>4, Turning

LEMMA CompareEffect ==
  ASSUME TypeOK, NEW t \in Threads, Compare(t)
  PROVE  LET c == call[t]
         IN /\ Turns(t)
            /\ \/ IsCall(call'[t], "returning", <<>>, c.loaded, c.acquired, c.old, c.found, c.read) /\ IsLoaded(c.signature)
               \/ IsCall(call'[t], "locking", c.signature, c.loaded, c.acquired, c.old, c.found, c.read) /\ ~IsLoaded(c.signature)
<1> DEFINE c == call[t]
           passed == Loaded(c)
           missed == [c EXCEPT !.pc = "locking"]
<1>1. c \in Calls
  BY DEF TypeOK
<1>2. passed \in Calls /\ missed \in Calls
  BY <1>1, GrowingSequences DEF Calls, References, Loaded
<1>3. IsCall(passed, "returning", <<>>, c.loaded, c.acquired, c.old, c.found, c.read)
  BY <1>1 DEF Calls, IsCall, Loaded
<1>4. IsCall(missed, "locking", c.signature, c.loaded, c.acquired, c.old, c.found, c.read)
  BY <1>1 DEF Calls, IsCall, Loaded
<1>5. (Goes(t, passed) /\ IsLoaded(c.signature)) \/ (Goes(t, missed) /\ ~IsLoaded(c.signature))
  BY DEF Compare
<1> HIDE DEF passed, missed
<1> QED
  BY <1>2, <1>3, <1>4, <1>5, Turning

LEMMA LoadFileEffect ==
  ASSUME TypeOK, NEW t \in Threads, LoadFile(t)
  PROVE  LET c == call[t]
         IN /\ Turns(t)
            /\ \/ IsCall(call'[t], c.pc, c.signature, Append(c.loaded, files[Len(c.loaded) + 1]), c.acquired, c.old, c.found, c.read) /\ UNCHANGED <<events, calm>>
               \/ IsCall(call'[t], c.pc, c.signature, Append(c.loaded, Skipped), c.acquired, c.old, c.found, c.read) /\ Fault
               \/ IsCall(call'[t], c.pc, c.signature, [i \in 1 .. FileCount |-> Skipped], c.acquired, c.old, c.found, c.read) /\ Fault
<1> DEFINE c == call[t]
           read == [c EXCEPT !.loaded = Append(c.loaded, files[Len(c.loaded) + 1])]
           skipped == [c EXCEPT !.loaded = Append(c.loaded, Skipped)]
           nothing == [c EXCEPT !.loaded = [i \in 1 .. FileCount |-> Skipped]]
<1>1. c \in Calls
  BY DEF TypeOK
<1>2. files[Len(c.loaded) + 1] \in Nat
  <2>1. Len(c.loaded) \in Nat /\ Len(c.loaded) < FileCount
    BY <1>1 DEF LoadFile, Calls
  <2>2. files \in [1 .. FileCount -> Nat \ {0}]
    BY DEF TypeOK
  <2> QED
    BY <2>1, <2>2, LexiconAssumption
<1>3. read \in Calls /\ skipped \in Calls /\ nothing \in Calls
  BY <1>1, <1>2, GrowingSequences DEF Calls, References
<1>4. IsCall(read, c.pc, c.signature, Append(c.loaded, files[Len(c.loaded) + 1]), c.acquired, c.old, c.found, c.read)
  BY <1>1 DEF Calls, IsCall
<1>5. IsCall(skipped, c.pc, c.signature, Append(c.loaded, Skipped), c.acquired, c.old, c.found, c.read)
  BY <1>1 DEF Calls, IsCall
<1>6. IsCall(nothing, c.pc, c.signature, [i \in 1 .. FileCount |-> Skipped], c.acquired, c.old, c.found, c.read)
  BY <1>1 DEF Calls, IsCall
<1>7. (Goes(t, read) /\ UNCHANGED <<events, calm>>) \/ (Goes(t, skipped) /\ Fault) \/ (Goes(t, nothing) /\ Fault)
  BY DEF LoadFile
<1> HIDE DEF read, skipped, nothing
<1> QED
  BY <1>3, <1>4, <1>5, <1>6, <1>7, Turning

LEMMA ReturnEffect ==
  ASSUME TypeOK, NEW t \in Threads, Return(t)
  PROVE  LET c == call[t]
         IN /\ Turns(t)
            /\ \/ IsCall(call'[t], "asking", c.signature, c.loaded, c.acquired, c.old, db.storage, c.read) /\ c.found = Null
               \/ IsCall(call'[t], "reading", c.signature, c.loaded, c.acquired, c.old, c.found, db.storage) /\ c.found # Null
<1> DEFINE c == call[t]
           found == Access([c EXCEPT !.found = db.storage])
           read == [c EXCEPT !.pc = "reading", !.read = db.storage]
<1>1. c \in Calls
  BY DEF TypeOK
<1>2. db.storage \in References
  BY DEF TypeOK
<1>3. found \in Calls /\ read \in Calls
  BY <1>1, <1>2, GrowingSequences DEF Calls, References, Access
<1>4. IsCall(found, "asking", c.signature, c.loaded, c.acquired, c.old, db.storage, c.read)
  BY <1>1 DEF Calls, IsCall, Access
<1>5. IsCall(read, "reading", c.signature, c.loaded, c.acquired, c.old, c.found, db.storage)
  BY <1>1 DEF Calls, IsCall, Access
<1>6. (Goes(t, found) /\ c.found = Null) \/ (Goes(t, read) /\ c.found # Null)
  BY DEF Return
<1> HIDE DEF found, read
<1> QED
  BY <1>3, <1>4, <1>5, <1>6, Turning

LEMMA EndLookupEffect ==
  ASSUME TypeOK, NEW t \in Threads, EndLookup(t)
  PROVE  LET c == call[t]
         IN /\ Turns(t)
            /\ IsCall(call'[t], "idle", <<>>, <<>>, Null, Null, Null, Null)
<1> DEFINE c == call[t]
           d == AtRest
<1>1. c \in Calls
  BY DEF TypeOK
<1>2. d \in Calls
  BY <1>1, GrowingSequences DEF Calls, References, AtRest
<1>3. IsCall(d, "idle", <<>>, <<>>, Null, Null, Null, Null)
  BY <1>1 DEF Calls, IsCall, AtRest
<1>4. Goes(t, d)
  BY DEF EndLookup
<1> HIDE DEF d
<1> QED
  BY <1>2, <1>3, <1>4, Turning

(* A release that destroys s, for all threads.                             *)
Left(r, s) == IF r = s THEN Gone ELSE r
Destroys(t, s) ==
  /\ \A u \in Threads :
       LET c == call[u]
       IN IsCall(call'[u], IF u = t THEN "signing" ELSE c.pc, c.signature, c.loaded,
                 Left(c.acquired, s), IF u = t THEN Null ELSE Left(c.old, s),
                 Left(c.found, s), Left(c.read, s))
  /\ stored' = [stored EXCEPT ![s] = Null]
  /\ cache' = [cache EXCEPT !.storage = IF cache.storage = s THEN Null ELSE cache.storage]
  /\ db' = [db EXCEPT !.storage = IF db.storage = s THEN Gone ELSE db.storage]

LEMMA WithoutEffect ==
  ASSUME NEW c \in Calls, NEW s
  PROVE  /\ Without(c, s) \in Calls
         /\ IsCall(Without(c, s), c.pc, c.signature, c.loaded, Left(c.acquired, s),
                   Left(c.old, s), Left(c.found, s), Left(c.read, s))
<1> DEFINE d == [c EXCEPT !.acquired = Left(c.acquired, s), !.old = Left(c.old, s),
                          !.found = Left(c.found, s), !.read = Left(c.read, s)]
<1>1. Without(c, s) = d
  BY DEF Without, Left, Calls
<1>2. \A r \in References : Left(r, s) \in References
  BY DEF Left, References
<1>3. d \in Calls
  BY <1>2 DEF Calls
<1>4. IsCall(d, c.pc, c.signature, c.loaded, Left(c.acquired, s),
             Left(c.old, s), Left(c.found, s), Left(c.read, s))
  BY DEF Calls, IsCall
<1> HIDE DEF d
<1> QED
  BY <1>1, <1>3, <1>4

LEMMA ReleaseEffect ==
  ASSUME TypeOK, NEW t \in Threads, Release(t)
  PROVE  LET c == call[t]
         IN /\ call' \in [Threads -> Calls]
            /\ c.old \notin {Null, Gone} => owners' = [owners EXCEPT ![c.old] = owners[c.old] - 1]
            /\ \/ /\ Turns(t)
                  /\ IsCall(call'[t], "signing", c.signature, c.loaded, c.acquired, Null, c.found, c.read)
                  /\ \/ c.old \in {Null, Gone} /\ UNCHANGED owners
                     \/ c.old \in Storages /\ owners[c.old] > 1
                  /\ UNCHANGED <<db, cache, stored>>
               \/ /\ c.old \in Storages /\ ~(owners[c.old] > 1)
                  /\ Destroys(t, c.old)
<1> DEFINE c == call[t]
           d == [c EXCEPT !.pc = "signing", !.old = Null]
           released == [call EXCEPT ![t] = d]
<1>1. c \in Calls /\ c.old \in Storages \cup {Null, Gone}
  BY DEF TypeOK, Calls, References
<1>2. d \in Calls
  BY <1>1 DEF Calls, References
<1>3. IsCall(d, "signing", c.signature, c.loaded, c.acquired, Null, c.found, c.read)
  BY <1>1 DEF Calls, IsCall
<1>4. [call EXCEPT ![t].pc = "signing", ![t].old = Null] = released
  BY DEF TypeOK, Calls
<1>5. \/ c.old \in {Null, Gone} /\ call' = released /\ UNCHANGED <<db, cache, stored, owners>>
      \/ /\ c.old \notin {Null, Gone} /\ owners' = [owners EXCEPT ![c.old] = owners[c.old] - 1]
         /\ \/ owners[c.old] > 1 /\ call' = released /\ UNCHANGED <<db, cache, stored>>
            \/ ~(owners[c.old] > 1) /\ Destroy(c.old, released)
  BY <1>4 DEF Release
<1> HIDE DEF d
<1>6. released \in [Threads -> Calls] /\ released[t] = d
      /\ \A u \in Threads : u # t => released[u] = call[u]
  BY <1>2 DEF TypeOK
<1> HIDE DEF released
<1>7. ASSUME c.old \in Storages, ~(owners[c.old] > 1), Destroy(c.old, released),
             owners' = [owners EXCEPT ![c.old] = owners[c.old] - 1]
      PROVE  call' \in [Threads -> Calls] /\ Destroys(t, c.old)
  <2>1. call' = [u \in Threads |-> Without(released[u], c.old)]
    BY <1>7 DEF Destroy
  <2>2. \A u \in Threads : released[u] \in Calls
    BY <1>6
  <2>3. call' \in [Threads -> Calls]
    BY <2>1, <2>2, WithoutEffect
  <2>4. ASSUME NEW u \in Threads
        PROVE  LET b == released[u]
               IN IsCall(call'[u], b.pc, b.signature, b.loaded, Left(b.acquired, c.old),
                         Left(b.old, c.old), Left(b.found, c.old), Left(b.read, c.old))
    BY <2>1, <2>2, WithoutEffect
  <2>5. Left(Null, c.old) = Null
    BY <1>7, LexiconAssumption DEF Left, Storages
  <2>6. ASSUME NEW u \in Threads
        PROVE  LET b == call[u]
               IN IsCall(call'[u], IF u = t THEN "signing" ELSE b.pc, b.signature, b.loaded,
                         Left(b.acquired, c.old), IF u = t THEN Null ELSE Left(b.old, c.old),
                         Left(b.found, c.old), Left(b.read, c.old))
    BY <1>3, <1>6, <2>4, <2>5 DEF IsCall
  <2> QED
    BY <1>7, <2>3, <2>6 DEF Destroy, Destroys
<1>8. CASE call' = released
  <2>1. call' \in [Threads -> Calls] /\ call'[t] = d /\ \A u \in Threads : u # t => call'[u] = call[u]
    BY <1>6, <1>8
  <2>2. CASE c.old \in {Null, Gone} /\ UNCHANGED <<db, cache, stored, owners>>
    BY <1>3, <2>1, <2>2 DEF Turns
  <2>3. CASE c.old \in Storages /\ UNCHANGED <<db, cache, stored>> /\ owners[c.old] > 1
             /\ owners' = [owners EXCEPT ![c.old] = owners[c.old] - 1]
    BY <1>3, <2>1, <2>3 DEF Turns
  <2> QED
    BY <1>1, <1>5, <1>7, <2>1, <2>2, <2>3
<1> QED
  BY <1>1, <1>5, <1>7, <1>8

LEMMA CreateEffect ==
  ASSUME TypeOK, NEW t \in Threads, Create(t)
  PROVE  LET c == call[t]
         IN \E s \in Storages :
              /\ stored[s] = Null
              /\ stored' = [stored EXCEPT ![s] = c.loaded]
              /\ owners' = [owners EXCEPT ![s] = 1]
              /\ cache' = [signature |-> c.signature, storage |-> s]
              /\ Turns(t)
              /\ IsCall(call'[t], "assigning", c.signature, <<>>, s, c.old, c.found, c.read)
<1> DEFINE c == call[t]
           s == CHOOSE s \in Storages : stored[s] = Null
           d == [c EXCEPT !.pc = "assigning", !.acquired = s, !.loaded = <<>>]
<1>1. s \in Storages /\ stored[s] = Null
  BY DEF Create
<1>2. /\ stored' = [stored EXCEPT ![s] = c.loaded] /\ owners' = [owners EXCEPT ![s] = 1]
      /\ cache' = [signature |-> c.signature, storage |-> s]
      /\ Goes(t, d)
  BY DEF Create, CacheEntry
<1> HIDE DEF s
<1>3. c \in Calls
  BY DEF TypeOK
<1>4. d \in Calls
  BY <1>1, <1>3, GrowingSequences DEF Calls, References
<1>5. IsCall(d, "assigning", c.signature, <<>>, s, c.old, c.found, c.read)
  BY <1>3 DEF Calls, IsCall
<1> HIDE DEF d
<1> QED
  BY <1>1, <1>2, <1>4, <1>5, Turning

LEMMA WholeContents ==
  ASSUME NEW s \in Seq(Nat), Len(s) = FileCount
  PROVE  s \in Contents
BY LexiconAssumption DEF Contents

LEMMA FlagStep ==
  ASSUME calm \in BOOLEAN, Next
  PROVE  calm' \in BOOLEAN /\ raced' \in BOOLEAN
<1>1. raced' \in BOOLEAN
  BY DEF Next, WatchRaces
<1>2. calm' = calm \/ calm' = FALSE \/ calm' = (calm /\ InLookup = {}) \/ \E t \in Threads : calm' = (calm \/ InLookup = {t})
  BY DEF Next, Change, Step, BeginLookup, AskFile, Fault, Compare, AcquireCached, BeginLoading, LoadFile,
         Create, BeginAssigning, Store, Release, AssignSignature, Return, ReadEntry, EndLookup
<1> QED
  BY <1>1, <1>2

LEMMA StepCalls ==
  ASSUME TypeOK, NEW t \in Threads, Step(t)
  PROVE  call' \in [Threads -> Calls]
BY BeginLookupEffect, AskFileEffect, CompareEffect, AcquireCachedEffect,
   BeginLoadingEffect, LoadFileEffect, CreateEffect, BeginAssigningEffect,
   StoreEffect, ReleaseEffect, AssignSignatureEffect, ReturnEffect,
   ReadEntryEffect, EndLookupEffect
   DEF Step, Turns

LEMMA TypeStep ==
  ASSUME TypeOK, ShapeInv, LiveInv, Next
  PROVE  TypeOK'
<1> DEFINE Data ==
             /\ files \in [1 .. FileCount -> Nat \ {0}]
             /\ events \in Nat
             /\ db \in [storage : References, signature : Signatures \cup {Null}]
             /\ cache \in [storage : Storages \cup {Null}, signature : Signatures \cup {Null}]
             /\ mutex \in Threads \cup {Nobody}
             /\ stored \in [Storages -> Contents \cup {Null}]
             /\ owners \in [Storages -> Nat]
             /\ call \in [Threads -> Calls]
<1>1. Data
  BY DEF TypeOK
<1>2. ASSUME \E i \in 1 .. FileCount : Change(i)
      PROVE  Data'
  BY <1>1, <1>2 DEF Change, Event
<1>3. ASSUME NEW t \in Threads, Step(t)
      PROVE  Data'
  <2>0. call' \in [Threads -> Calls]
    BY <1>3, StepCalls
  <2>1. CASE BeginLookup(t)
    BY <1>1, <2>0, <2>1 DEF BeginLookup
  <2>2. CASE AskFile(t)
    BY <1>1, <2>0, <2>2 DEF AskFile, Fault, Event
  <2>3. CASE Compare(t)
    BY <1>1, <2>0, <2>3 DEF Compare
  <2>4. CASE AcquireCached(t)
    BY <1>1, <2>0, <2>4 DEF AcquireCached, IsCached
  <2>5. CASE BeginLoading(t)
    BY <1>1, <2>0, <2>5 DEF BeginLoading
  <2>6. CASE LoadFile(t)
    BY <1>1, <2>0, <2>6 DEF LoadFile, Fault, Event
  <2>7. CASE Create(t)
    <3>1. call[t].loaded \in Contents /\ call[t].signature \in Signatures
      BY <2>7, WholeContents DEF TypeOK, Calls, Create, At, ShapeInv, CallShape
    <3>2. PICK s \in Storages :
            /\ stored' = [stored EXCEPT ![s] = call[t].loaded]
            /\ owners' = [owners EXCEPT ![s] = 1]
            /\ cache' = [signature |-> call[t].signature, storage |-> s]
      BY <2>7, CreateEffect
    <3>3. files' = files /\ events' = events /\ db' = db /\ mutex' = Nobody
      BY <2>7 DEF Create
    <3> QED
      BY <1>1, <2>0, <3>1, <3>2, <3>3
  <2>8. CASE BeginAssigning(t)
    BY <1>1, <2>0, <2>8 DEF BeginAssigning
  <2>9. CASE Store(t)
    <3>1. call[t].acquired \in References
      BY DEF TypeOK, Calls
    <3> QED
      BY <1>1, <2>0, <2>9, <3>1 DEF Store
  <2>10. CASE Release(t)
    <3>1. files' = files /\ events' = events /\ mutex' = mutex /\ calm' = calm
      BY <2>10 DEF Release
    <3>2. owners' \in [Storages -> Nat]
      <4>1. call[t].old \in References
        BY DEF TypeOK, Calls
      <4>2. call[t].old \in Storages => owners[call[t].old] >= 1
        BY DEF LiveInv, Refers
      <4> QED
        BY <1>1, <2>10, <4>1, <4>2 DEF Release, References
    <3>3. /\ call' \in [Threads -> Calls]
          /\ \/ UNCHANGED <<db, cache, stored>>
             \/ call[t].old \in Storages /\ Destroys(t, call[t].old)
      BY <2>10, ReleaseEffect
    <3> QED
      BY <1>1, <3>1, <3>2, <3>3 DEF TypeOK, Destroys, References
  <2>11. CASE AssignSignature(t)
    <3>1. call[t].signature \in Signatures
      BY <2>11 DEF AssignSignature, At, ShapeInv, CallShape
    <3> QED
      BY <1>1, <2>0, <2>11, <3>1 DEF AssignSignature
  <2>12. CASE Return(t)
    BY <1>1, <2>0, <2>12 DEF Return
  <2>13. CASE ReadEntry(t)
    BY <1>1, <2>0, <2>13 DEF ReadEntry
  <2>14. CASE EndLookup(t)
    BY <1>1, <2>0, <2>14 DEF EndLookup
  <2> QED
    BY <1>3, <2>1, <2>2, <2>3, <2>4, <2>5, <2>6, <2>7, <2>8, <2>9, <2>10, <2>11, <2>12, <2>13,
       <2>14 DEF Step
<1>4. Data'
  BY <1>2, <1>3 DEF Next
<1> HIDE DEF Data
<1>5. calm' \in BOOLEAN /\ raced' \in BOOLEAN
  BY FlagStep DEF TypeOK
<1> QED
  BY <1>4, <1>5 DEF Data, TypeOK

-----------------------------------------------------------------------------
(* What a thread holds follows from where it is *)

LEMMA AppendRange ==
  ASSUME NEW S, NEW s \in Seq(S), NEW x \in S
  PROVE  Range(Append(s, x)) = Range(s) \cup {x}
<1>1. /\ DOMAIN s = 1 .. Len(s) /\ Len(s) \in Nat
      /\ DOMAIN Append(s, x) = 1 .. (Len(s) + 1)
      /\ \A i \in 1 .. Len(s) : Append(s, x)[i] = s[i]
      /\ Append(s, x)[Len(s) + 1] = x
  OBVIOUS
<1>2. Range(Append(s, x)) \subseteq Range(s) \cup {x}
  BY <1>1 DEF Range
<1>3. Range(s) \cup {x} \subseteq Range(Append(s, x))
  <2>1. \A i \in 1 .. Len(s) : i \in DOMAIN Append(s, x)
    BY <1>1
  <2>2. Len(s) + 1 \in DOMAIN Append(s, x)
    BY <1>1
  <2> QED
    BY <1>1, <2>1, <2>2 DEF Range
<1> QED
  BY <1>2, <1>3

LEMMA OwnShape ==
  ASSUME ShapeInv, NEW t \in Threads, Turns(t), CallShape(call'[t])
  PROVE  ShapeInv'
BY DEF ShapeInv, Turns

LEMMA ShapeStep ==
  ASSUME TypeOK, ShapeInv, Next
  PROVE  ShapeInv'
<1>1. CASE \E i \in 1 .. FileCount : Change(i)
  BY <1>1 DEF ShapeInv, Change
<1>2. ASSUME NEW t \in Threads, Step(t)
      PROVE  ShapeInv'
  <2> DEFINE c == call[t]
  <2>0. c \in Calls /\ CallShape(c)
    BY DEF TypeOK, ShapeInv
  <2> HIDE DEF c
  <2>1. CASE BeginLookup(t)
    <3>1. CallShape(call'[t])
      BY <2>1, BeginLookupEffect, LexiconAssumption DEF CallShape, IsCall, Range
    <3> QED
      BY <2>1, <3>1, BeginLookupEffect, OwnShape
  <2>2. CASE AskFile(t)
    <3>1. /\ c.pc = "asking" /\ Len(c.signature) < FileCount
          /\ files[Len(c.signature) + 1] \in Nat
      <4>1. c.pc = "asking" /\ Len(c.signature) < FileCount
        BY <2>2 DEF AskFile, At, c
      <4> QED
        BY <2>0, <4>1, LexiconAssumption DEF TypeOK, Calls
    <3>2. /\ c.signature \in Seq(Nat \cup {Failed})
          /\ Failed \notin Range(c.signature)
      BY <2>0, <3>1 DEF Calls, CallShape
    <3>3. ASSUME IsCall(call'[t], c.pc, Append(c.signature, files[Len(c.signature) + 1]), c.loaded,
                        c.acquired, c.old, c.found, c.read)
          PROVE  CallShape(call'[t])
      <4> DEFINE signature == Append(c.signature, files[Len(c.signature) + 1])
      <4>1. Failed \notin Range(signature)
        BY <3>1, <3>2, AppendRange, LexiconAssumption
      <4>2. Len(signature) <= FileCount
        BY <3>1, <3>2, LexiconAssumption
      <4> HIDE DEF signature
      <4> QED
        BY <2>0, <3>1, <3>3, <4>1, <4>2 DEF CallShape, IsCall, signature
    <3>4. ASSUME IsCall(call'[t], "comparing", Append(c.signature, Failed), c.loaded,
                        c.acquired, c.old, c.found, c.read)
          PROVE  CallShape(call'[t])
      <4> DEFINE signature == Append(c.signature, Failed)
      <4>1. signature \in Signatures
        BY <3>2, AppendRange, GrowingSequences DEF Signatures, Whole
      <4> HIDE DEF signature
      <4> QED
        BY <2>0, <3>1, <3>4, <4>1 DEF CallShape, IsCall, signature
    <3> QED
      BY <2>2, <3>3, <3>4, AskFileEffect, OwnShape DEF c
  <2>3. CASE Compare(t)
    <3>1. c.pc \in {"asking", "comparing"} /\ c.signature \in Signatures
      BY <2>0, <2>3 DEF Compare, AskedAll, At, Calls, CallShape, Signatures, Whole, c
    <3>2. CallShape(call'[t])
      BY <2>0, <2>3, <3>1, CompareEffect DEF CallShape, IsCall, c
    <3> QED
      BY <2>3, <3>2, CompareEffect, OwnShape
  <2>4. CASE AcquireCached(t)
    <3>1. c.pc = "locking" /\ cache.storage # Null
      BY <2>4 DEF AcquireCached, At, IsCached, c
    <3>2. CallShape(call'[t])
      BY <2>0, <2>4, <3>1, AcquireCachedEffect DEF CallShape, IsCall, c
    <3> QED
      BY <2>4, <3>2, AcquireCachedEffect, OwnShape
  <2>5. CASE BeginLoading(t)
    <3>1. c.pc = "locking"
      BY <2>5 DEF BeginLoading, At, c
    <3>2. CallShape(call'[t])
      BY <2>0, <2>5, <3>1, BeginLoadingEffect, LexiconAssumption DEF CallShape, IsCall, c
    <3> QED
      BY <2>5, <3>2, BeginLoadingEffect, OwnShape
  <2>6. CASE LoadFile(t)
    <3>1. c.pc = "loading" /\ Len(c.loaded) < FileCount
      BY <2>6 DEF LoadFile, At, c
    <3>2. Len(call'[t].loaded) <= FileCount
      BY <2>0, <2>6, <3>1, LoadFileEffect, LexiconAssumption DEF Calls, IsCall, c
    <3>3. CallShape(call'[t])
      BY <2>0, <2>6, <3>1, <3>2, LoadFileEffect DEF CallShape, IsCall, c
    <3> QED
      BY <2>6, <3>3, LoadFileEffect, OwnShape
  <2>7. CASE Create(t)
    <3>1. c.pc = "loading" /\ \A s \in Storages : s # Null
      BY <2>7, LexiconAssumption DEF Create, At, c, Storages
    <3>2. CallShape(call'[t])
      BY <2>0, <2>7, <3>1, CreateEffect DEF CallShape, IsCall, c
    <3> QED
      BY <2>7, <3>2, CreateEffect, OwnShape
  <2>8. CASE BeginAssigning(t)
    <3>1. c.pc = "assigning"
      BY <2>8 DEF BeginAssigning, At, c
    <3>2. CallShape(call'[t])
      BY <2>0, <2>8, <3>1, BeginAssigningEffect DEF CallShape, IsCall, c
    <3> QED
      BY <2>8, <3>2, BeginAssigningEffect, OwnShape
  <2>9. CASE Store(t)
    <3>1. c.pc = "storing"
      BY <2>9 DEF Store, At, c
    <3>2. CallShape(call'[t])
      BY <2>0, <2>9, <3>1, StoreEffect DEF CallShape, IsCall, c
    <3> QED
      BY <2>9, <3>2, StoreEffect, OwnShape
  <2>10. CASE Release(t)
    <3>1. c.pc = "releasing"
      BY <2>10 DEF Release, At, c
    <3>2. CASE /\ Turns(t)
               /\ IsCall(call'[t], "signing", c.signature, c.loaded, c.acquired, Null, c.found, c.read)
      <4>1. CallShape(call'[t])
        BY <2>0, <3>1, <3>2 DEF CallShape, IsCall
      <4> QED
        BY <3>2, <4>1, OwnShape
    <3>3. CASE c.old \in Storages /\ Destroys(t, c.old)
      <4>1. \A r : Left(r, c.old) # Null <=> r # Null
        BY <3>3, LexiconAssumption DEF Left, Storages
      <4>2. ASSUME NEW u \in Threads
            PROVE  CallShape(call'[u])
        <5>1. CallShape(call[u])
          BY DEF ShapeInv
        <5>2. CASE u = t
          BY <2>0, <3>1, <3>3, <4>1, <5>2 DEF Destroys, CallShape, IsCall, c
        <5>3. CASE u # t
          BY <3>3, <4>1, <5>1, <5>3 DEF Destroys, CallShape, IsCall
        <5> QED
          BY <5>2, <5>3
      <4> QED
        BY <4>2 DEF ShapeInv
    <3> QED
      BY <2>10, <3>2, <3>3, ReleaseEffect DEF c
  <2>11. CASE AssignSignature(t)
    <3>1. c.pc = "signing"
      BY <2>11 DEF AssignSignature, At, c
    <3>2. CallShape(call'[t])
      BY <2>0, <2>11, <3>1, AssignSignatureEffect DEF CallShape, IsCall, c
    <3> QED
      BY <2>11, <3>2, AssignSignatureEffect, OwnShape
  <2>12. CASE Return(t)
    <3>1. c.pc = "returning"
      BY <2>12 DEF Return, At, c
    <3>2. CallShape(call'[t])
      BY <2>0, <2>12, <3>1, ReturnEffect, LexiconAssumption DEF CallShape, IsCall, c, Range
    <3> QED
      BY <2>12, <3>2, ReturnEffect, OwnShape
  <2>13. CASE ReadEntry(t)
    <3>1. c.pc = "reading"
      BY <2>13 DEF ReadEntry, At, c
    <3>2. CallShape(call'[t])
      BY <2>0, <2>13, <3>1, ReadEntryEffect, LexiconAssumption DEF CallShape, IsCall, c, Range
    <3> QED
      BY <2>13, <3>2, ReadEntryEffect, OwnShape
  <2>14. CASE EndLookup(t)
    <3>1. CallShape(call'[t])
      BY <2>14, EndLookupEffect DEF CallShape, IsCall
    <3> QED
      BY <2>14, <3>1, EndLookupEffect, OwnShape
  <2> QED
    BY <1>2, <2>1, <2>2, <2>3, <2>4, <2>5, <2>6, <2>7, <2>8, <2>9, <2>10, <2>11, <2>12, <2>13,
       <2>14 DEF Step
<1> QED
  BY <1>1, <1>2 DEF Next

-----------------------------------------------------------------------------
(* Only what is still stored is referred to *)

LEMMA OwnLive ==
  ASSUME LiveInv, NEW t \in Threads, Turns(t), UNCHANGED <<stored, owners, cache>>,
         db'.storage = db.storage,
         \A s \in Storages : Refers(call'[t], s) => Refers(call[t], s) \/ s = db.storage
  PROVE  LiveInv'
BY DEF LiveInv, Turns

LEMMA LiveStep ==
  ASSUME TypeOK, LiveInv, Next
  PROVE  LiveInv'
<1>0. \A s \in Storages : s # Null /\ s # Gone
  BY LexiconAssumption DEF Storages
<1>1. CASE \E i \in 1 .. FileCount : Change(i)
  BY <1>1 DEF LiveInv, Change
<1>2. ASSUME NEW t \in Threads, Step(t)
      PROVE  LiveInv'
  <2> DEFINE c == call[t]
  <2>0. c \in Calls /\ \A s \in Storages : Refers(c, s) => stored[s] # Null /\ owners[s] >= 1
    BY DEF TypeOK, LiveInv
  <2> HIDE DEF c
  <2>1. CASE BeginLookup(t)
    <3>1. UNCHANGED <<stored, owners, cache>> /\ db'.storage = db.storage
      BY <2>1 DEF BeginLookup
    <3>2. \A s \in Storages : Refers(call'[t], s) => Refers(c, s) \/ s = db.storage
      BY <1>0, <2>1, BeginLookupEffect DEF Refers, IsCall, c
    <3> QED
      BY <2>1, <3>1, <3>2, BeginLookupEffect, OwnLive DEF c
  <2>2. CASE AskFile(t)
    <3>1. UNCHANGED <<stored, owners, cache>> /\ db'.storage = db.storage
      BY <2>2 DEF AskFile
    <3>2. \A s \in Storages : Refers(call'[t], s) => Refers(c, s) \/ s = db.storage
      BY <1>0, <2>2, AskFileEffect DEF Refers, IsCall, c
    <3> QED
      BY <2>2, <3>1, <3>2, AskFileEffect, OwnLive DEF c
  <2>3. CASE Compare(t)
    <3>1. UNCHANGED <<stored, owners, cache>> /\ db'.storage = db.storage
      BY <2>3 DEF Compare
    <3>2. \A s \in Storages : Refers(call'[t], s) => Refers(c, s) \/ s = db.storage
      BY <1>0, <2>3, CompareEffect DEF Refers, IsCall, c
    <3> QED
      BY <2>3, <3>1, <3>2, CompareEffect, OwnLive DEF c
  <2>4. CASE AcquireCached(t)
    <3>1. /\ owners' = [owners EXCEPT ![cache.storage] = owners[cache.storage] + 1]
          /\ UNCHANGED <<stored, cache, db>> /\ cache.storage # Null
      BY <2>4 DEF AcquireCached, IsCached
    <3>2. ASSUME NEW s \in Storages
          PROVE  /\ owners'[s] \in Nat /\ owners'[s] >= owners[s]
                 /\ Refers(call'[t], s) => Refers(c, s) \/ s = cache.storage
      BY <2>4, <3>1, <3>2, <1>0, AcquireCachedEffect DEF Refers, IsCall, TypeOK, c
    <3> QED
      BY <2>4, <3>1, <3>2, AcquireCachedEffect DEF LiveInv, Turns, TypeOK, c
  <2>5. CASE BeginLoading(t)
    <3>1. UNCHANGED <<stored, owners, cache>> /\ db'.storage = db.storage
      BY <2>5 DEF BeginLoading
    <3>2. \A s \in Storages : Refers(call'[t], s) => Refers(c, s) \/ s = db.storage
      BY <1>0, <2>5, BeginLoadingEffect DEF Refers, IsCall, c
    <3> QED
      BY <2>5, <3>1, <3>2, BeginLoadingEffect, OwnLive DEF c
  <2>6. CASE LoadFile(t)
    <3>1. UNCHANGED <<stored, owners, cache>> /\ db'.storage = db.storage
      BY <2>6 DEF LoadFile
    <3>2. \A s \in Storages : Refers(call'[t], s) => Refers(c, s) \/ s = db.storage
      BY <1>0, <2>6, LoadFileEffect DEF Refers, IsCall, c
    <3> QED
      BY <2>6, <3>1, <3>2, LoadFileEffect, OwnLive DEF c
  <2>7. CASE Create(t)
    <3>1. PICK s \in Storages :
            /\ stored[s] = Null
            /\ stored' = [stored EXCEPT ![s] = c.loaded]
            /\ owners' = [owners EXCEPT ![s] = 1]
            /\ cache' = [signature |-> c.signature, storage |-> s]
            /\ Turns(t)
            /\ IsCall(call'[t], "assigning", c.signature, <<>>, s, c.old, c.found, c.read)
      BY <2>7, CreateEffect DEF c
    <3>2. c.loaded # Null /\ UNCHANGED db
      <4>1. c.loaded \in Contents /\ UNCHANGED db
        BY <2>0, <2>7, WholeContents DEF Create, Calls, c
      <4> QED
        BY <4>1, LexiconAssumption DEF Contents
    <3>3. ASSUME NEW r \in Storages, r # s
          PROVE  Refers(call'[t], r) => Refers(c, r)
      BY <3>1, <3>3, <1>0 DEF Refers, IsCall
    <3>4. stored'[s] # Null /\ owners'[s] >= 1
      BY <3>1, <3>2 DEF TypeOK
    <3>5. ASSUME NEW r \in Storages, r # s
          PROVE  /\ stored'[r] # Null => owners'[r] >= 1
                 /\ stored'[r] = Null => /\ db'.storage # r /\ cache'.storage # r
                                         /\ \A u \in Threads : ~Refers(call'[u], r)
      BY <3>1, <3>2, <3>3, <3>5 DEF LiveInv, Turns, TypeOK, c
    <3> QED
      BY <3>4, <3>5 DEF LiveInv
  <2>8. CASE BeginAssigning(t)
    <3>1. UNCHANGED <<stored, owners, cache>> /\ db'.storage = db.storage
      BY <2>8 DEF BeginAssigning
    <3>2. \A s \in Storages : Refers(call'[t], s) => Refers(c, s) \/ s = db.storage
      BY <1>0, <2>8, BeginAssigningEffect DEF Refers, IsCall, c
    <3> QED
      BY <2>8, <3>1, <3>2, BeginAssigningEffect, OwnLive DEF c
  <2>9. CASE Store(t)
    <3>1. UNCHANGED <<stored, owners, cache>> /\ db'.storage = c.acquired
      BY <2>9 DEF Store, TypeOK, c
    <3>2. \A s \in Storages : Refers(call'[t], s) => Refers(c, s)
      BY <2>9, <1>0, StoreEffect DEF Refers, IsCall, c
    <3>3. \A s \in Storages : db'.storage = s => Refers(c, s)
      BY <3>1 DEF Refers
    <3> QED
      BY <2>0, <2>9, <3>1, <3>2, <3>3, StoreEffect DEF LiveInv, Turns, c
  <2>10. CASE Release(t)
    <3>1. CASE /\ Turns(t) /\ UNCHANGED <<db, cache, stored>>
               /\ IsCall(call'[t], "signing", c.signature, c.loaded, c.acquired, Null, c.found, c.read)
               /\ \/ UNCHANGED owners
                  \/ c.old \in Storages /\ owners[c.old] > 1
                     /\ owners' = [owners EXCEPT ![c.old] = owners[c.old] - 1]
      <4>1. \A s \in Storages : Refers(call'[t], s) => Refers(c, s)
        BY <1>0, <3>1 DEF Refers, IsCall
      <4>2. ASSUME NEW s \in Storages, owners[s] >= 1 PROVE owners'[s] >= 1
        <5>1. owners \in [Storages -> Nat]
          BY DEF TypeOK
        <5>2. CASE UNCHANGED owners
          BY <4>2, <5>2
        <5>3. CASE /\ c.old \in Storages /\ owners[c.old] > 1
                   /\ owners' = [owners EXCEPT ![c.old] = owners[c.old] - 1]
          <6> HIDE DEF c
          <6> QED BY <4>2, <5>1, <5>3
        <5> QED
          BY <3>1, <5>2, <5>3
      <4> QED
        BY <3>1, <4>1, <4>2 DEF LiveInv, Turns, c
    <3>2. CASE /\ c.old \in Storages /\ Destroys(t, c.old)
               /\ owners' = [owners EXCEPT ![c.old] = owners[c.old] - 1]
      <4>1. ASSUME NEW s \in Storages, NEW u \in Threads
            PROVE  Refers(call'[u], s) => Refers(call[u], s) /\ s # c.old
        BY <1>0, <3>2 DEF Destroys, Refers, IsCall, Left
      <4>2. ASSUME NEW s \in Storages, s # c.old
            PROVE  /\ stored'[s] = stored[s] /\ owners'[s] = owners[s]
                   /\ db'.storage = s => db.storage = s
                   /\ cache'.storage = s => cache.storage = s
        BY <1>0, <3>2, <4>2 DEF Destroys, TypeOK
      <4>3. stored'[c.old] = Null /\ db'.storage # c.old /\ cache'.storage # c.old
        BY <1>0, <3>2 DEF Destroys, TypeOK
      <4> QED
        BY <3>2, <4>1, <4>2, <4>3 DEF LiveInv
    <3> QED
      BY <1>0, <2>10, <3>1, <3>2, ReleaseEffect DEF c
  <2>11. CASE AssignSignature(t)
    <3>1. UNCHANGED <<stored, owners, cache>> /\ db'.storage = db.storage
      BY <2>11 DEF AssignSignature, TypeOK
    <3>2. \A s \in Storages : Refers(call'[t], s) => Refers(c, s) \/ s = db.storage
      BY <1>0, <2>11, AssignSignatureEffect DEF Refers, IsCall, c
    <3> QED
      BY <2>11, <3>1, <3>2, AssignSignatureEffect, OwnLive DEF c
  <2>12. CASE Return(t)
    <3>1. UNCHANGED <<stored, owners, cache>> /\ db'.storage = db.storage
      BY <2>12 DEF Return
    <3>2. \A s \in Storages : Refers(call'[t], s) => Refers(c, s) \/ s = db.storage
      BY <1>0, <2>12, ReturnEffect DEF Refers, IsCall, c
    <3> QED
      BY <2>12, <3>1, <3>2, ReturnEffect, OwnLive DEF c
  <2>13. CASE ReadEntry(t)
    <3>1. UNCHANGED <<stored, owners, cache>> /\ db'.storage = db.storage
      BY <2>13 DEF ReadEntry
    <3>2. \A s \in Storages : Refers(call'[t], s) => Refers(c, s) \/ s = db.storage
      BY <1>0, <2>13, ReadEntryEffect DEF Refers, IsCall, c
    <3> QED
      BY <2>13, <3>1, <3>2, ReadEntryEffect, OwnLive DEF c
  <2>14. CASE EndLookup(t)
    <3>1. UNCHANGED <<stored, owners, cache>> /\ db'.storage = db.storage
      BY <2>14 DEF EndLookup
    <3>2. \A s \in Storages : Refers(call'[t], s) => Refers(c, s) \/ s = db.storage
      BY <1>0, <2>14, EndLookupEffect DEF Refers, IsCall, c
    <3> QED
      BY <2>14, <3>1, <3>2, EndLookupEffect, OwnLive DEF c
  <2> QED
    BY <1>2, <2>1, <2>2, <2>3, <2>4, <2>5, <2>6, <2>7, <2>8, <2>9, <2>10, <2>11, <2>12, <2>13,
       <2>14 DEF Step
<1> QED
  BY <1>1, <1>2 DEF Next

-----------------------------------------------------------------------------
(* Whoever loads holds the mutex *)

LEMMA OwnMutex ==
  ASSUME MutexInv, NEW t \in Threads, Turns(t), UNCHANGED mutex,
         call'[t].pc = "loading" <=> call[t].pc = "loading"
  PROVE  MutexInv'
BY DEF MutexInv, Turns, At

LEMMA MutexStep ==
  ASSUME TypeOK, MutexInv, Next
  PROVE  MutexInv'
<1>1. CASE \E i \in 1 .. FileCount : Change(i)
  BY <1>1 DEF MutexInv, Change, At
<1>2. ASSUME NEW t \in Threads, Step(t)
      PROVE  MutexInv'
  <2>1. CASE BeginLookup(t)
    <3>1. UNCHANGED mutex /\ (call'[t].pc = "loading" <=> call[t].pc = "loading")
      BY <2>1, BeginLookupEffect DEF BeginLookup, At, IsCall
    <3> QED
      BY <2>1, <3>1, BeginLookupEffect, OwnMutex
  <2>2. CASE AskFile(t)
    <3>1. UNCHANGED mutex /\ (call'[t].pc = "loading" <=> call[t].pc = "loading")
      BY <2>2, AskFileEffect DEF AskFile, At, IsCall
    <3> QED
      BY <2>2, <3>1, AskFileEffect, OwnMutex
  <2>3. CASE Compare(t)
    <3>1. UNCHANGED mutex /\ (call'[t].pc = "loading" <=> call[t].pc = "loading")
      BY <2>3, CompareEffect DEF Compare, At, IsCall, AskedAll
    <3> QED
      BY <2>3, <3>1, CompareEffect, OwnMutex
  <2>4. CASE AcquireCached(t)
    <3>1. UNCHANGED mutex /\ (call'[t].pc = "loading" <=> call[t].pc = "loading")
      BY <2>4, AcquireCachedEffect DEF AcquireCached, At, IsCall
    <3> QED
      BY <2>4, <3>1, AcquireCachedEffect, OwnMutex
  <2>5. CASE BeginLoading(t)
    <3>1. mutex = Nobody /\ mutex' = t
      BY <2>5 DEF BeginLoading
    <3>2. Turns(t) /\ call'[t].pc = "loading"
      BY <2>5, BeginLoadingEffect DEF IsCall
    <3> QED
      BY <3>1, <3>2, LexiconAssumption DEF MutexInv, At, Turns
  <2>6. CASE LoadFile(t)
    <3>1. UNCHANGED mutex /\ (call'[t].pc = "loading" <=> call[t].pc = "loading")
      BY <2>6, LoadFileEffect DEF LoadFile, At, IsCall
    <3> QED
      BY <2>6, <3>1, LoadFileEffect, OwnMutex
  <2>7. CASE Create(t)
    <3>1. mutex' = Nobody /\ At(t, "loading")
      BY <2>7 DEF Create
    <3>2. Turns(t) /\ call'[t].pc = "assigning"
      BY <2>7, CreateEffect DEF IsCall
    <3> QED
      BY <3>1, <3>2, LexiconAssumption DEF MutexInv, At, Turns
  <2>8. CASE BeginAssigning(t)
    <3>1. UNCHANGED mutex /\ (call'[t].pc = "loading" <=> call[t].pc = "loading")
      BY <2>8, BeginAssigningEffect DEF BeginAssigning, At, IsCall
    <3> QED
      BY <2>8, <3>1, BeginAssigningEffect, OwnMutex
  <2>9. CASE Store(t)
    <3>1. UNCHANGED mutex /\ (call'[t].pc = "loading" <=> call[t].pc = "loading")
      BY <2>9, StoreEffect DEF Store, At, IsCall
    <3> QED
      BY <2>9, <3>1, StoreEffect, OwnMutex
  <2>10. CASE Release(t)
    <3>1. UNCHANGED mutex /\ At(t, "releasing")
      BY <2>10 DEF Release
    <3>2. \A u \in Threads : call'[u].pc = IF u = t THEN "signing" ELSE call[u].pc
      BY <2>10, ReleaseEffect DEF IsCall, Destroys, Turns
    <3> QED
      BY <3>1, <3>2 DEF MutexInv, At
  <2>11. CASE AssignSignature(t)
    <3>1. UNCHANGED mutex /\ (call'[t].pc = "loading" <=> call[t].pc = "loading")
      BY <2>11, AssignSignatureEffect DEF AssignSignature, At, IsCall
    <3> QED
      BY <2>11, <3>1, AssignSignatureEffect, OwnMutex
  <2>12. CASE Return(t)
    <3>1. UNCHANGED mutex /\ (call'[t].pc = "loading" <=> call[t].pc = "loading")
      BY <2>12, ReturnEffect DEF Return, At, IsCall
    <3> QED
      BY <2>12, <3>1, ReturnEffect, OwnMutex
  <2>13. CASE ReadEntry(t)
    <3>1. UNCHANGED mutex /\ (call'[t].pc = "loading" <=> call[t].pc = "loading")
      BY <2>13, ReadEntryEffect DEF ReadEntry, At, IsCall
    <3> QED
      BY <2>13, <3>1, ReadEntryEffect, OwnMutex
  <2>14. CASE EndLookup(t)
    <3>1. UNCHANGED mutex /\ (call'[t].pc = "loading" <=> call[t].pc = "loading")
      BY <2>14, EndLookupEffect DEF EndLookup, At, IsCall
    <3> QED
      BY <2>14, <3>1, EndLookupEffect, OwnMutex
  <2> QED
    BY <1>2, <2>1, <2>2, <2>3, <2>4, <2>5, <2>6, <2>7, <2>8, <2>9, <2>10, <2>11, <2>12, <2>13,
       <2>14 DEF Step
<1> QED
  BY <1>1, <1>2 DEF Next

-----------------------------------------------------------------------------
(* Nothing is newer than the files *)

LEMMA AppendLoadable ==
  ASSUME NEW loaded \in Seq(Nat), Loadable(loaded), NEW n \in Nat,
         Len(loaded) + 1 \in 1 .. FileCount => n <= files[Len(loaded) + 1]
  PROVE  Loadable(Append(loaded, n))
BY DEF Loadable

LEMMA AppendAskable ==
  ASSUME NEW signature \in Seq(Nat \cup {Failed}), Askable(signature), NEW n \in Nat \cup {Failed},
         n # Failed /\ Len(signature) + 1 \in 1 .. FileCount => n <= files[Len(signature) + 1]
  PROVE  Askable(Append(signature, n))
<1> DEFINE longer == Append(signature, n)
<1>1. /\ DOMAIN longer = 1 .. (Len(signature) + 1) /\ DOMAIN signature = 1 .. Len(signature)
      /\ Len(signature) \in Nat
      /\ \A i \in 1 .. Len(signature) : longer[i] = signature[i]
      /\ longer[Len(signature) + 1] = n
  OBVIOUS
<1> HIDE DEF longer
<1>2. Askable(longer)
  BY <1>1 DEF Askable
<1> QED
  BY <1>2 DEF longer

LEMMA OwnPast ==
  ASSUME PastInv, NEW t \in Threads, Turns(t), UNCHANGED <<files, stored>>,
         db'.signature = db.signature,
         Loadable(call'[t].loaded), Askable(call'[t].signature)
  PROVE  PastInv'
<1>1. \A u \in Threads : Loadable(call'[u].loaded) /\ Askable(call'[u].signature)
  BY DEF PastInv, Turns
<1> QED
  BY <1>1 DEF PastInv, Loadable, Askable

LEMMA PastStep ==
  ASSUME TypeOK, PastInv, Next
  PROVE  PastInv'
<1>0. Loadable(<<>>) /\ Askable(<<>>)
  BY DEF Loadable, Askable
<1>1. ASSUME NEW k \in 1 .. FileCount, Change(k)
      PROVE  PastInv'
  <2>1. \A i \in 1 .. FileCount : files[i] \in Nat /\ files'[i] \in Nat /\ files[i] <= files'[i]
    BY <1>1 DEF Change, TypeOK
  <2>2. UNCHANGED <<stored, call, db>>
    BY <1>1 DEF Change
  <2>3. ASSUME NEW loaded, \A i \in DOMAIN loaded : loaded[i] \in Nat, Loadable(loaded)
        PROVE  \A i \in DOMAIN loaded : i \in 1 .. FileCount => loaded[i] <= files'[i]
    BY <2>1, <2>3 DEF Loadable
  <2>4. ASSUME NEW signature \in Seq(Nat \cup {Failed}), Askable(signature)
        PROVE  \A i \in DOMAIN signature :
                 signature[i] # Failed /\ i \in 1 .. FileCount => signature[i] <= files'[i]
    <3>1. \A i \in DOMAIN signature : signature[i] \in Nat \cup {Failed}
      OBVIOUS
    <3> QED
      BY <2>1, <2>4, <3>1 DEF Askable
  <2>5. ASSUME NEW s \in Storages, stored[s] # Null
        PROVE  Loadable(stored[s])'
    <3>1. stored[s] \in Contents
      BY <2>5 DEF TypeOK
    <3>2. \A i \in DOMAIN stored[s] : stored[s][i] \in Nat
      BY <3>1 DEF Contents
    <3> QED
      BY <2>2, <2>3, <2>5, <3>2 DEF PastInv, Loadable
  <2>6. ASSUME NEW t \in Threads
        PROVE  (Loadable(call[t].loaded) /\ Askable(call[t].signature))'
    <3>1. call[t].loaded \in Seq(Nat) /\ call[t].signature \in Seq(Nat \cup {Failed})
      BY DEF TypeOK, Calls
    <3>2. \A i \in DOMAIN call[t].loaded : call[t].loaded[i] \in Nat
      BY <3>1
    <3>3. Loadable(call[t].loaded)'
      BY <2>2, <2>3, <3>2 DEF PastInv, Loadable
    <3>4. Askable(call[t].signature)'
      BY <2>2, <2>4, <3>1 DEF PastInv, Askable
    <3> QED
      BY <3>3, <3>4
  <2>7. ASSUME db.signature # Null
        PROVE  Askable(db.signature)'
    <3>1. db.signature \in Seq(Nat \cup {Failed})
      BY <2>7 DEF TypeOK, Signatures
    <3> QED
      BY <2>2, <2>4, <2>7, <3>1 DEF PastInv, Askable
  <2> QED
    BY <2>2, <2>5, <2>6, <2>7 DEF PastInv
<1>2. ASSUME NEW t \in Threads, Step(t)
      PROVE  PastInv'
  <2> DEFINE c == call[t]
  <2>0. c \in Calls /\ Loadable(c.loaded) /\ Askable(c.signature)
    BY DEF TypeOK, PastInv
  <2> HIDE DEF c
  <2>1. CASE BeginLookup(t)
    <3>1. UNCHANGED <<files, stored>> /\ db'.signature = db.signature
      BY <2>1 DEF BeginLookup
    <3>2. Loadable(call'[t].loaded) /\ Askable(call'[t].signature)
      BY <1>0, <2>0, <2>1, BeginLookupEffect DEF IsCall, c
    <3> QED
      BY <2>1, <3>1, <3>2, BeginLookupEffect, OwnPast
  <2>2. CASE AskFile(t)
    <3> DEFINE k == Len(c.signature) + 1
    <3>1. /\ UNCHANGED <<files, stored>> /\ db'.signature = db.signature
          /\ c.signature \in Seq(Nat \cup {Failed}) /\ files[k] \in Nat
      <4>1. c.signature \in Seq(Nat \cup {Failed}) /\ Len(c.signature) < FileCount
        BY <2>0, <2>2 DEF AskFile, Calls, c
      <4> QED
        BY <2>2, <4>1, LexiconAssumption DEF AskFile, TypeOK
    <3>2. Askable(Append(c.signature, files[k]))
      BY <2>0, <3>1, AppendAskable
    <3>3. Askable(Append(c.signature, Failed))
      BY <2>0, <3>1, AppendAskable
    <3> HIDE DEF k
    <3>4. Loadable(call'[t].loaded) /\ Askable(call'[t].signature)
      BY <2>0, <2>2, <3>2, <3>3, AskFileEffect DEF IsCall, c, k
    <3> QED
      BY <2>2, <3>1, <3>4, AskFileEffect, OwnPast
  <2>3. CASE Compare(t)
    <3>1. UNCHANGED <<files, stored>> /\ db'.signature = db.signature
      BY <2>3 DEF Compare
    <3>2. Loadable(call'[t].loaded) /\ Askable(call'[t].signature)
      BY <1>0, <2>0, <2>3, CompareEffect DEF IsCall, c
    <3> QED
      BY <2>3, <3>1, <3>2, CompareEffect, OwnPast
  <2>4. CASE AcquireCached(t)
    <3>1. UNCHANGED <<files, stored>> /\ db'.signature = db.signature
      BY <2>4 DEF AcquireCached
    <3>2. Loadable(call'[t].loaded) /\ Askable(call'[t].signature)
      BY <1>0, <2>0, <2>4, AcquireCachedEffect DEF IsCall, c
    <3> QED
      BY <2>4, <3>1, <3>2, AcquireCachedEffect, OwnPast
  <2>5. CASE BeginLoading(t)
    <3>1. UNCHANGED <<files, stored>> /\ db'.signature = db.signature
      BY <2>5 DEF BeginLoading
    <3>2. Loadable(call'[t].loaded) /\ Askable(call'[t].signature)
      BY <1>0, <2>0, <2>5, BeginLoadingEffect DEF IsCall, c
    <3> QED
      BY <2>5, <3>1, <3>2, BeginLoadingEffect, OwnPast
  <2>6. CASE LoadFile(t)
    <3> DEFINE k == Len(c.loaded) + 1
               nothing == [i \in 1 .. FileCount |-> Skipped]
    <3>1. /\ UNCHANGED <<files, stored>> /\ db'.signature = db.signature
          /\ c.loaded \in Seq(Nat) /\ k \in 1 .. FileCount /\ files[k] \in Nat
      <4>1. c.loaded \in Seq(Nat) /\ Len(c.loaded) < FileCount
        BY <2>0, <2>6 DEF LoadFile, Calls, c
      <4> QED
        BY <2>6, <4>1, LexiconAssumption DEF LoadFile, TypeOK
    <3>2. Loadable(Append(c.loaded, files[k]))
      BY <2>0, <3>1, AppendLoadable
    <3>3. Loadable(Append(c.loaded, Skipped))
      BY <2>0, <3>1, AppendLoadable DEF Skipped
    <3>4. Loadable(nothing)
      BY DEF Loadable, Skipped, TypeOK
    <3> HIDE DEF k, nothing
    <3>5. Loadable(call'[t].loaded) /\ Askable(call'[t].signature)
      BY <2>0, <2>6, <3>2, <3>3, <3>4, LoadFileEffect DEF IsCall, c, k, nothing
    <3> QED
      BY <2>6, <3>1, <3>5, LoadFileEffect, OwnPast
  <2>7. CASE Create(t)
    <3>1. PICK s \in Storages :
            /\ stored' = [stored EXCEPT ![s] = c.loaded]
            /\ Turns(t)
            /\ IsCall(call'[t], "assigning", c.signature, <<>>, s, c.old, c.found, c.read)
      BY <2>7, CreateEffect DEF c
    <3>2. UNCHANGED <<files, db>>
      BY <2>7 DEF Create
    <3>3. \A r \in Storages : stored'[r] # Null => Loadable(stored'[r])
      BY <2>0, <3>1 DEF PastInv, TypeOK
    <3>4. \A u \in Threads : Loadable(call'[u].loaded) /\ Askable(call'[u].signature)
      BY <1>0, <2>0, <3>1 DEF PastInv, Turns, IsCall
    <3> QED
      BY <3>2, <3>3, <3>4 DEF PastInv, Loadable, Askable
  <2>8. CASE BeginAssigning(t)
    <3>1. UNCHANGED <<files, stored>> /\ db'.signature = db.signature
      BY <2>8 DEF BeginAssigning
    <3>2. Loadable(call'[t].loaded) /\ Askable(call'[t].signature)
      BY <1>0, <2>0, <2>8, BeginAssigningEffect DEF IsCall, c
    <3> QED
      BY <2>8, <3>1, <3>2, BeginAssigningEffect, OwnPast
  <2>9. CASE Store(t)
    <3>1. UNCHANGED <<files, stored>> /\ db'.signature = db.signature
      BY <2>9 DEF Store, TypeOK
    <3>2. Loadable(call'[t].loaded) /\ Askable(call'[t].signature)
      BY <1>0, <2>0, <2>9, StoreEffect DEF IsCall, c
    <3> QED
      BY <2>9, <3>1, <3>2, StoreEffect, OwnPast
  <2>10. CASE Release(t)
    <3>1. UNCHANGED files /\ db'.signature = db.signature
      BY <2>10, ReleaseEffect DEF Release, Destroys, TypeOK
    <3>2. \A u \in Threads : call'[u].loaded = call[u].loaded /\ call'[u].signature = call[u].signature
      BY <2>10, ReleaseEffect DEF IsCall, Destroys, Turns
    <3>3. \A s \in Storages : stored'[s] # Null => stored'[s] = stored[s]
      BY <2>10, ReleaseEffect DEF Destroys, TypeOK
    <3> QED
      BY <3>1, <3>2, <3>3 DEF PastInv, Loadable, Askable
  <2>11. CASE AssignSignature(t)
    <3>1. UNCHANGED <<files, stored>> /\ db'.signature = c.signature
      BY <2>11 DEF AssignSignature, TypeOK, c
    <3>2. \A u \in Threads : Loadable(call'[u].loaded) /\ Askable(call'[u].signature)
      BY <1>0, <2>0, <2>11, AssignSignatureEffect DEF PastInv, Turns, IsCall, c
    <3> QED
      BY <2>0, <3>1, <3>2 DEF PastInv, Loadable, Askable
  <2>12. CASE Return(t)
    <3>1. UNCHANGED <<files, stored>> /\ db'.signature = db.signature
      BY <2>12 DEF Return
    <3>2. Loadable(call'[t].loaded) /\ Askable(call'[t].signature)
      BY <1>0, <2>0, <2>12, ReturnEffect DEF IsCall, c
    <3> QED
      BY <2>12, <3>1, <3>2, ReturnEffect, OwnPast
  <2>13. CASE ReadEntry(t)
    <3>1. UNCHANGED <<files, stored>> /\ db'.signature = db.signature
      BY <2>13 DEF ReadEntry
    <3>2. Loadable(call'[t].loaded) /\ Askable(call'[t].signature)
      BY <1>0, <2>0, <2>13, ReadEntryEffect DEF IsCall, c
    <3> QED
      BY <2>13, <3>1, <3>2, ReadEntryEffect, OwnPast
  <2>14. CASE EndLookup(t)
    <3>1. UNCHANGED <<files, stored>> /\ db'.signature = db.signature
      BY <2>14 DEF EndLookup
    <3>2. Loadable(call'[t].loaded) /\ Askable(call'[t].signature)
      BY <1>0, <2>0, <2>14, EndLookupEffect DEF IsCall, c
    <3> QED
      BY <2>14, <3>1, <3>2, EndLookupEffect, OwnPast
  <2> QED
    BY <1>2, <2>1, <2>2, <2>3, <2>4, <2>5, <2>6, <2>7, <2>8, <2>9, <2>10, <2>11, <2>12, <2>13,
       <2>14 DEF Step
<1> QED
  BY <1>1, <1>2 DEF Next

-----------------------------------------------------------------------------
(* What is loaded is no older than what any reload was told *)

LEMMA CoversNothing == \A signature : Covers(<<>>, signature)
BY DEF Covers

LEMMA AppendCovers ==
  ASSUME TypeOK, NEW loaded \in Seq(Nat), NEW signature \in Signatures \cup {Null},
         Covers(loaded, signature), signature # Null => Askable(signature),
         Len(loaded) < FileCount, NEW n \in {files[Len(loaded) + 1], Skipped}
  PROVE  Covers(Append(loaded, n), signature)
<1> DEFINE k == Len(loaded) + 1
           longer == Append(loaded, n)
<1>1. /\ k \in 1 .. FileCount /\ files[k] \in Nat
      /\ DOMAIN longer = 1 .. k /\ DOMAIN loaded = 1 .. Len(loaded) /\ Len(loaded) \in Nat
      /\ \A i \in 1 .. Len(loaded) : longer[i] = loaded[i]
      /\ longer[k] = n
  <2>1. Len(loaded) \in Nat /\ FileCount \in Nat
    BY LexiconAssumption
  <2>2. k \in 1 .. FileCount
    BY <2>1
  <2>3. files[k] \in Nat
    BY <2>2 DEF TypeOK
  <2>4. n \in Nat
    BY <2>3 DEF Skipped
  <2> QED
    BY <2>1, <2>2, <2>3, <2>4
<1> HIDE DEF longer
<1>2. CASE signature = Null \/ Failed \in Range(signature)
  BY <1>2 DEF Covers, longer
<1>3. CASE signature # Null /\ Failed \notin Range(signature)
  <2>1. signature \in Seq(Nat \cup {Failed}) /\ Len(signature) = FileCount
    BY <1>3 DEF Signatures, Whole
  <2>2. k \in DOMAIN signature /\ signature[k] \in Nat \cup {Failed}
    BY <1>1, <2>1
  <2>3. signature[k] # Failed
    BY <1>3, <2>2 DEF Range
  <2>4. signature[k] <= files[k]
    BY <1>1, <1>3, <2>2, <2>3 DEF Askable
  <2>5. \A i \in 1 .. Len(loaded) : loaded[i] = Skipped \/ loaded[i] >= signature[i]
    BY <1>1, <1>3 DEF Covers
  <2>6. \A i \in 1 .. k : i = k \/ i \in 1 .. Len(loaded)
    BY <1>1
  <2>7. \A i \in DOMAIN longer : longer[i] = Skipped \/ longer[i] >= signature[i]
    <3>1. longer[k] = Skipped \/ longer[k] >= signature[k]
      BY <1>1, <2>2, <2>3, <2>4
    <3> QED
      BY <1>1, <2>5, <2>6, <3>1
  <2> QED
    BY <2>7 DEF Covers, longer
<1> QED
  BY <1>2, <1>3

LEMMA SkippedCovers ==
  \A signature : Covers([i \in 1 .. FileCount |-> Skipped], signature)
BY DEF Covers

LEMMA StillFresh ==
  ASSUME FreshInv, db'.signature = db.signature,
         cache'.storage # Null =>
           /\ cache'.storage = cache.storage /\ cache'.signature = cache.signature
           /\ stored'[cache'.storage] = stored[cache.storage],
         \A u \in Threads : u \in Reloading' =>
           u \in Reloading /\ call'[u].signature = call[u].signature,
         \A u \in Threads : call'[u].pc = "loading" =>
           /\ call[u].pc = "loading"
           /\ call'[u].loaded = call[u].loaded /\ call'[u].signature = call[u].signature
  PROVE  FreshInv'
<1>1. \A u \in Reloading' : u \in Threads
  BY DEF Reloading
<1>2. \A loaded : CoversAll(loaded) => CoversAll(loaded)'
  BY <1>1 DEF CoversAll
<1>3. ASSUME cache'.storage # Null
      PROVE  (Covers(stored[cache.storage], cache.signature) /\ CoversAll(stored[cache.storage]))'
  BY <1>2, <1>3 DEF FreshInv, CoversAll
<1>4. ASSUME NEW u \in Threads, At(u, "loading")'
      PROVE  (Covers(call[u].loaded, call[u].signature) /\ CoversAll(call[u].loaded))'
  BY <1>2, <1>4 DEF FreshInv, CoversAll, At
<1> QED
  BY <1>3, <1>4 DEF FreshInv

LEMMA OwnFresh ==
  ASSUME FreshInv, NEW t \in Threads, Turns(t), UNCHANGED <<stored, cache>>,
         db'.signature = db.signature,
         call'[t].pc # "loading",
         call'[t].pc \in {"assigning", "storing", "releasing", "signing"} =>
           /\ call[t].pc \in {"assigning", "storing", "releasing", "signing"}
           /\ call'[t].signature = call[t].signature
  PROVE  FreshInv'
<1>1. \A u \in Threads : u \in Reloading' =>
        u \in Reloading /\ call'[u].signature = call[u].signature
  BY DEF Turns, Reloading
<1>2. \A u \in Threads : call'[u].pc = "loading" =>
        /\ call[u].pc = "loading"
        /\ call'[u].loaded = call[u].loaded /\ call'[u].signature = call[u].signature
  BY DEF Turns
<1> QED
  BY <1>1, <1>2, StillFresh

LEMMA FreshStep ==
  ASSUME TypeOK, ShapeInv, LiveInv, MutexInv, PastInv, FreshInv, Next
  PROVE  FreshInv'
<1>1. CASE \E i \in 1 .. FileCount : Change(i)
  BY <1>1 DEF FreshInv, CoversAll, Change, Reloading, At
<1>2. ASSUME NEW t \in Threads, Step(t)
      PROVE  FreshInv'
  <2> DEFINE c == call[t]
  <2>0. c \in Calls /\ CallShape(c)
    BY DEF TypeOK, ShapeInv
  <2> HIDE DEF c
  <2>1. CASE BeginLookup(t)
    <3>1. UNCHANGED <<stored, cache>> /\ db'.signature = db.signature
      BY <2>1 DEF BeginLookup
    <3>2. /\ call'[t].pc # "loading"
          /\ call'[t].pc \in {"assigning", "storing", "releasing", "signing"} =>
               /\ call[t].pc \in {"assigning", "storing", "releasing", "signing"}
               /\ call'[t].signature = call[t].signature
      BY <2>1, BeginLookupEffect DEF BeginLookup, IsCall, At
    <3> QED
      BY <2>1, <3>1, <3>2, BeginLookupEffect, OwnFresh
  <2>2. CASE AskFile(t)
    <3>1. UNCHANGED <<stored, cache>> /\ db'.signature = db.signature
      BY <2>2 DEF AskFile
    <3>2. /\ call'[t].pc # "loading"
          /\ call'[t].pc \in {"assigning", "storing", "releasing", "signing"} =>
               /\ call[t].pc \in {"assigning", "storing", "releasing", "signing"}
               /\ call'[t].signature = call[t].signature
      BY <2>2, AskFileEffect DEF AskFile, IsCall, At
    <3> QED
      BY <2>2, <3>1, <3>2, AskFileEffect, OwnFresh
  <2>3. CASE Compare(t)
    <3>1. UNCHANGED <<stored, cache>> /\ db'.signature = db.signature
      BY <2>3 DEF Compare
    <3>2. /\ call'[t].pc # "loading"
          /\ call'[t].pc \in {"assigning", "storing", "releasing", "signing"} =>
               /\ call[t].pc \in {"assigning", "storing", "releasing", "signing"}
               /\ call'[t].signature = call[t].signature
      BY <2>3, CompareEffect DEF Compare, IsCall, At, AskedAll
    <3> QED
      BY <2>3, <3>1, <3>2, CompareEffect, OwnFresh
  <2>4. CASE AcquireCached(t)
    <3>1. /\ c.pc = "locking" /\ mutex = Nobody /\ UNCHANGED <<db, cache, stored, mutex>>
          /\ cache.signature = c.signature /\ cache.storage # Null
      BY <2>4 DEF AcquireCached, IsCached, At, c
    <3>2. /\ Turns(t) /\ call'[t].pc = "assigning" /\ call'[t].signature = c.signature
      BY <2>4, AcquireCachedEffect DEF IsCall, c
    <3>3. \A u \in Threads : call'[u].pc # "loading"
      BY <3>1, <3>2, LexiconAssumption DEF MutexInv, At, Turns
    <3>4. \A u \in Threads : u \in Reloading' =>
            \/ call'[u].signature = cache.signature
            \/ u \in Reloading /\ call'[u].signature = call[u].signature
      BY <3>1, <3>2 DEF Reloading, Turns
    <3>5. Covers(stored[cache.storage], cache.signature) /\ CoversAll(stored[cache.storage])
      BY <3>1 DEF FreshInv
    <3>6. \A u \in Reloading' : u \in Threads
      BY DEF Reloading
    <3> QED
      BY <3>1, <3>3, <3>4, <3>5, <3>6 DEF FreshInv, CoversAll, At
  <2>5. CASE BeginLoading(t)
    <3>1. mutex = Nobody /\ UNCHANGED <<db, cache, stored>> /\ c.pc = "locking"
      BY <2>5 DEF BeginLoading, At, c
    <3>2. /\ Turns(t) /\ call'[t].pc = "loading" /\ call'[t].loaded = <<>>
      BY <2>5, BeginLoadingEffect DEF IsCall
    <3>3. \A u \in Threads : u # t => call'[u].pc # "loading"
      BY <3>1, <3>2, LexiconAssumption DEF MutexInv, At, Turns
    <3>4. Reloading' = Reloading /\ \A u \in Reloading : call'[u].signature = call[u].signature
      BY <3>1, <3>2 DEF Reloading, Turns, c
    <3>5. cache.storage # Null =>
            (Covers(stored[cache.storage], cache.signature) /\ CoversAll(stored[cache.storage]))'
      BY <3>1, <3>4 DEF FreshInv, CoversAll
    <3>6. \A u \in Threads : call'[u].pc = "loading" => call'[u].loaded = <<>>
      BY <3>2, <3>3
    <3> QED
      BY <3>1, <3>5, <3>6, CoversNothing DEF FreshInv, CoversAll, At
  <2>6. CASE LoadFile(t)
    <3>1. /\ c.pc = "loading" /\ Len(c.loaded) < FileCount /\ UNCHANGED <<db, cache, stored>>
          /\ c.signature \in Signatures /\ c.loaded \in Seq(Nat)
      BY <2>0, <2>6 DEF LoadFile, At, Calls, CallShape, c
    <3>2. /\ Turns(t) /\ call'[t].pc = "loading" /\ call'[t].signature = c.signature
          /\ \/ \E n \in {files[Len(c.loaded) + 1], Skipped} : call'[t].loaded = Append(c.loaded, n)
             \/ call'[t].loaded = [i \in 1 .. FileCount |-> Skipped]
      BY <2>6, <3>1, LoadFileEffect DEF IsCall, c
    <3>3. \A u \in Threads : u # t => call'[u].pc # "loading"
      BY <3>1, <3>2 DEF MutexInv, At, Turns, c
    <3>4. Reloading' = Reloading /\ \A u \in Reloading : call'[u].signature = call[u].signature
      BY <3>1, <3>2 DEF Reloading, Turns, c
    <3>5. ASSUME NEW signature \in Signatures \cup {Null}, signature # Null => Askable(signature),
                 Covers(c.loaded, signature)
          PROVE  Covers(call'[t].loaded, signature)
      BY <3>1, <3>2, <3>5, AppendCovers, SkippedCovers
    <3>6. Covers(c.loaded, c.signature) /\ CoversAll(c.loaded)
      BY <3>1 DEF FreshInv, At, c
    <3>7. Covers(call'[t].loaded, c.signature)
      <4>1. Askable(c.signature)
        BY DEF PastInv, c
      <4> QED
        BY <3>1, <3>5, <3>6, <4>1
    <3>8. Covers(call'[t].loaded, db.signature)
      <4>1. db.signature \in Signatures \cup {Null} /\ (db.signature # Null => Askable(db.signature))
        BY DEF PastInv, TypeOK
      <4> QED
        BY <3>5, <3>6, <4>1 DEF CoversAll
    <3>9. ASSUME NEW u \in Reloading
          PROVE  Covers(call'[t].loaded, call[u].signature)
      <4>1. call[u].signature \in Signatures /\ Askable(call[u].signature)
        BY DEF Reloading, PastInv, ShapeInv, CallShape
      <4> QED
        BY <3>5, <3>6, <4>1 DEF CoversAll
    <3>10. (Covers(call[t].loaded, call[t].signature) /\ CoversAll(call[t].loaded))'
      BY <3>1, <3>2, <3>4, <3>7, <3>8, <3>9 DEF CoversAll
    <3>11. cache.storage # Null =>
             (Covers(stored[cache.storage], cache.signature) /\ CoversAll(stored[cache.storage]))'
      BY <3>1, <3>4 DEF FreshInv, CoversAll
    <3> QED
      BY <3>1, <3>3, <3>10, <3>11 DEF FreshInv, At
  <2>7. CASE Create(t)
    <3>1. /\ c.pc = "loading" /\ UNCHANGED db
      BY <2>7 DEF Create, At, c
    <3>2. PICK s \in Storages :
            /\ stored' = [stored EXCEPT ![s] = c.loaded]
            /\ cache' = [signature |-> c.signature, storage |-> s]
            /\ Turns(t)
            /\ IsCall(call'[t], "assigning", c.signature, <<>>, s, c.old, c.found, c.read)
      BY <2>7, CreateEffect DEF c
    <3>3. \A u \in Threads : call'[u].pc # "loading"
      BY <3>1, <3>2 DEF MutexInv, At, Turns, IsCall, c
    <3>4. Covers(c.loaded, c.signature) /\ CoversAll(c.loaded)
      BY <3>1 DEF FreshInv, At, c
    <3>5. \A u \in Threads : u \in Reloading' =>
            \/ call'[u].signature = c.signature
            \/ u \in Reloading /\ call'[u].signature = call[u].signature
      BY <3>2 DEF Reloading, Turns, IsCall
    <3>6. stored'[cache'.storage] = c.loaded /\ cache'.signature = c.signature
      BY <3>2 DEF TypeOK
    <3>7. \A u \in Reloading' : u \in Threads
      BY DEF Reloading
    <3>8. \A loaded : Covers(loaded, c.signature) /\ CoversAll(loaded) => CoversAll(loaded)'
      BY <3>1, <3>5, <3>7 DEF CoversAll
    <3>9. (Covers(stored[cache.storage], cache.signature) /\ CoversAll(stored[cache.storage]))'
      BY <3>4, <3>6, <3>8 DEF CoversAll
    <3> QED
      BY <3>3, <3>9 DEF FreshInv, At
  <2>8. CASE BeginAssigning(t)
    <3>1. UNCHANGED <<stored, cache>> /\ db'.signature = db.signature
      BY <2>8 DEF BeginAssigning
    <3>2. /\ call'[t].pc # "loading"
          /\ call'[t].pc \in {"assigning", "storing", "releasing", "signing"} =>
               /\ call[t].pc \in {"assigning", "storing", "releasing", "signing"}
               /\ call'[t].signature = call[t].signature
      BY <2>8, BeginAssigningEffect DEF BeginAssigning, IsCall, At
    <3> QED
      BY <2>8, <3>1, <3>2, BeginAssigningEffect, OwnFresh
  <2>9. CASE Store(t)
    <3>1. UNCHANGED <<stored, cache>> /\ db'.signature = db.signature
      BY <2>9 DEF Store, TypeOK
    <3>2. /\ call'[t].pc # "loading"
          /\ call'[t].pc \in {"assigning", "storing", "releasing", "signing"} =>
               /\ call[t].pc \in {"assigning", "storing", "releasing", "signing"}
               /\ call'[t].signature = call[t].signature
      BY <2>9, StoreEffect DEF Store, IsCall, At
    <3> QED
      BY <2>9, <3>1, <3>2, StoreEffect, OwnFresh
  <2>10. CASE Release(t)
    <3>1. db'.signature = db.signature /\ c.pc = "releasing"
      BY <2>10, ReleaseEffect DEF Release, Destroys, TypeOK, At, c
    <3>2. \A u \in Threads :
            /\ call'[u].loaded = call[u].loaded /\ call'[u].signature = call[u].signature
            /\ call'[u].pc = IF u = t THEN "signing" ELSE call[u].pc
      BY <2>10, ReleaseEffect DEF IsCall, Destroys, Turns
    <3>3. cache'.storage # Null =>
            /\ cache'.storage = cache.storage /\ cache'.signature = cache.signature
            /\ stored'[cache'.storage] = stored[cache.storage]
      BY <2>10, ReleaseEffect DEF Destroys, TypeOK
    <3>4. \A u \in Threads : u \in Reloading' =>
            u \in Reloading /\ call'[u].signature = call[u].signature
      BY <3>1, <3>2 DEF Reloading, c
    <3> QED
      BY <3>1, <3>2, <3>3, <3>4, StillFresh
  <2>11. CASE AssignSignature(t)
    <3>1. /\ UNCHANGED <<stored, cache>> /\ db'.signature = c.signature /\ c.pc = "signing"
      BY <2>11 DEF AssignSignature, TypeOK, At, c
    <3>2. Turns(t) /\ call'[t].pc = "returning"
      BY <2>11, AssignSignatureEffect DEF IsCall
    <3>3. t \in Reloading /\ \A u \in Threads : u \in Reloading' =>
            u \in Reloading /\ call'[u].signature = call[u].signature
      BY <3>1, <3>2 DEF Reloading, Turns, c
    <3>4. \A u \in Reloading' : u \in Threads
      BY DEF Reloading
    <3>5. \A loaded : CoversAll(loaded) => CoversAll(loaded)'
      BY <3>1, <3>3, <3>4 DEF CoversAll, c
    <3>6. \A u \in Threads : call'[u].pc = "loading" =>
            /\ call[u].pc = "loading"
            /\ call'[u].loaded = call[u].loaded /\ call'[u].signature = call[u].signature
      BY <3>2 DEF Turns
    <3>7. ASSUME cache'.storage # Null
          PROVE  (Covers(stored[cache.storage], cache.signature) /\ CoversAll(stored[cache.storage]))'
      BY <3>1, <3>5, <3>7 DEF FreshInv, CoversAll
    <3>8. ASSUME NEW u \in Threads, At(u, "loading")'
          PROVE  (Covers(call[u].loaded, call[u].signature) /\ CoversAll(call[u].loaded))'
      BY <3>5, <3>6, <3>8 DEF FreshInv, CoversAll, At
    <3> QED
      BY <3>7, <3>8 DEF FreshInv
  <2>12. CASE Return(t)
    <3>1. UNCHANGED <<stored, cache>> /\ db'.signature = db.signature
      BY <2>12 DEF Return
    <3>2. /\ call'[t].pc # "loading"
          /\ call'[t].pc \in {"assigning", "storing", "releasing", "signing"} =>
               /\ call[t].pc \in {"assigning", "storing", "releasing", "signing"}
               /\ call'[t].signature = call[t].signature
      BY <2>12, ReturnEffect DEF Return, IsCall, At
    <3> QED
      BY <2>12, <3>1, <3>2, ReturnEffect, OwnFresh
  <2>13. CASE ReadEntry(t)
    <3>1. UNCHANGED <<stored, cache>> /\ db'.signature = db.signature
      BY <2>13 DEF ReadEntry
    <3>2. /\ call'[t].pc # "loading"
          /\ call'[t].pc \in {"assigning", "storing", "releasing", "signing"} =>
               /\ call[t].pc \in {"assigning", "storing", "releasing", "signing"}
               /\ call'[t].signature = call[t].signature
      BY <2>13, ReadEntryEffect DEF ReadEntry, IsCall, At
    <3> QED
      BY <2>13, <3>1, <3>2, ReadEntryEffect, OwnFresh
  <2>14. CASE EndLookup(t)
    <3>1. UNCHANGED <<stored, cache>> /\ db'.signature = db.signature
      BY <2>14 DEF EndLookup
    <3>2. /\ call'[t].pc # "loading"
          /\ call'[t].pc \in {"assigning", "storing", "releasing", "signing"} =>
               /\ call[t].pc \in {"assigning", "storing", "releasing", "signing"}
               /\ call'[t].signature = call[t].signature
      BY <2>14, EndLookupEffect DEF EndLookup, IsCall, At
    <3> QED
      BY <2>14, <3>1, <3>2, EndLookupEffect, OwnFresh
  <2> QED
    BY <1>2, <2>1, <2>2, <2>3, <2>4, <2>5, <2>6, <2>7, <2>8, <2>9, <2>10, <2>11, <2>12, <2>13,
       <2>14 DEF Step
<1> QED
  BY <1>1, <1>2 DEF Next

-----------------------------------------------------------------------------
(* Where no race shows, nothing is torn *)

LEMMA NoneBesides ==
  ASSUME NEW R, IsFiniteSet(R), ~(Cardinality(R) > 1), NEW t \in R, NEW u \in R
  PROVE  t = u
<1>1. Cardinality(R \ {t}) = Cardinality(R) - 1 /\ IsFiniteSet(R \ {t})
  BY FS_RemoveElement
<1>2. Cardinality(R) \in Nat /\ Cardinality(R \ {t}) \in Nat
  BY <1>1, FS_CardinalityType
<1>3. Cardinality(R \ {t}) = 0
  BY <1>1, <1>2
<1>4. R \ {t} = {}
  BY <1>1, <1>3, FS_EmptySet
<1> QED
  BY <1>4

Reloads(pc) == pc \in {"assigning", "storing", "releasing", "signing"}

LEMMA OwnUndisturbed ==
  ASSUME ~Torn, \A u \in Threads : Undisturbed(u),
         NEW t \in Threads, Turns(t), UNCHANGED <<db, stored, owners>>, ~Reloads(call'[t].pc)
  PROVE  ~Torn' /\ \A u \in Threads : Undisturbed(u)'
<1>1. ~Torn'
  BY DEF Torn
<1>2. ASSUME NEW u \in Threads
      PROVE  Undisturbed(u)'
  <2>1. CASE u = t
    BY <2>1 DEF Undisturbed, Reloads
  <2>2. CASE u # t
    <3>1. call'[u] = call[u]
      BY <2>2 DEF Turns
    <3> QED
      BY <3>1 DEF Undisturbed
  <2> QED
    BY <2>1, <2>2
<1> QED
  BY <1>1, <1>2

LEMMA AloneUndisturbed ==
  ASSUME NEW t \in Threads, \A u \in Threads : Reloads(call'[u].pc) => u = t, Undisturbed(t)'
  PROVE  \A u \in Threads : Undisturbed(u)'
<1> SUFFICES ASSUME NEW u \in Threads
             PROVE  Undisturbed(u)'
  OBVIOUS
<1>1. CASE u = t
  BY <1>1
<1>2. CASE ~Reloads(call'[u].pc)
  BY <1>2 DEF Undisturbed, Reloads
<1> QED
  BY <1>1, <1>2

LEMMA UndisturbedStep ==
  ASSUME TypeOK, ShapeInv, LiveInv, FreshInv,
         ~Torn, \A t, u \in Reloading : t = u, \A t \in Threads : Undisturbed(t),
         \A t, u \in Reloading' : t = u, NEW t \in Threads, Step(t)
  PROVE  ~Torn' /\ \A u \in Threads : Undisturbed(u)'
<1> DEFINE c == call[t]
<1>0. c \in Calls /\ CallShape(c)
  BY DEF TypeOK, ShapeInv
<1>a. \A s \in Storages : s # Null /\ s # Gone
  BY LexiconAssumption DEF Storages
<1> HIDE DEF c
<1>1. CASE BeginLookup(t)
  <2>1. UNCHANGED <<db, stored, owners>>
    BY <1>1 DEF BeginLookup
  <2>2. ~Reloads(call'[t].pc)
    BY <1>1, BeginLookupEffect DEF BeginLookup, IsCall, At, Reloads
  <2> QED
    BY <1>1, <2>1, <2>2, BeginLookupEffect, OwnUndisturbed
<1>2. CASE AskFile(t)
  <2>1. UNCHANGED <<db, stored, owners>>
    BY <1>2 DEF AskFile
  <2>2. ~Reloads(call'[t].pc)
    BY <1>2, AskFileEffect DEF AskFile, IsCall, At, Reloads
  <2> QED
    BY <1>2, <2>1, <2>2, AskFileEffect, OwnUndisturbed
<1>3. CASE Compare(t)
  <2>1. UNCHANGED <<db, stored, owners>>
    BY <1>3 DEF Compare
  <2>2. ~Reloads(call'[t].pc)
    BY <1>3, CompareEffect DEF Compare, IsCall, At, Reloads, AskedAll
  <2> QED
    BY <1>3, <2>1, <2>2, CompareEffect, OwnUndisturbed
<1>4. CASE AcquireCached(t)
  <2>1. /\ UNCHANGED <<db, stored>> /\ cache.storage \in Storages /\ cache.signature = c.signature
        /\ owners' = [owners EXCEPT ![cache.storage] = owners[cache.storage] + 1]
    BY <1>4 DEF AcquireCached, IsCached, TypeOK, c
  <2>2. /\ Turns(t) /\ call'[t].pc = "assigning" /\ call'[t].acquired = cache.storage
        /\ call'[t].signature = c.signature
    BY <1>4, AcquireCachedEffect DEF IsCall, c
  <2>3. \A u \in Threads : Reloads(call'[u].pc) => u = t
    BY <2>2 DEF Reloading, Reloads
  <2>4. Covers(stored[cache.storage], c.signature) /\ Covers(stored[cache.storage], db.signature)
    BY <1>a, <2>1 DEF FreshInv, CoversAll
  <2>5. owners'[cache.storage] >= 2
    <3>1. owners[cache.storage] \in Nat /\ owners[cache.storage] >= 1
      BY <1>a, <2>1 DEF LiveInv, TypeOK
    <3> QED
      BY <2>1, <3>1 DEF TypeOK
  <2>6. Undisturbed(t)'
    BY <2>1, <2>2, <2>4, <2>5 DEF Undisturbed
  <2> QED
    BY <2>1, <2>3, <2>6, AloneUndisturbed DEF Torn
<1>5. CASE BeginLoading(t)
  <2>1. UNCHANGED <<db, stored, owners>>
    BY <1>5 DEF BeginLoading
  <2>2. ~Reloads(call'[t].pc)
    BY <1>5, BeginLoadingEffect DEF BeginLoading, IsCall, At, Reloads
  <2> QED
    BY <1>5, <2>1, <2>2, BeginLoadingEffect, OwnUndisturbed
<1>6. CASE LoadFile(t)
  <2>1. UNCHANGED <<db, stored, owners>>
    BY <1>6 DEF LoadFile
  <2>2. ~Reloads(call'[t].pc)
    BY <1>6, LoadFileEffect DEF LoadFile, IsCall, At, Reloads
  <2> QED
    BY <1>6, <2>1, <2>2, LoadFileEffect, OwnUndisturbed
<1>7. CASE Create(t)
  <2>1. UNCHANGED db /\ c.pc = "loading"
    BY <1>7 DEF Create, At, c
  <2>2. PICK s \in Storages :
          /\ stored[s] = Null
          /\ stored' = [stored EXCEPT ![s] = c.loaded]
          /\ Turns(t)
          /\ IsCall(call'[t], "assigning", c.signature, <<>>, s, c.old, c.found, c.read)
    BY <1>7, CreateEffect DEF c
  <2>3. \A u \in Threads : Reloads(call'[u].pc) => u = t
    BY <2>2 DEF Reloading, Reloads, IsCall
  <2>4. Covers(c.loaded, c.signature) /\ Covers(c.loaded, db.signature)
    BY <2>1 DEF FreshInv, CoversAll, At, c
  <2>5. stored'[s] = c.loaded /\ db.storage # s
    BY <2>2 DEF TypeOK, LiveInv
  <2>6. Undisturbed(t)'
    BY <2>1, <2>2, <2>4, <2>5 DEF Undisturbed, IsCall
  <2>7. ~Torn'
    BY <2>1, <2>2, <2>5 DEF Torn, TypeOK, References
  <2> QED
    BY <2>3, <2>6, <2>7, AloneUndisturbed
<1>8. CASE BeginAssigning(t)
  <2>1. UNCHANGED <<db, stored, owners>> /\ c.pc = "assigning"
    BY <1>8 DEF BeginAssigning, At, c
  <2>2. /\ Turns(t) /\ call'[t].pc = "storing" /\ call'[t].old = db.storage
        /\ call'[t].acquired = c.acquired /\ call'[t].signature = c.signature
    BY <1>8, BeginAssigningEffect DEF IsCall, c
  <2>3. \A u \in Threads : Reloads(call'[u].pc) => u = t
    BY <2>2 DEF Reloading, Reloads
  <2>4. Undisturbed(t)'
    BY <2>1, <2>2 DEF Undisturbed, c
  <2> QED
    BY <2>1, <2>3, <2>4, AloneUndisturbed DEF Torn
<1>9. CASE Store(t)
  <2>1. /\ UNCHANGED <<stored, owners>> /\ c.pc = "storing"
        /\ db'.storage = c.acquired /\ db'.signature = db.signature
    BY <1>9 DEF Store, At, TypeOK, c
  <2>2. /\ Turns(t) /\ call'[t].pc = "releasing" /\ call'[t].old = c.old
        /\ call'[t].signature = c.signature
    BY <1>9, StoreEffect DEF IsCall, c
  <2>3. \A u \in Threads : Reloads(call'[u].pc) => u = t
    BY <2>2 DEF Reloading, Reloads
  <2>4. /\ c.acquired \in Storages /\ c.old = db.storage
        /\ Covers(stored[c.acquired], c.signature) /\ Covers(stored[c.acquired], db.signature)
        /\ db.storage = c.acquired => owners[c.acquired] >= 2
    BY <2>1 DEF Undisturbed, c
  <2>5. Undisturbed(t)'
    BY <2>1, <2>2, <2>4 DEF Undisturbed
  <2>6. ~Torn'
    BY <1>a, <2>1, <2>4 DEF Torn
  <2> QED
    BY <2>3, <2>5, <2>6, AloneUndisturbed
<1>10. CASE Release(t)
  <2>1. c.pc = "releasing"
    BY <1>10 DEF Release, At, c
  <2>2. /\ db.storage \in Storages /\ Covers(stored[db.storage], c.signature)
        /\ c.old = db.storage => owners[db.storage] >= 2
    BY <2>1 DEF Undisturbed, c
  <2>3. \A u \in Threads : call'[u].pc = IF u = t THEN "signing" ELSE call[u].pc
    BY <1>10, ReleaseEffect DEF IsCall, Destroys, Turns
  <2>4. \A u \in Threads : Reloads(call'[u].pc) => u = t
    BY <2>1, <2>3 DEF Reloading, Reloads, c
  <2>5. /\ db'.storage = db.storage /\ db'.signature = db.signature
        /\ stored'[db.storage] = stored[db.storage] /\ call'[t].signature = c.signature
    <3>1. CASE Turns(t) /\ UNCHANGED <<db, cache, stored>>
      BY <1>10, <3>1, ReleaseEffect DEF IsCall, Destroys, c
    <3>2. CASE c.old \in Storages /\ ~(owners[c.old] > 1) /\ Destroys(t, c.old)
      <4>1. c.old # db.storage
        BY <2>2, <3>2 DEF TypeOK
      <4> QED
        BY <2>2, <3>2, <4>1 DEF Destroys, IsCall, TypeOK, c
    <3> QED
      BY <1>10, <3>1, <3>2, ReleaseEffect DEF c
  <2>6. Undisturbed(t)'
    BY <2>2, <2>3, <2>5 DEF Undisturbed
  <2>7. ~Torn'
    BY <1>a, <2>2, <2>5 DEF Torn
  <2> QED
    BY <2>4, <2>6, <2>7, AloneUndisturbed
<1>11. CASE AssignSignature(t)
  <2>1. /\ UNCHANGED stored /\ c.pc = "signing"
        /\ db'.storage = db.storage /\ db'.signature = c.signature
    BY <1>11 DEF AssignSignature, At, TypeOK, c
  <2>2. Turns(t) /\ call'[t].pc = "returning"
    BY <1>11, AssignSignatureEffect DEF IsCall
  <2>3. \A u \in Threads : Reloads(call'[u].pc) => u = t
    BY <2>1, <2>2 DEF Reloading, Reloads, Turns, c
  <2>4. db.storage \in Storages /\ Covers(stored[db.storage], c.signature)
    BY <2>1 DEF Undisturbed, c
  <2>5. Undisturbed(t)'
    BY <2>2 DEF Undisturbed
  <2>6. ~Torn'
    BY <1>a, <2>1, <2>4 DEF Torn
  <2> QED
    BY <2>3, <2>5, <2>6, AloneUndisturbed
<1>12. CASE Return(t)
  <2>1. UNCHANGED <<db, stored, owners>>
    BY <1>12 DEF Return
  <2>2. ~Reloads(call'[t].pc)
    BY <1>12, ReturnEffect DEF Return, IsCall, At, Reloads
  <2> QED
    BY <1>12, <2>1, <2>2, ReturnEffect, OwnUndisturbed
<1>13. CASE ReadEntry(t)
  <2>1. UNCHANGED <<db, stored, owners>>
    BY <1>13 DEF ReadEntry
  <2>2. ~Reloads(call'[t].pc)
    BY <1>13, ReadEntryEffect DEF ReadEntry, IsCall, At, Reloads
  <2> QED
    BY <1>13, <2>1, <2>2, ReadEntryEffect, OwnUndisturbed
<1>14. CASE EndLookup(t)
  <2>1. UNCHANGED <<db, stored, owners>>
    BY <1>14 DEF EndLookup
  <2>2. ~Reloads(call'[t].pc)
    BY <1>14, EndLookupEffect DEF EndLookup, IsCall, At, Reloads
  <2> QED
    BY <1>14, <2>1, <2>2, EndLookupEffect, OwnUndisturbed
<1> QED
  BY <1>1, <1>2, <1>3, <1>4, <1>5, <1>6, <1>7, <1>8, <1>9, <1>10, <1>11, <1>12, <1>13, <1>14 DEF Step

LEMMA UnracedStep ==
  ASSUME TypeOK, ShapeInv, LiveInv, FreshInv, UnracedInv, Next
  PROVE  UnracedInv'
<1> SUFFICES ASSUME ~raced'
             PROVE  (/\ ~Torn
                     /\ \A t, u \in Reloading : t = u
                     /\ \A t \in Threads : Undisturbed(t))'
  BY DEF UnracedInv
<1>1. ~(Cardinality(Reloading') > 1) /\ (raced => Reloading' = {} /\ ~Torn')
  BY DEF Next, WatchRaces
<1>2. IsFiniteSet(Reloading')
  <2>1. Reloading' \subseteq Threads
    BY DEF Reloading
  <2> QED
    BY <2>1, LexiconAssumption, FS_Subset
<1>3. \A t, u \in Reloading' : t = u
  BY <1>1, <1>2, NoneBesides
<1>4. CASE raced
  <2>1. \A t \in Threads : ~Reloads(call'[t].pc)
    BY <1>1, <1>4 DEF Reloading, Reloads
  <2>2. \A t \in Threads : Undisturbed(t)'
    BY <2>1 DEF Undisturbed, Reloads
  <2> QED
    BY <1>1, <1>3, <1>4, <2>2
<1>5. CASE ~raced /\ \E t \in Threads : Step(t)
  BY <1>3, <1>5, UndisturbedStep DEF UnracedInv
<1>6. CASE ~raced /\ \E i \in 1 .. FileCount : Change(i)
  <2>1. UNCHANGED <<db, stored, owners, call>>
    BY <1>6 DEF Change
  <2>2. ~Torn /\ \A t \in Threads : Undisturbed(t)
    BY <1>6 DEF UnracedInv
  <2> QED
    BY <1>3, <2>1, <2>2 DEF Torn, Undisturbed
<1> QED
  BY <1>4, <1>5, <1>6 DEF Next

-----------------------------------------------------------------------------
(* While the files stand still, all threads agree *)

LEMMA HoldersFinite ==
  ASSUME NEW s
  PROVE  /\ IsFiniteSet(Holders(s)) /\ Cardinality(Holders(s)) \in Nat
         /\ IsFiniteSet(Holders(s)') /\ Cardinality(Holders(s)') \in Nat
<1>1. Holders(s) \subseteq Threads /\ Holders(s)' \subseteq Threads
  BY DEF Holders
<1> QED
  BY <1>1, LexiconAssumption, FS_Subset, FS_CardinalityType

LEMMA FewerHolders ==
  ASSUME NEW s, Holders(s)' \subseteq Holders(s)
  PROVE  Cardinality(Holders(s)') <= Cardinality(Holders(s))
BY HoldersFinite, FS_Subset

(* A step that leaves the members, the cache and the owners alone.         *)
LEMMA OwnAgreed ==
  ASSUME TypeOK, Agreed, NEW t \in Threads, Turns(t), UNCHANGED <<files, db, cache, owners>>,
         call'[t].acquired \in {call[t].acquired, Null}, call'[t].pc # "releasing",
         Reloads(call'[t].pc) => Reloads(call[t].pc),
         CalmCall(t)'
  PROVE  Agreed'
<1>1. Reloading' \subseteq Reloading
  BY DEF Reloading, Turns, Reloads
<1>2. Settled' = Settled /\ CacheIsCurrent' = CacheIsCurrent
  BY DEF Settled, CacheIsCurrent
<1>3. ASSUME NEW u \in Threads, u # t
      PROVE  CalmCall(u)'
  <2>1. call'[u] = call[u] /\ CalmCall(u)
    BY <1>3 DEF Turns, Agreed
  <2> QED
    BY <1>1, <1>2, <2>1 DEF CalmCall
<1>4. ASSUME CacheIsCurrent
      PROVE  owners[cache.storage] >= Owned(cache.storage)'
  <2>1. cache.storage \in Storages /\ cache.storage # Null
    BY <1>4 DEF CacheIsCurrent, TypeOK
  <2>2. \A s : s # Null => Holders(s)' \subseteq Holders(s)
    BY DEF Holders, Turns, At
  <2>3. owners[cache.storage] >= Owned(cache.storage)
    BY <1>4 DEF Agreed
  <2>4. owners[cache.storage] \in Nat
    BY <2>1 DEF TypeOK
  <2>5. \A s : s # Null => Owned(s)' <= Owned(s) /\ Owned(s) \in Nat /\ Owned(s)' \in Nat
    BY <2>2, FewerHolders, HoldersFinite DEF Owned
  <2>6. Owned(cache.storage)' <= Owned(cache.storage) /\ Owned(cache.storage) \in Nat
        /\ Owned(cache.storage)' \in Nat
    BY <2>1, <2>5
  <2> QED
    BY <2>3, <2>4, <2>6
<1> QED
  BY <1>2, <1>3, <1>4 DEF Agreed

LEMMA AgreedStep ==
  ASSUME TypeOK, ShapeInv, LiveInv, MutexInv, Agreed, UNCHANGED files, calm', NEW t \in Threads, Step(t)
  PROVE  Agreed'
<1> DEFINE c == call[t]
<1>0. c \in Calls /\ CallShape(c) /\ CalmCall(t)
  BY DEF TypeOK, ShapeInv, Agreed
<1>a. \A s \in Storages : s # Null /\ s # Gone
  BY LexiconAssumption DEF Storages
<1>b. \A i \in DOMAIN <<>> : <<>>[i] = files[i]
  OBVIOUS
<1> HIDE DEF c
<1>1. CASE BeginLookup(t)
  <2>1. UNCHANGED <<db, cache, owners>>
    BY <1>1 DEF BeginLookup
  <2>2. Turns(t) /\ IsCall(call'[t], "asking", <<>>, <<>>, Null, Null, Null, Null)
    BY <1>1, BeginLookupEffect
  <2>3. CalmCall(t)'
    BY <2>2 DEF CalmCall, IsCall
  <2> QED
    BY <2>1, <2>2, <2>3, OwnAgreed DEF IsCall, Reloads
<1>2. CASE AskFile(t)
  <2> DEFINE k == Len(c.signature) + 1
             asked == Append(c.signature, files[k])
  <2>1. UNCHANGED <<db, cache, owners>> /\ c.pc = "asking" /\ Len(c.signature) < FileCount
    BY <1>2 DEF AskFile, At, c
  <2>2. /\ Turns(t)
        /\ IsCall(call'[t], "asking", asked, c.loaded, c.acquired, c.old, c.found, c.read)
    BY <1>2, <2>1, AskFileEffect DEF Fault, c
  <2>3. \A i \in DOMAIN asked : asked[i] = files[i]
    <3>1. c.signature \in Seq(Nat \cup {Failed}) /\ \A i \in DOMAIN c.signature : c.signature[i] = files[i]
      BY <1>0 DEF Calls, CalmCall, c
    <3> QED
      BY <3>1
  <2> HIDE DEF asked
  <2>4. CalmCall(t)'
    BY <1>0, <2>1, <2>2, <2>3 DEF CalmCall, IsCall, c, Settled
  <2> QED
    BY <2>1, <2>2, <2>4, OwnAgreed DEF IsCall, Reloads, c
<1>3. CASE Compare(t)
  <2>1. /\ UNCHANGED <<db, cache, owners>> /\ c.pc = "asking" /\ Len(c.signature) = FileCount
    BY <1>0, <1>3 DEF Compare, AskedAll, At, CalmCall, c
  <2>2. c.signature = files
    <3>1. c.signature \in Seq(Nat \cup {Failed}) /\ \A i \in DOMAIN c.signature : c.signature[i] = files[i]
      BY <1>0 DEF Calls, CalmCall, c
    <3>2. DOMAIN c.signature = 1 .. FileCount /\ c.signature = [i \in 1 .. FileCount |-> c.signature[i]]
      BY <2>1, <3>1
    <3>3. files = [i \in 1 .. FileCount |-> files[i]]
      BY DEF TypeOK
    <3> QED
      BY <3>1, <3>2, <3>3
  <2>3. CASE IsLoaded(c.signature)
    <3>1. Turns(t) /\ IsCall(call'[t], "returning", <<>>, c.loaded, c.acquired, c.old, c.found, c.read)
      BY <1>3, <2>3, CompareEffect DEF c
    <3>2. Settled /\ Settled'
      BY <2>1, <2>2, <2>3 DEF IsLoaded, Settled
    <3>3. CalmCall(t)'
      BY <1>0, <2>1, <3>1, <3>2 DEF CalmCall, IsCall, c
    <3> QED
      BY <2>1, <3>1, <3>3, OwnAgreed DEF IsCall, Reloads, c
  <2>4. CASE ~IsLoaded(c.signature)
    <3>1. Turns(t) /\ IsCall(call'[t], "locking", c.signature, c.loaded, c.acquired, c.old, c.found, c.read)
      BY <1>3, <2>4, CompareEffect DEF c
    <3>2. ~Settled /\ ~Settled'
      BY <2>1, <2>2, <2>4 DEF IsLoaded, Settled
    <3>3. CalmCall(t)'
      BY <1>0, <2>1, <2>2, <3>1, <3>2 DEF CalmCall, IsCall, c
    <3> QED
      BY <2>1, <3>1, <3>3, OwnAgreed DEF IsCall, Reloads, c
  <2> QED
    BY <2>3, <2>4
<1>4. CASE AcquireCached(t)
  <2>1. /\ UNCHANGED <<db, cache>> /\ c.pc = "locking" /\ mutex = Nobody
        /\ cache.signature = c.signature /\ cache.storage # Null /\ cache.storage \in Storages
        /\ owners' = [owners EXCEPT ![cache.storage] = owners[cache.storage] + 1]
    BY <1>4 DEF AcquireCached, IsCached, At, TypeOK, c
  <2>2. /\ Turns(t)
        /\ IsCall(call'[t], "assigning", c.signature, c.loaded, cache.storage, c.old, c.found, c.read)
    BY <1>4, AcquireCachedEffect DEF c
  <2>3. CacheIsCurrent /\ CacheIsCurrent' /\ Settled' = Settled /\ c.signature = files
    BY <1>0, <2>1 DEF CacheIsCurrent, Settled, CalmCall, c
  <2>4. CalmCall(t)'
    BY <1>0, <2>1, <2>2, <2>3 DEF CalmCall, IsCall, CallShape, c
  <2>5. ASSUME NEW u \in Threads, u # t
        PROVE  CalmCall(u)'
    <3>1. call'[u] = call[u] /\ CalmCall(u) /\ call[u].pc # "loading"
      BY <2>1, <2>2, <2>5, LexiconAssumption DEF Turns, Agreed, MutexInv, At
    <3> QED
      BY <2>1, <2>3, <3>1 DEF CalmCall
  <2>6. owners'[cache'.storage] >= Owned(cache.storage)'
    <3>1. \A s : Holders(s)' \subseteq Holders(s) \cup {t}
      BY <2>2 DEF Holders, Turns, At
    <3>2. \A s : Cardinality(Holders(s)') <= Cardinality(Holders(s)) + 1
      <4> TAKE s
      <4>1. /\ IsFiniteSet(Holders(s) \cup {t})
            /\ Cardinality(Holders(s) \cup {t}) <= Cardinality(Holders(s)) + 1
        <5> DEFINE H == Holders(s)
        <5>1. IsFiniteSet(H) /\ Cardinality(H) \in Nat
          BY HoldersFinite
        <5> HIDE DEF H
        <5>2. /\ IsFiniteSet(H \cup {t})
              /\ Cardinality(H \cup {t}) = IF t \in H THEN Cardinality(H) ELSE Cardinality(H) + 1
          BY <5>1, FS_AddElement
        <5>3. Cardinality(H \cup {t}) <= Cardinality(H) + 1
          BY <5>1, <5>2
        <5> QED
          BY <5>2, <5>3 DEF H
      <4>2. Cardinality(Holders(s)') <= Cardinality(Holders(s) \cup {t})
        BY <3>1, <4>1, FS_Subset
      <4>3. Cardinality(Holders(s) \cup {t}) \in Nat
        BY <4>1, FS_CardinalityType
      <4> QED
        BY <4>1, <4>2, <4>3, HoldersFinite
    <3>3. \A s : Owned(s)' <= Owned(s) + 1 /\ Owned(s) \in Nat /\ Owned(s)' \in Nat
      BY <2>1, <3>2, HoldersFinite DEF Owned
    <3>4. /\ Owned(cache.storage)' <= Owned(cache.storage) + 1
          /\ Owned(cache.storage) \in Nat /\ Owned(cache.storage)' \in Nat
      BY <2>1, <3>3
    <3>5. owners[cache.storage] >= Owned(cache.storage) /\ owners[cache.storage] \in Nat
      BY <2>1, <2>3 DEF Agreed, TypeOK
    <3>6. owners'[cache'.storage] = owners[cache.storage] + 1
      BY <2>1 DEF TypeOK
    <3> QED
      BY <3>4, <3>5, <3>6
  <2> QED
    BY <2>4, <2>5, <2>6 DEF Agreed
<1>5. CASE BeginLoading(t)
  <2>1. /\ UNCHANGED <<db, cache, owners>> /\ c.pc = "locking"
        /\ ~(cache.signature = c.signature /\ cache.storage # Null)
    BY <1>5 DEF BeginLoading, IsCached, At, c
  <2>2. Turns(t) /\ IsCall(call'[t], "loading", c.signature, <<>>, c.acquired, c.old, c.found, c.read)
    BY <1>5, BeginLoadingEffect DEF c
  <2>3. ~CacheIsCurrent /\ ~Settled /\ ~Settled' /\ c.signature = files
    BY <1>0, <2>1 DEF CacheIsCurrent, Settled, CalmCall, c
  <2>4. Reloading = {}
    BY <2>3 DEF Reloading, Agreed, CalmCall
  <2>5. Reloading' = {}
    BY <2>2, <2>4 DEF Reloading, Turns, IsCall
  <2>6. CalmCall(t)'
    BY <1>0, <2>1, <2>2, <2>3, <2>5 DEF CalmCall, IsCall, c
  <2> QED
    BY <2>1, <2>2, <2>6, OwnAgreed DEF IsCall, Reloads, c
<1>6. CASE LoadFile(t)
  <2>1. UNCHANGED <<db, cache, owners>> /\ c.pc = "loading"
    BY <1>6 DEF LoadFile, At, c
  <2>2. PICK loaded :
          Turns(t) /\ IsCall(call'[t], "loading", c.signature, loaded, c.acquired, c.old, c.found, c.read)
    BY <1>6, <2>1, LoadFileEffect DEF c
  <2>3. Reloading' = {}
    <3>1. Reloading = {}
      BY <1>0, <2>1 DEF CalmCall, c
    <3> QED
      BY <2>2, <3>1 DEF Reloading, Turns, IsCall
  <2>4. CalmCall(t)'
    BY <1>0, <2>1, <2>2, <2>3 DEF CalmCall, IsCall, Settled, c
  <2> QED
    BY <2>1, <2>2, <2>4, OwnAgreed DEF IsCall, Reloads, c
<1>7. CASE Create(t)
  <2>1. UNCHANGED db /\ c.pc = "loading" /\ ~Settled /\ Reloading = {} /\ c.signature = files
    BY <1>0, <1>7 DEF Create, At, CalmCall, c
  <2>2. PICK s \in Storages :
          /\ stored[s] = Null
          /\ owners' = [owners EXCEPT ![s] = 1]
          /\ cache' = [signature |-> c.signature, storage |-> s]
          /\ Turns(t)
          /\ IsCall(call'[t], "assigning", c.signature, <<>>, s, c.old, c.found, c.read)
    BY <1>7, CreateEffect DEF c
  <2>3. CacheIsCurrent' /\ ~Settled' /\ cache'.storage = s
    BY <1>a, <2>1, <2>2 DEF CacheIsCurrent, Settled
  <2>4. CalmCall(t)'
    BY <1>0, <2>1, <2>2, <2>3 DEF CalmCall, IsCall, CallShape, c
  <2>5. ASSUME NEW u \in Threads, u # t
        PROVE  CalmCall(u)'
    <3>1. call'[u] = call[u] /\ CalmCall(u) /\ call[u].pc # "loading" /\ u \notin Reloading
      BY <2>1, <2>2, <2>5 DEF Turns, Agreed, MutexInv, At, c
    <3> QED
      BY <2>1, <2>3, <3>1 DEF CalmCall, Reloading
  <2>6. Owned(cache.storage)' = 1
    <3>1. \A u \in Threads : ~Refers(call[u], s) /\ db.storage # s
      BY <2>2 DEF LiveInv
    <3>2. Holders(cache.storage)' = {t}
      BY <2>2, <2>3, <3>1 DEF Holders, Turns, IsCall, Refers, At
    <3>3. Cardinality(Holders(cache.storage)') = 1
      BY <3>2, FS_Singleton
    <3> QED
      BY <2>1, <2>3, <3>1, <3>3 DEF Owned
  <2>7. owners'[cache'.storage] = 1
    BY <2>2, <2>3 DEF TypeOK
  <2> QED
    BY <2>4, <2>5, <2>6, <2>7 DEF Agreed
<1>8. CASE BeginAssigning(t)
  <2>1. UNCHANGED <<db, cache, owners>> /\ c.pc = "assigning"
    BY <1>8 DEF BeginAssigning, At, c
  <2>2. Turns(t) /\ IsCall(call'[t], "storing", c.signature, c.loaded, c.acquired, db.storage, c.found, c.read)
    BY <1>8, BeginAssigningEffect DEF c
  <2>3. CalmCall(t)'
    BY <1>0, <2>1, <2>2 DEF CalmCall, IsCall, Settled, CacheIsCurrent, c
  <2> QED
    BY <2>1, <2>2, <2>3, OwnAgreed DEF IsCall, Reloads, c
<1>9. CASE Store(t)
  <2>1. /\ UNCHANGED <<cache, owners>> /\ c.pc = "storing"
        /\ db'.storage = c.acquired /\ db'.signature = db.signature
    BY <1>9 DEF Store, At, TypeOK, c
  <2>2. Turns(t) /\ IsCall(call'[t], "releasing", c.signature, c.loaded, Null, c.old, c.found, c.read)
    BY <1>9, StoreEffect DEF c
  <2>3. /\ CacheIsCurrent /\ c.acquired = cache.storage /\ c.signature = files
        /\ Settled => db.storage = cache.storage
        /\ c.old = cache.storage => db.storage = cache.storage
    BY <1>0, <2>1 DEF CalmCall, CacheIsCurrent, c
  <2>4. /\ CacheIsCurrent' /\ db'.storage = cache.storage /\ cache.storage # Null
        /\ Settled => Settled' /\ db'.storage = db.storage
    BY <2>1, <2>3 DEF CacheIsCurrent, Settled
  <2>5. CalmCall(t)'
    BY <1>0, <2>1, <2>2, <2>3, <2>4 DEF CalmCall, IsCall, c
  <2>6. ASSUME NEW u \in Threads, u # t
        PROVE  CalmCall(u)'
    <3>1. call'[u] = call[u] /\ CalmCall(u) /\ call[u].pc # "loading"
      BY <2>1, <2>2, <2>6 DEF Turns, Agreed, CalmCall, Reloading, c
    <3> QED
      BY <2>1, <2>4, <3>1 DEF CalmCall
  <2>7. Owned(cache.storage)' <= Owned(cache.storage) /\ Owned(cache.storage) \in Nat
        /\ Owned(cache.storage)' \in Nat
    <3> DEFINE H == Holders(cache.storage)
    <3>1. t \in H
      BY <2>3 DEF Holders, c
    <3>2. H' \subseteq H /\ (c.old # cache.storage => H' \subseteq H \ {t})
      BY <2>1, <2>2, <2>3, <2>4 DEF Holders, IsCall, Turns, At, c
    <3>3. IsFiniteSet(H) /\ Cardinality(H) \in Nat /\ Cardinality(H') \in Nat
      <4>1. H \subseteq Threads /\ H' \subseteq Threads
        BY DEF Holders
      <4> QED
        BY <4>1, LexiconAssumption, FS_Subset, FS_CardinalityType
    <3>4. IsFiniteSet(H \ {t}) /\ Cardinality(H \ {t}) = Cardinality(H) - 1
      BY <3>1, <3>3, FS_RemoveElement
    <3>5. Cardinality(H') <= Cardinality(H)
      BY <3>2, <3>3, FS_Subset
    <3>6. c.old # cache.storage => Cardinality(H') <= Cardinality(H) - 1
      BY <3>2, <3>4, FS_Subset
    <3> HIDE DEF H
    <3>7. Owned(cache.storage) = Cardinality(H) + (IF db.storage = cache.storage THEN 1 ELSE 0)
      BY DEF Owned, H
    <3>8. Owned(cache.storage)' = Cardinality(H') + 1
      BY <2>1, <2>4 DEF Owned, H
    <3> QED
      BY <2>3, <3>3, <3>5, <3>6, <3>7, <3>8
  <2>8. owners[cache.storage] >= Owned(cache.storage) /\ owners[cache.storage] \in Nat
    BY <2>3 DEF Agreed, TypeOK, CacheIsCurrent
  <2>9. owners'[cache'.storage] >= Owned(cache.storage)'
    BY <2>1, <2>7, <2>8
  <2> QED
    BY <2>5, <2>6, <2>9 DEF Agreed
<1>10. CASE Release(t)
  <2> DEFINE kept == cache.storage
  <2>1. c.pc = "releasing" /\ CacheIsCurrent /\ db.storage = kept /\ kept \in Storages
        /\ c.acquired = Null /\ c.signature = files
    BY <1>0, <1>10 DEF Release, At, CalmCall, CallShape, CacheIsCurrent, TypeOK, c
  <2>2. \A u \in Threads :
          LET b == call[u]
          IN IsCall(call'[u], IF u = t THEN "signing" ELSE b.pc, b.signature, b.loaded,
                    call'[u].acquired, call'[u].old, call'[u].found, call'[u].read)
    BY <1>10, ReleaseEffect DEF IsCall, Destroys, Turns
  <2>3. owners[kept] >= Owned(kept) /\ owners[kept] \in Nat
    BY <2>1 DEF Agreed, TypeOK
  <2>4. t \in Holders(kept) <=> c.old = kept
    BY <1>a, <2>1 DEF Holders, At, c
  <2>5. c.old = kept => owners[kept] >= 2
    <3>1. ASSUME c.old = kept
          PROVE  Cardinality(Holders(kept)) >= 1
      BY <2>4, <3>1, HoldersFinite, FS_EmptySet
    <3> QED
      BY <2>1, <2>3, <3>1, HoldersFinite DEF Owned
  <2>6. /\ UNCHANGED <<db, cache>>
        /\ \A u \in Threads :
             /\ call'[u].acquired = call[u].acquired \/ call[u].acquired \notin {kept, Null}
             /\ call'[u].found = call[u].found \/ call[u].found \notin {kept, Null}
             /\ call'[u].read = call[u].read \/ call[u].read \notin {kept, Null}
             /\ call'[u].acquired = kept => call[u].acquired = kept
             /\ call'[u].old = kept => u # t /\ call[u].old = kept
    <3>1. CASE Turns(t) /\ UNCHANGED <<db, cache, stored>>
               /\ IsCall(call'[t], "signing", c.signature, c.loaded, c.acquired, Null, c.found, c.read)
      BY <1>a, <2>1, <3>1 DEF Turns, IsCall, c
    <3>2. CASE c.old \in Storages /\ ~(owners[c.old] > 1) /\ Destroys(t, c.old)
      <4>1. c.old # kept /\ c.old # Null /\ kept # Null /\ kept # Gone
        BY <1>a, <2>1, <2>3, <2>5, <3>2
      <4>2. cache' = cache /\ db' = db
        BY <2>1, <3>2, <4>1 DEF Destroys, TypeOK
      <4> QED
        BY <3>2, <4>1, <4>2 DEF Destroys, IsCall, Left
    <3> QED
      BY <1>10, <3>1, <3>2, ReleaseEffect DEF c
  <2>7. CacheIsCurrent' /\ Settled' = Settled /\ kept' = kept
    BY <2>1, <2>6 DEF CacheIsCurrent, Settled
  <2>8. ASSUME NEW u \in Threads
        PROVE  CalmCall(u)'
    <3>1. CalmCall(u) /\ CallShape(call[u])
      BY DEF Agreed, ShapeInv
    <3>2. call[u].pc # "loading"
      BY <2>1, <3>1 DEF CalmCall, Reloading, c
    <3>3. /\ call'[u].signature = call[u].signature
          /\ call'[u].pc = IF u = t THEN "signing" ELSE call[u].pc
      BY <2>2 DEF IsCall
    <3>4. call'[u].found = call[u].found
      BY <2>1, <2>6, <3>1 DEF CalmCall
    <3>5. u # t /\ call[u].pc = "reading" => call'[u].read = call[u].read
      BY <2>1, <2>6, <3>1 DEF CalmCall
    <3>6. call[u].pc \in {"assigning", "storing"} => call'[u].acquired = call[u].acquired
      BY <2>1, <2>6, <3>1 DEF CalmCall
    <3> HIDE DEF kept
    <3>7. CASE u = t
      BY <2>1, <2>6, <2>7, <3>1, <3>3, <3>4, <3>7 DEF CalmCall, kept, c
    <3>8. CASE u # t
      BY <2>1, <2>6, <2>7, <3>1, <3>2, <3>3, <3>4, <3>5, <3>6, <3>8 DEF CalmCall, kept
    <3> QED
      BY <3>7, <3>8
  <2>9. owners'[kept] >= Owned(kept)'
    <3> DEFINE H == Holders(kept)
    <3>1. H' \subseteq H \ {t}
      BY <1>a, <2>1, <2>2, <2>6, <2>7 DEF Holders, IsCall, At, c
    <3>2. IsFiniteSet(H) /\ Cardinality(H) \in Nat /\ Cardinality(H') \in Nat
      <4>1. H \subseteq Threads /\ H' \subseteq Threads
        BY DEF Holders
      <4> QED
        BY <4>1, LexiconAssumption, FS_Subset, FS_CardinalityType
    <3>3. IsFiniteSet(H \ {t})
          /\ Cardinality(H \ {t}) = IF t \in H THEN Cardinality(H) - 1 ELSE Cardinality(H)
      BY <3>2, FS_RemoveElement
    <3>4. Cardinality(H') <= Cardinality(H \ {t})
      BY <3>1, <3>3, FS_Subset
    <3>5. owners[kept] >= Cardinality(H) + 1
      BY <2>1, <2>3 DEF Owned
    <3>6. Owned(kept)' = Cardinality(H') + 1
      BY <2>1, <2>6, <2>7 DEF Owned
    <3>7. owners'[kept] = IF c.old = kept THEN owners[kept] - 1 ELSE owners[kept]
      BY <1>a, <1>10, <2>1, ReleaseEffect DEF TypeOK, c
    <3> HIDE DEF H
    <3> QED
      BY <2>3, <2>4, <3>2, <3>3, <3>4, <3>5, <3>6, <3>7 DEF H
  <2> QED
    BY <2>7, <2>8, <2>9 DEF Agreed
<1>11. CASE AssignSignature(t)
  <2>1. /\ UNCHANGED <<cache, owners>> /\ c.pc = "signing"
        /\ db'.storage = db.storage /\ db'.signature = c.signature
    BY <1>11 DEF AssignSignature, At, TypeOK, c
  <2>2. Turns(t) /\ IsCall(call'[t], "returning", <<>>, c.loaded, c.acquired, c.old, c.found, c.read)
    BY <1>11, AssignSignatureEffect DEF c
  <2>3. CacheIsCurrent /\ db.storage = cache.storage /\ c.signature = files
    BY <1>0, <2>1 DEF CalmCall, c
  <2>4. CacheIsCurrent' /\ Settled' /\ cache.storage # Null
    BY <2>1, <2>3 DEF CacheIsCurrent, Settled
  <2>5. CalmCall(t)'
    BY <1>0, <2>1, <2>2, <2>3, <2>4 DEF CalmCall, IsCall, c
  <2>6. ASSUME NEW u \in Threads, u # t
        PROVE  CalmCall(u)'
    <3>1. call'[u] = call[u] /\ CalmCall(u) /\ call[u].pc # "loading"
      BY <2>1, <2>2, <2>6 DEF Turns, Agreed, CalmCall, Reloading, c
    <3> QED
      BY <2>1, <2>3, <2>4, <3>1 DEF CalmCall
  <2>7. owners'[cache'.storage] >= Owned(cache.storage)'
    <3>1. \A s : s # Null => Holders(s)' \subseteq Holders(s)
      BY <2>2 DEF Holders, Turns, IsCall, At, c
    <3>2. \A s : s # Null => Owned(s)' <= Owned(s) /\ Owned(s) \in Nat /\ Owned(s)' \in Nat
      BY <2>1, <3>1, FewerHolders, HoldersFinite DEF Owned
    <3>3. /\ Owned(cache.storage)' <= Owned(cache.storage)
          /\ Owned(cache.storage) \in Nat /\ Owned(cache.storage)' \in Nat
      BY <2>1, <2>4, <3>2
    <3>4. owners[cache.storage] >= Owned(cache.storage) /\ owners[cache.storage] \in Nat
      BY <2>3 DEF Agreed, TypeOK, CacheIsCurrent
    <3> QED
      BY <2>1, <3>3, <3>4
  <2> QED
    BY <2>5, <2>6, <2>7 DEF Agreed
<1>12. CASE Return(t)
  <2>1. UNCHANGED <<db, cache, owners>> /\ c.pc = "returning" /\ c.signature = <<>>
    BY <1>0, <1>12 DEF Return, At, CallShape, c
  <2>2. PICK pc, found, read :
          /\ Turns(t) /\ IsCall(call'[t], pc, <<>>, c.loaded, c.acquired, c.old, found, read)
          /\ \/ pc = "asking" /\ c.found = Null /\ found = db.storage
             \/ pc = "reading" /\ c.found # Null /\ found = c.found /\ read = db.storage
    BY <1>12, <2>1, ReturnEffect DEF c
  <2>3. Settled /\ Settled' /\ (c.found # Null => c.found = db.storage)
    BY <1>0, <2>1 DEF CalmCall, Settled, c
  <2>4. CalmCall(t)'
    BY <2>1, <2>2, <2>3 DEF CalmCall, IsCall
  <2> QED
    BY <2>1, <2>2, <2>4, OwnAgreed DEF IsCall, Reloads, c
<1>13. CASE ReadEntry(t)
  <2>1. UNCHANGED <<db, cache, owners>> /\ c.pc = "reading" /\ c.signature = <<>>
    BY <1>0, <1>13 DEF ReadEntry, At, CallShape, c
  <2>2. Turns(t) /\ IsCall(call'[t], "asking", c.signature, c.loaded, c.acquired, c.old, c.found, Null)
    BY <1>13, ReadEntryEffect DEF c
  <2>3. CalmCall(t)'
    BY <1>0, <2>1, <2>2 DEF CalmCall, IsCall, Settled, c
  <2> QED
    BY <2>1, <2>2, <2>3, OwnAgreed DEF IsCall, Reloads, c
<1>14. CASE EndLookup(t)
  <2>1. UNCHANGED <<db, cache, owners>>
    BY <1>14 DEF EndLookup
  <2>2. Turns(t) /\ IsCall(call'[t], "idle", <<>>, <<>>, Null, Null, Null, Null)
    BY <1>14, EndLookupEffect
  <2>3. CalmCall(t)'
    BY <2>2 DEF CalmCall, IsCall
  <2> QED
    BY <2>1, <2>2, <2>3, OwnAgreed DEF IsCall, Reloads
<1> QED
  BY <1>1, <1>2, <1>3, <1>4, <1>5, <1>6, <1>7, <1>8, <1>9, <1>10, <1>11, <1>12, <1>13, <1>14 DEF Step

(* Calm begins with all threads at rest, and lasts as long as no file      *)
(* changes or fails.                                                       *)
LEMMA CalmStep ==
  ASSUME TypeOK, ShapeInv, LiveInv, MutexInv, CalmInv, Next, TypeOK', ShapeInv', LiveInv'
  PROVE  CalmInv'
<1> SUFFICES ASSUME calm'
             PROVE  Agreed'
  BY DEF CalmInv
<1>1. CASE \A t \in Threads : call'[t].pc = "idle"
  <2>1. ASSUME NEW t \in Threads
        PROVE  CalmCall(t)'
    <3>1. CallShape(call'[t])
      BY DEF ShapeInv
    <3> QED
      BY <1>1, <3>1 DEF CalmCall, CallShape
  <2>2. ASSUME CacheIsCurrent'
        PROVE  owners'[cache'.storage] >= Owned(cache.storage)'
    <3>1. cache'.storage \in Storages /\ cache'.storage # Null
      BY <2>2 DEF CacheIsCurrent, TypeOK
    <3>2. owners'[cache'.storage] \in Nat /\ owners'[cache'.storage] >= 1
      BY <3>1 DEF LiveInv, TypeOK
    <3>3. \A t \in Threads : CallShape(call'[t])
      BY DEF ShapeInv
    <3>4. Holders(cache.storage)' = {}
      BY <1>1, <3>1, <3>3 DEF Holders, CallShape, At
    <3>5. Cardinality(Holders(cache.storage)') = 0
      BY <3>4, FS_EmptySet
    <3> QED
      BY <3>2, <3>5 DEF Owned
  <2> QED
    BY <2>1, <2>2 DEF Agreed
<1>2. CASE calm /\ UNCHANGED files /\ \E t \in Threads : Step(t)
  BY <1>2, AgreedStep DEF CalmInv
<1>3. ASSUME NEW i \in 1 .. FileCount, Change(i)
      PROVE  \A t \in Threads : call'[t].pc = "idle"
  BY <1>3 DEF Change, InLookup, At
<1>4. ASSUME NEW t \in Threads, Step(t)
      PROVE  UNCHANGED files /\ (calm \/ \A u \in Threads : call'[u].pc = "idle")
  <2>1. CASE EndLookup(t)
    <3>1. calm \/ InLookup = {t}
      BY <2>1 DEF EndLookup
    <3>2. Turns(t) /\ call'[t].pc = "idle" /\ UNCHANGED files
      BY <2>1, EndLookupEffect DEF IsCall, EndLookup
    <3> QED
      BY <3>1, <3>2 DEF InLookup, At, Turns
  <2>2. CASE ~EndLookup(t)
    BY <1>4, <2>2 DEF Step, BeginLookup, AskFile, Fault, Compare, AcquireCached, BeginLoading, LoadFile,
       Create, BeginAssigning, Store, Release, AssignSignature, Return, ReadEntry
  <2> QED
    BY <2>1, <2>2
<1> QED
  BY <1>1, <1>2, <1>3, <1>4 DEF Next

-----------------------------------------------------------------------------
(* The theorems *)

LEMMA Inductive == Spec => []IInv
<1>1. Init => IInv
  <2> SUFFICES ASSUME Init
               PROVE  IInv
    OBVIOUS
  <2>0. /\ AtRest \in Calls /\ IsCall(AtRest, "idle", <<>>, <<>>, Null, Null, Null, Null)
        /\ \A t \in Threads : call[t] = AtRest
    BY GrowingSequences DEF Init, AtRest, Calls, References, IsCall
  <2>a. \A s \in Storages : s # Null /\ s # Gone
    BY LexiconAssumption DEF Storages
  <2>1. TypeOK
    <3>1. /\ files \in [1 .. FileCount -> Nat \ {0}] /\ events \in Nat
          /\ db \in [storage : References, signature : Signatures \cup {Null}]
          /\ cache \in [storage : Storages \cup {Null}, signature : Signatures \cup {Null}]
          /\ mutex \in Threads \cup {Nobody}
          /\ stored \in [Storages -> Contents \cup {Null}] /\ owners \in [Storages -> Nat]
      BY DEF Init, References
    <3>2. call \in [Threads -> Calls]
      BY <2>0 DEF Init
    <3>3. calm \in BOOLEAN /\ raced \in BOOLEAN
      BY DEF Init
    <3> QED
      BY <3>1, <3>2, <3>3 DEF TypeOK
  <2>2. ShapeInv
    BY <2>0 DEF ShapeInv, CallShape, IsCall
  <2>3. LiveInv
    BY <2>0, <2>a DEF Init, LiveInv, Refers, IsCall
  <2>4. MutexInv
    BY <2>0, LexiconAssumption DEF Init, MutexInv, At, IsCall
  <2>5. PastInv
    BY <2>0 DEF Init, PastInv, Loadable, Askable, IsCall
  <2>6. FreshInv
    BY <2>0 DEF Init, FreshInv, At, IsCall
  <2>7. UnracedInv
    <3>1. ~Torn
      BY LexiconAssumption DEF Init, Torn
    <3> QED
      BY <2>0, <3>1 DEF UnracedInv, Undisturbed, Reloading, IsCall
  <2>8. CalmInv
    BY <2>0 DEF Init, CalmInv, Agreed, CalmCall, CacheIsCurrent, IsCall
  <2> QED
    BY <2>1, <2>2, <2>3, <2>4, <2>5, <2>6, <2>7, <2>8 DEF IInv
<1>2. IInv /\ [Next]_vars => IInv'
  <2>1. ASSUME IInv, Next
        PROVE  IInv'
    <3> USE <2>1 DEF IInv
    <3>1. TypeOK' /\ ShapeInv' /\ LiveInv'
      BY TypeStep, ShapeStep, LiveStep
    <3>2. MutexInv' /\ PastInv' /\ FreshInv' /\ UnracedInv'
      BY MutexStep, PastStep, FreshStep, UnracedStep
    <3>3. CalmInv'
      BY <3>1, CalmStep
    <3> QED
      BY <3>1, <3>2, <3>3
  <2>2. ASSUME IInv, UNCHANGED vars
        PROVE  IInv'
    <3> USE <2>2 DEF vars
    <3>1. TypeOK' /\ ShapeInv' /\ LiveInv' /\ MutexInv'
      BY DEF IInv, TypeOK, ShapeInv, LiveInv, MutexInv, At
    <3>2. PastInv' /\ FreshInv'
      BY DEF IInv, PastInv, Loadable, Askable, FreshInv, CoversAll, Reloading, At
    <3>3. UnracedInv'
      BY DEF IInv, UnracedInv, Torn, Reloading, Undisturbed
    <3>4. CalmInv'
      BY DEF IInv, CalmInv, Agreed, CalmCall, Settled, CacheIsCurrent, Reloading, Owned, Holders, At
    <3> QED
      BY <3>1, <3>2, <3>3, <3>4 DEF IInv
  <2> QED
    BY <2>1, <2>2
<1> QED
  BY <1>1, <1>2, PTL DEF Spec

(* Every variable keeps its type: among other things, what is cached or    *)
(* owned is always one of the storages there are (acquireStorage).         *)
THEOREM TypeCorrect == Spec => []TypeOK
BY Inductive, PTL DEF IInv

(* However lookups, reloads, changes of files and failures follow one      *)
(* another, only two threads that reload at once can leave a lexicon       *)
(* behind that is older than its signature says (reloadIfChanged).         *)
THEOREM StaleOnlyAfterRaces == Spec => []OnlyRacesLeaveItStale
<1>1. IInv => OnlyRacesLeaveItStale
  BY DEF IInv, UnracedInv, OnlyRacesLeaveItStale
<1> QED
  BY Inductive, <1>1, PTL

(* While files stand still and no race shows, every lookup takes its       *)
(* entries from the storage it took the indices from, and that storage is  *)
(* there (findExact, entryAt).                                             *)
THEOREM LookupsAreWhole == Spec => []LookupIsWhole
<1>1. IInv => LookupIsWhole
  <2> SUFFICES ASSUME IInv, calm, ~raced, NEW t \in Threads
               PROVE  call[t].found # Gone /\ (At(t, "reading") => call[t].read = call[t].found)
    BY DEF LookupIsWhole
  <2>1. CalmCall(t) /\ ~Torn
    BY DEF IInv, CalmInv, Agreed, UnracedInv
  <2>2. call[t].found # Null => call[t].found = db.storage
    BY <2>1 DEF CalmCall
  <2>3. db.storage # Gone
    BY <2>1 DEF Torn
  <2>4. At(t, "reading") => call[t].read = call[t].found
    BY <2>1 DEF CalmCall, At
  <2> QED
    BY <2>2, <2>3, <2>4, LexiconAssumption
<1> QED
  BY Inductive, <1>1, PTL

(* While files stand still and no race has left its mark, what a lookup    *)
(* reads is what stands in the files (loadEntriesFromPath).                *)
THEOREM CalmLookupsReadTheFiles == Spec => []CalmLookupsAreCurrent
<1>1. IInv => CalmLookupsAreCurrent
  <2> SUFFICES ASSUME IInv, calm, ~Torn, NEW t \in Threads, At(t, "reading"), NEW i \in 1 .. FileCount
               PROVE  stored[call[t].read][i] \in {files[i], Skipped}
    BY DEF CalmLookupsAreCurrent
  <2> DEFINE s == db.storage
  <2>1. call[t].read = s /\ s # Null /\ db.signature = files /\ s # Gone
    BY DEF IInv, CalmInv, Agreed, CalmCall, Settled, Torn, At
  <2>2. s \in Storages /\ files \in [1 .. FileCount -> Nat \ {0}]
    BY <2>1 DEF IInv, TypeOK, References
  <2>3. stored[s] # Null
    BY <2>2 DEF IInv, LiveInv
  <2>4. stored[s] \in [1 .. FileCount -> Nat]
    BY <2>2, <2>3 DEF IInv, TypeOK, Contents
  <2>5. stored[s][i] <= files[i]
    BY <2>2, <2>3, <2>4 DEF IInv, PastInv, Loadable
  <2>6. Covers(stored[s], files) /\ files # Null /\ Failed \notin Range(files)
    <3>1. Covers(stored[s], files)
      BY <2>1 DEF Torn
    <3>2. files # Null
      BY <2>2, LexiconAssumption
    <3>3. Failed \notin Range(files)
      BY <2>2, LexiconAssumption DEF Range
    <3> QED
      BY <3>1, <3>2, <3>3
  <2>7. stored[s][i] = Skipped \/ stored[s][i] >= files[i]
    BY <2>4, <2>6 DEF Covers
  <2>8. files[i] \in Nat /\ stored[s][i] \in Nat
    BY <2>2, <2>4
  <2> HIDE DEF s
  <2> QED
    BY <2>1, <2>5, <2>7, <2>8
<1> QED
  BY Inductive, <1>1, PTL

=============================================================================
