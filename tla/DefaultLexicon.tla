--------------------------- MODULE DefaultLexicon ---------------------------
(***************************************************************************)
(* dictionary::DefaultDb: one lexicon for all dictionaries of a process,   *)
(* read again as soon as its files have changed.  Every access checks the  *)
(* files, and a lookup makes several: it takes indices in the first and    *)
(* reads the entries behind them in a later one.                           *)
(*                                                                         *)
(* A thread is one with a dictionary of its own, whose lock the others do  *)
(* not share; `sharedStorage` and `loadedSignature` have none.  A storage  *)
(* lives while its owners are counted, and a lookup works with plain       *)
(* references.  To assign a shared_ptr is to read what it owned, to write  *)
(* the new and to release the old; two threads may do so at once.  What a  *)
(* second release of a destroyed storage does to the heap is left out.     *)
(*                                                                         *)
(* A file is its version, and what was loaded of it the version it had.    *)
(* That there is none is a version as well, so an installer that adds or   *)
(* removes a file changes one.  Any access to a file may fail.             *)
(***************************************************************************)
EXTENDS Naturals, Sequences, FiniteSets, Functions

CONSTANTS
  Threads,
  FileCount,    \* lexicon files, in the order of their paths
  MaxEvents,    \* bound on the changes of files and the accesses that fail
  MaxStorages,  \* bound on the storages there are at once
  Nobody,       \* nobody holds cacheMutex
  Null,         \* no storage, no signature
  Gone,         \* a storage that has been destroyed
  Failed        \* the end of a signature where a file could not be asked

ASSUME LexiconAssumption ==
  /\ IsFiniteSet(Threads) /\ Nobody \notin Threads
  /\ FileCount \in Nat \ {0} /\ MaxEvents \in Nat /\ MaxStorages \in Nat
  /\ Null # Gone /\ Null \notin Nat /\ Gone \notin Nat /\ Failed \notin Nat
  /\ Null \notin [1 .. FileCount -> Nat]

VARIABLES
  files,     \* the versions of the files
  events,    \* how many changes and failures there have been
  db,        \* sharedStorage and loadedSignature
  cache,     \* the entry of acquireStorage's cache; its storage is weak
  mutex,     \* cacheMutex
  stored,    \* what the storages hold, or Null
  owners,    \* how many own each
  call,      \* where each thread is, and with what
  calm,      \* nothing has changed or failed since no lookup was under way
  raced      \* two reloads have overlapped, and the lexicon shows it yet

vars == <<files, events, db, cache, mutex, stored, owners, call, calm, raced>>

Skipped == 0   \* of a file that could not be read nothing is loaded
Storages == 1 .. MaxStorages

(* signature and loaded grow by one file at a time. *)
AtRest == [pc |-> "idle", signature |-> <<>>, loaded |-> <<>>, acquired |-> Null,
           old |-> Null, found |-> Null, read |-> Null]

At(t, pc) == call[t].pc = pc
Goes(t, fields) == call' = [call EXCEPT ![t] = fields]
InLookup == {t \in Threads : ~At(t, "idle")}

Event == events < MaxEvents /\ events' = events + 1
Fault == Event /\ calm' = FALSE

-----------------------------------------------------------------------------
(* Asking the files *)

(* Somebody replaces, adds or removes a file. *)
Change(i) ==
  /\ Event
  /\ files' = [files EXCEPT ![i] = @ + 1]
  /\ calm' = (calm /\ InLookup = {})
  /\ UNCHANGED <<db, cache, mutex, stored, owners, call>>

(* computeSourceSignature, file by file; where one cannot be asked, the    *)
(* signature ends with a code for the failure.                             *)
Access(c) == [c EXCEPT !.pc = "asking"]
Loaded(c) == [c EXCEPT !.pc = "returning", !.signature = <<>>]

BeginLookup(t) ==
  /\ At(t, "idle")
  /\ Goes(t, Access(AtRest))
  /\ UNCHANGED <<files, events, db, cache, mutex, stored, owners, calm>>

AskFile(t) ==
  LET asked == call[t].signature
  IN /\ At(t, "asking") /\ Len(asked) < FileCount
     /\ \/ /\ Goes(t, [call[t] EXCEPT !.signature = Append(asked, files[Len(asked) + 1])])
           /\ UNCHANGED <<events, calm>>
        \/ /\ Fault
           /\ Goes(t, [call[t] EXCEPT !.pc = "comparing", !.signature = Append(asked, Failed)])
     /\ UNCHANGED <<files, db, cache, mutex, stored, owners>>

AskedAll(t) ==
  \/ At(t, "comparing")
  \/ (At(t, "asking") /\ Len(call[t].signature) = FileCount)

(* reloadIfChanged *)
LoadedOnce(signature) == db.storage # Null                         \* mutant
IsLoaded(signature) == db.storage # Null /\ db.signature = signature

Compare(t) ==
  /\ AskedAll(t)
  /\ Goes(t, IF IsLoaded(call[t].signature) THEN Loaded(call[t])
             ELSE [call[t] EXCEPT !.pc = "locking"])
  /\ UNCHANGED <<files, events, db, cache, mutex, stored, owners, calm>>

-----------------------------------------------------------------------------
(* acquireStorage *)

(* weak_ptr::lock *)
AnyCached(signature) == cache.storage # Null                       \* mutant
IsCached(signature) == cache.signature = signature /\ cache.storage # Null

AcquireCached(t) ==
  /\ At(t, "locking") /\ mutex = Nobody /\ IsCached(call[t].signature)
  /\ Goes(t, [call[t] EXCEPT !.pc = "assigning", !.acquired = cache.storage])
  /\ owners' = [owners EXCEPT ![cache.storage] = @ + 1]
  /\ UNCHANGED <<files, events, db, cache, mutex, stored, calm>>

BeginLoading(t) ==
  /\ At(t, "locking") /\ mutex = Nobody /\ ~IsCached(call[t].signature)
  /\ mutex' = t
  /\ Goes(t, [call[t] EXCEPT !.pc = "loading", !.loaded = <<>>])
  /\ UNCHANGED <<files, events, db, cache, stored, owners, calm>>

(* loadEntriesFromPath: a file that cannot be opened is skipped; when the  *)
(* files cannot be listed nothing is loaded.                               *)
LoadFile(t) ==
  LET loaded == call[t].loaded
  IN /\ At(t, "loading") /\ Len(loaded) < FileCount
     /\ \/ /\ Goes(t, [call[t] EXCEPT !.loaded = Append(loaded, files[Len(loaded) + 1])])
           /\ UNCHANGED <<events, calm>>
        \/ /\ Fault
           /\ \/ Goes(t, [call[t] EXCEPT !.loaded = Append(loaded, Skipped)])
              \/ /\ loaded = <<>>
                 /\ Goes(t, [call[t] EXCEPT !.loaded = [i \in 1 .. FileCount |-> Skipped]])
     /\ UNCHANGED <<files, db, cache, mutex, stored, owners>>

(* The new storage, with the built-in entries where nothing was loaded, is *)
(* put into the cache.                                                     *)
CreatedUncached(t, s) == [signature |-> Null, storage |-> Null]    \* mutant
CacheEntry(t, s) == [signature |-> call[t].signature, storage |-> s]

Create(t) ==
  /\ At(t, "loading") /\ Len(call[t].loaded) = FileCount
  /\ \E s \in Storages : stored[s] = Null
  /\ LET s == CHOOSE s \in Storages : stored[s] = Null
     IN /\ stored' = [stored EXCEPT ![s] = call[t].loaded]
        /\ owners' = [owners EXCEPT ![s] = 1]
        /\ cache' = CacheEntry(t, s)
        /\ Goes(t, [call[t] EXCEPT !.pc = "assigning", !.acquired = s, !.loaded = <<>>])
  /\ mutex' = Nobody
  /\ UNCHANGED <<files, events, db, calm>>

-----------------------------------------------------------------------------
(* The two members *)

(* sharedStorage = ..., in three steps                                     *)
BeginAssigning(t) ==
  /\ At(t, "assigning")
  /\ Goes(t, [call[t] EXCEPT !.pc = "storing", !.old = db.storage])
  /\ UNCHANGED <<files, events, db, cache, mutex, stored, owners, calm>>

Store(t) ==
  /\ At(t, "storing")
  /\ db' = [db EXCEPT !.storage = call[t].acquired]
  /\ Goes(t, [call[t] EXCEPT !.pc = "releasing", !.acquired = Null])
  /\ UNCHANGED <<files, events, cache, mutex, stored, owners, calm>>

(* The last owner's release destroys a storage, whoever refers to it: a    *)
(* lookup, or, where two threads have released one ownership, an owner.    *)
Without(c, s) ==
  LET left(r) == IF r = s THEN Gone ELSE r
  IN [c EXCEPT !.acquired = left(@), !.old = left(@), !.found = left(@), !.read = left(@)]

Destroy(s, calls) ==
  /\ call' = [u \in Threads |-> Without(calls[u], s)]
  /\ stored' = [stored EXCEPT ![s] = Null]
  /\ cache' = [cache EXCEPT !.storage = IF @ = s THEN Null ELSE @]
  /\ db' = [db EXCEPT !.storage = IF @ = s THEN Gone ELSE @]

Release(t) ==
  LET old == call[t].old
      released == [call EXCEPT ![t].pc = "signing", ![t].old = Null]
  IN /\ At(t, "releasing")
     /\ IF old \in {Null, Gone}
        THEN call' = released /\ UNCHANGED <<db, cache, stored, owners>>
        ELSE /\ owners' = [owners EXCEPT ![old] = @ - 1]
             /\ IF owners[old] > 1
                THEN call' = released /\ UNCHANGED <<db, cache, stored>>
                ELSE Destroy(old, released)
     /\ UNCHANGED <<files, events, mutex, calm>>

(* loadedSignature = ... *)
AssignSignature(t) ==
  /\ At(t, "signing")
  /\ db' = [db EXCEPT !.signature = call[t].signature]
  /\ Goes(t, Loaded(call[t]))
  /\ UNCHANGED <<files, events, cache, mutex, stored, owners, calm>>

(* return *sharedStorage: findExact takes a list of indices there, and     *)
(* entryAt, for each of them, the entry.                                   *)
Return(t) ==
  /\ At(t, "returning")
  /\ Goes(t, IF call[t].found = Null THEN Access([call[t] EXCEPT !.found = db.storage])
             ELSE [call[t] EXCEPT !.pc = "reading", !.read = db.storage])
  /\ UNCHANGED <<files, events, db, cache, mutex, stored, owners, calm>>

ReadEntry(t) ==
  /\ At(t, "reading")
  /\ Goes(t, Access([call[t] EXCEPT !.read = Null]))
  /\ UNCHANGED <<files, events, db, cache, mutex, stored, owners, calm>>

(* Nothing has been found, or all of it read.  reload ends here too: it    *)
(* only brings the lexicon up to date.                                     *)
EndLookup(t) ==
  /\ \/ At(t, "reading")
     \/ (At(t, "returning") /\ call[t].found = Null)
  /\ Goes(t, AtRest)
  /\ calm' = (calm \/ InLookup = {t})
  /\ UNCHANGED <<files, events, db, cache, mutex, stored, owners>>

-----------------------------------------------------------------------------
Init ==
  /\ files = [i \in 1 .. FileCount |-> 1]
  /\ events = 0
  /\ db = [storage |-> Null, signature |-> Null]
  /\ cache = [signature |-> Null, storage |-> Null]
  /\ mutex = Nobody
  /\ stored = [s \in Storages |-> Null]
  /\ owners = [s \in Storages |-> 0]
  /\ call = [t \in Threads |-> AtRest]
  /\ calm = TRUE
  /\ raced = FALSE

Step(t) ==
  \/ BeginLookup(t)
  \/ AskFile(t)
  \/ Compare(t)
  \/ AcquireCached(t)
  \/ BeginLoading(t)
  \/ LoadFile(t)
  \/ Create(t)
  \/ BeginAssigning(t)
  \/ Store(t)
  \/ Release(t)
  \/ AssignSignature(t)
  \/ Return(t)
  \/ ReadEntry(t)
  \/ EndLookup(t)

(* What was loaded is no older than a signature says; one that ends with a *)
(* failure says nothing.                                                   *)
Covers(loaded, signature) ==
  \/ signature = Null
  \/ Failed \in Range(signature)
  \/ \A i \in DOMAIN loaded : loaded[i] = Skipped \/ loaded[i] >= signature[i]

(* The shared storage is older than loadedSignature says, or destroyed:    *)
(* nobody will load it again until a file changes.                         *)
Torn ==
  \/ db.storage = Gone
  \/ db.storage # Null /\ ~Covers(stored[db.storage], db.signature)

Reloading == {t \in Threads : call[t].pc \in {"assigning", "storing", "releasing", "signing"}}

WatchRaces ==
  raced' = \/ Cardinality(Reloading') > 1
           \/ raced /\ (Reloading' # {} \/ Torn')

Next ==
  /\ \/ \E t \in Threads : Step(t)
     \/ \E i \in 1 .. FileCount : Change(i)
  /\ WatchRaces

Spec == Init /\ [][Next]_vars

-----------------------------------------------------------------------------
(* Types *)

References == Storages \cup {Null, Gone}
Contents == [1 .. FileCount -> Nat]
Whole(signature) == Failed \in Range(signature) \/ Len(signature) = FileCount
Signatures == {signature \in Seq(Nat \cup {Failed}) : Whole(signature)}

Calls ==
  [pc : {"idle", "asking", "comparing", "locking", "loading", "assigning", "storing",
         "releasing", "signing", "returning", "reading"},
   signature : Seq(Nat \cup {Failed}), loaded : Seq(Nat),
   acquired : References, old : References, found : References, read : References]

TypeOK ==
  /\ files \in [1 .. FileCount -> Nat \ {0}]
  /\ events \in Nat
  /\ db \in [storage : References, signature : Signatures \cup {Null}]
  /\ cache \in [storage : Storages \cup {Null}, signature : Signatures \cup {Null}]
  /\ mutex \in Threads \cup {Nobody}
  /\ stored \in [Storages -> Contents \cup {Null}]
  /\ owners \in [Storages -> Nat]
  /\ call \in [Threads -> Calls]
  /\ calm \in BOOLEAN /\ raced \in BOOLEAN

-----------------------------------------------------------------------------
(* Properties *)

(* A lookup reads entries by indices of the very storage they are in, and  *)
(* that storage is still there (Dictionary::buildExactCandidates on        *)
(* findExact and entryAt), unless a file has changed, or could not be read, *)
(* while some lookup was under way: then storages are replaced under       *)
(* lookups, even under one that began after the change.                    *)
LookupIsWhole ==
  calm /\ ~raced =>
    \A t \in Threads :
      /\ call[t].found # Gone
      /\ At(t, "reading") => call[t].read = call[t].found

(* The shared storage is older than loadedSignature says only where two    *)
(* threads reloaded at once, since each assigns the two members one after  *)
(* the other with no lock (reloadIfChanged): no other order of changes,    *)
(* failures and lookups leaves an old lexicon that passes for the new.     *)
OnlyRacesLeaveItStale == Torn => raced

(* Once changes and lookups no longer overlap, what is read is what stands *)
(* in the files, except for a file that could not be read, and for a       *)
(* lexicon that a race has left behind.                                    *)
CalmLookupsAreCurrent ==
  calm /\ ~Torn =>
    \A t \in Threads : At(t, "reading") =>
      \A i \in 1 .. FileCount : stored[call[t].read][i] \in {files[i], Skipped}
=============================================================================
