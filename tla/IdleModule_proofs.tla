-------------------------- MODULE IdleModule_proofs --------------------------
(***************************************************************************)
(* What holds of sessions and workers for every number of hosts and of     *)
(* starts.                                                                 *)
(*                                                                         *)
(* The argument: `running` outlasts the last session only between the      *)
(* decrement under the lock and the stop that follows it, and the handles  *)
(* of the current worker name one start.  So a worker that somebody relies *)
(* on ends only after stop() has been entered, and with one host nobody    *)
(* relies on it by then.                                                   *)
(***************************************************************************)
EXTENDS IdleModule, FiniteSetTheorems, TLAPS

Typed ==
  /\ mutex \in Hosts \cup {Free} /\ sessions \in Nat /\ registered \subseteq Hosts
  /\ idle \in IdleType /\ starts \in Handles /\ signalled \subseteq Workers
  /\ host \in [Hosts -> HostType] /\ worker \in [Workers -> WorkerType]

Leases == {h \in Hosts : Leased(h)}

(* The lock is held between two steps by the host about to give it back.   *)
LockInv == \A h \in Hosts : At(h, "unlocking") => mutex = h

(* Only active services are registered. *)
RegisteredInv == \A s \in registered : At(s, "active")

(* With no session left the flag is on its way to being cleared. *)
RunningInv ==
  idle.running /\ sessions = 0 => \E h \in Hosts : At(h, "unlocking") \/ At(h, "stopping")

(* Events and workers are numbered by the starts there have been. *)
NumbersInv ==
  /\ idle.thread <= starts /\ idle.stopEvent <= starts
  /\ \A e \in signalled : e <= starts

(* While the service holds an event, it is the one of its worker, and that *)
(* worker waits for no other.                                              *)
Captured == {"ticking", "serving", "dropping", "looking", "arming", "waiting"}
HandlesInv ==
  idle.thread # NoHandle /\ idle.stopEvent # NoHandle =>
    /\ idle.stopEvent = idle.thread
    /\ worker[idle.thread].pc \in Captured => worker[idle.thread].stopEvent = idle.thread

IInv ==
  /\ Typed /\ SessionsCounted /\ LockInv /\ RegisteredInv /\ RunningInv /\ NumbersInv /\ HandlesInv

-----------------------------------------------------------------------------
(* Counting *)

(* A host that takes or gives back no lease leaves the count alone.        *)
LEMMA SameLeases ==
  ASSUME Typed, SessionsCounted, sessions' = sessions,
         \A h \in Hosts : Leased(h)' <=> Leased(h)
  PROVE SessionsCounted'
  <1>1. Leases' = Leases
    BY DEF Leases
  <1> QED BY <1>1 DEF SessionsCounted, Leases

(* There are no more leases than hosts, and none is left when the count    *)
(* is 0.                                                                   *)
LEMMA CountOfLeases ==
  ASSUME Typed, SessionsCounted
  PROVE /\ IsFiniteSet(Leases) /\ sessions = Cardinality(Leases)
        /\ sessions \in 0 .. Cardinality(Hosts)
        /\ sessions > 0 <=> \E h \in Hosts : Leased(h)
  <1>1. IsFiniteSet(Hosts) /\ Leases \subseteq Hosts
    BY HostsAssumption DEF Leases
  <1>2. /\ IsFiniteSet(Leases) /\ Cardinality(Leases) <= Cardinality(Hosts)
    BY <1>1, FS_Subset
  <1>3. Cardinality(Hosts) \in Nat /\ Cardinality(Leases) \in Nat
    BY <1>1, <1>2, FS_CardinalityType
  <1>4. sessions = Cardinality(Leases)
    BY DEF SessionsCounted, Leases
  <1>5. Cardinality(Leases) = 0 <=> Leases = {}
    BY <1>2, FS_EmptySet
  <1>6. Leases # {} <=> \E h \in Hosts : Leased(h)
    BY DEF Leases
  <1> QED BY <1>2, <1>3, <1>4, <1>5, <1>6

(* One lease more. *)
LEMMA LeaseTaken ==
  ASSUME Typed, SessionsCounted, NEW h \in Hosts, ~Leased(h), sessions' = sessions + 1,
         Leased(h)', \A g \in Hosts \ {h} : Leased(g)' <=> Leased(g)
  PROVE SessionsCounted'
  <1>1. Leases' = Leases \cup {h} /\ h \notin Leases
    BY DEF Leases
  <1>2. Cardinality(Leases \cup {h}) = Cardinality(Leases) + 1
    BY <1>1, CountOfLeases, FS_AddElement
  <1> QED BY <1>1, <1>2, CountOfLeases DEF SessionsCounted, Leases

(* One lease less: the count was not 0. *)
LEMMA LeaseGiven ==
  ASSUME Typed, SessionsCounted, NEW h \in Hosts, Leased(h),
         sessions' = IF sessions = 0 THEN 0 ELSE sessions - 1,
         ~Leased(h)', \A g \in Hosts \ {h} : Leased(g)' <=> Leased(g)
  PROVE SessionsCounted'
  <1>1. Leases' = Leases \ {h} /\ h \in Leases
    BY DEF Leases
  <1>2. Cardinality(Leases \ {h}) = Cardinality(Leases) - 1
    BY <1>1, CountOfLeases, FS_RemoveElement
  <1>3. sessions > 0
    BY CountOfLeases
  <1>4. sessions' = sessions - 1
    BY <1>3
  <1> QED BY <1>1, <1>2, <1>4, CountOfLeases DEF SessionsCounted, Leases

-----------------------------------------------------------------------------
(* Where a host goes *)

(* What a step of one host does to the places of all of them. *)
LEMMA Went ==
  ASSUME Typed, NEW h \in Hosts, NEW pc \in HostPCs, Go(h, pc)
  PROVE /\ host' \in [Hosts -> HostType]
        /\ host'[h].pc = pc /\ host'[h].thread = host[h].thread
        /\ host'[h].stopEvent = host[h].stopEvent
        /\ \A g \in Hosts \ {h} : host'[g] = host[g]
  <1> DEFINE new == [host[h] EXCEPT !.pc = pc]
  <1>1. host' = [host EXCEPT ![h] = new]
    BY DEF Go
  <1>2. host[h] \in HostType
    BY DEF Typed
  <1>3. new \in HostType /\ new.pc = pc /\ new.thread = host[h].thread /\ new.stopEvent = host[h].stopEvent
    BY <1>2 DEF HostType
  <1> HIDE DEF new
  <1> QED BY <1>1, <1>3 DEF Typed

(* A step that a host makes outside the leases, with the worker and the    *)
(* service untouched, keeps the invariant if the lock and the flag are     *)
(* kept.                                                                   *)
LEMMA HostOnly ==
  ASSUME IInv, NEW h \in Hosts,
         host' \in [Hosts -> HostType], \A g \in Hosts \ {h} : host'[g] = host[g],
         Leased(h)' <=> Leased(h), h \notin registered' \/ At(h, "active")',
         registered' \subseteq registered \cup {h},
         At(h, "unlocking")' => FALSE,
         mutex' \in Hosts \cup {Free}, mutex' = mutex \/ mutex = h,
         At(h, "stopping") \/ At(h, "unlocking") => At(h, "stopping")' \/ sessions # 0,
         UNCHANGED <<sessions, idle, starts, signalled, worker>>
  PROVE IInv'
  <1> USE DEF IInv
  <1>1. Typed'
    BY DEF Typed, IdleType, Handles, Workers, WorkerType
  <1>2. SessionsCounted'
    <2>1. \A g \in Hosts : Leased(g)' <=> Leased(g)
      BY DEF Leased
    <2> QED BY <2>1, SameLeases
  <1>3. LockInv'
    BY DEF LockInv, At
  <1>4. RegisteredInv'
    BY DEF RegisteredInv, At, Typed
  <1>5. RunningInv'
    <2>1. ASSUME idle'.running, sessions' = 0
          PROVE \E g \in Hosts : At(g, "unlocking")' \/ At(g, "stopping")'
      <3>1. PICK g \in Hosts : At(g, "unlocking") \/ At(g, "stopping")
        BY <2>1 DEF RunningInv
      <3>2. CASE g = h
        BY <2>1, <3>1, <3>2
      <3>3. CASE g # h
        BY <3>1, <3>3 DEF At
      <3> QED BY <3>2, <3>3
    <2> QED BY <2>1 DEF RunningInv, At
  <1>6. NumbersInv' /\ HandlesInv'
    BY DEF NumbersInv, HandlesInv
  <1> QED BY <1>1, <1>2, <1>3, <1>4, <1>5, <1>6

(* The steps of a host that touch neither the service nor the count. *)
LEMMA HostKeeps ==
  ASSUME IInv, NEW h \in Hosts,
         \/ Create(h) \/ Register(h) \/ Deactivate(h) \/ Unlock(h)
         \/ BeginJoin(h) \/ Joined(h) \/ Release(h)
  PROVE IInv'
  <1> USE DEF IInv
  <1>1. host[h] \in HostType /\ (h \in registered => At(h, "active")) /\ Free \notin Hosts
    BY HostsAssumption DEF Typed, RegisteredInv
  <1>2. CASE Create(h)
    <2>1. Go(h, "inactive") /\ At(h, "absent") /\ "inactive" \in HostPCs
      BY <1>2 DEF Create, HostPCs
    <2>2. host' \in [Hosts -> HostType] /\ host'[h].pc = "inactive" /\ \A g \in Hosts \ {h} : host'[g] = host[g]
      BY <2>1, Went
    <2> QED BY <1>1, <1>2, <2>1, <2>2, HostOnly DEF Create, Leased, At, Typed
  <1>3. CASE Register(h)
    <2>1. Go(h, "active") /\ At(h, "registering") /\ "active" \in HostPCs
      BY <1>3 DEF Register, HostPCs
    <2>2. host' \in [Hosts -> HostType] /\ host'[h].pc = "active" /\ \A g \in Hosts \ {h} : host'[g] = host[g]
      BY <2>1, Went
    <2> QED BY <1>1, <1>3, <2>1, <2>2, HostOnly DEF Register, Leased, At, Typed
  <1>4. CASE Deactivate(h)
    <2>1. Go(h, "releasing") /\ At(h, "active") /\ "releasing" \in HostPCs
      BY <1>4 DEF Deactivate, HostPCs
    <2>2. host' \in [Hosts -> HostType] /\ host'[h].pc = "releasing" /\ \A g \in Hosts \ {h} : host'[g] = host[g]
      BY <2>1, Went
    <2> QED BY <1>1, <1>4, <2>1, <2>2, HostOnly DEF Deactivate, Leased, At, Typed
  <1>5. CASE Unlock(h)
    <2> DEFINE pc == IF sessions = 0 THEN "stopping" ELSE "inactive"
    <2>1. Go(h, pc) /\ At(h, "unlocking") /\ pc \in HostPCs
      BY <1>5 DEF Unlock, HostPCs
    <2>2. host' \in [Hosts -> HostType] /\ host'[h].pc = pc /\ \A g \in Hosts \ {h} : host'[g] = host[g]
      BY <2>1, Went
    <2>3. mutex = h
      BY <2>1 DEF LockInv
    <2> QED BY <1>1, <1>5, <2>1, <2>2, <2>3, HostOnly DEF Unlock, Leased, At, Typed
  <1>6. CASE BeginJoin(h)
    <2> DEFINE pc == IF IsOpen(host[h].thread, idle.thread) THEN "joining" ELSE "resetting"
    <2>1. Go(h, pc) /\ At(h, "waiting") /\ pc \in HostPCs
      BY <1>6 DEF BeginJoin, HostPCs
    <2>2. host' \in [Hosts -> HostType] /\ host'[h].pc = pc /\ \A g \in Hosts \ {h} : host'[g] = host[g]
      BY <2>1, Went
    <2> QED BY <1>1, <1>6, <2>1, <2>2, HostOnly DEF BeginJoin, Leased, At, Typed
  <1>7. CASE Joined(h)
    <2>1. Go(h, "resetting") /\ At(h, "joining") /\ "resetting" \in HostPCs
      BY <1>7 DEF Joined, HostPCs
    <2>2. host' \in [Hosts -> HostType] /\ host'[h].pc = "resetting" /\ \A g \in Hosts \ {h} : host'[g] = host[g]
      BY <2>1, Went
    <2> QED BY <1>1, <1>7, <2>1, <2>2, HostOnly DEF Joined, Leased, At, Typed
  <1>8. CASE Release(h)
    <2>1. Go(h, "absent") /\ At(h, "inactive") /\ "absent" \in HostPCs
      BY <1>8 DEF Release, HostPCs
    <2>2. host' \in [Hosts -> HostType] /\ host'[h].pc = "absent" /\ \A g \in Hosts \ {h} : host'[g] = host[g]
      BY <2>1, Went
    <2> QED BY <1>1, <1>8, <2>1, <2>2, HostOnly DEF Release, Leased, At, Typed
  <1> QED BY <1>2, <1>3, <1>4, <1>5, <1>6, <1>7, <1>8

(* Starting a worker: its number is new, and so is its event. *)
LEMMA Started ==
  ASSUME Typed, NumbersInv, Start
  PROVE /\ starts' = starts + 1 /\ starts' \in Workers /\ starts' # NoHandle
        /\ idle' \in IdleType /\ idle'.running /\ idle'.onTick
        /\ idle'.thread = starts' /\ idle'.stopEvent = starts' /\ starts' \notin signalled
        /\ worker' \in [Workers -> WorkerType] /\ worker'[starts'].pc = "checking"
        /\ \A k \in Workers \ {starts'} : worker'[k] = worker[k]
  <1>1. starts \in Nat /\ MaxStarts \in Nat /\ starts < MaxStarts /\ starts' = starts + 1
    BY HostsAssumption DEF Typed, Start, Handles
  <1>2. starts' \in Workers /\ starts' # NoHandle /\ starts' \in Handles
    BY <1>1 DEF Workers, NoHandle, Handles
  <1>3. starts' \notin signalled
    BY <1>1 DEF NumbersInv
  <1>4. idle' = [running |-> TRUE, onTick |-> TRUE, stopEvent |-> starts', thread |-> starts']
    BY DEF Start
  <1> DEFINE new == [worker[starts'] EXCEPT !.pc = "checking"]
  <1>5. worker' = [worker EXCEPT ![starts'] = new]
    BY DEF Start
  <1>6. worker[starts'] \in WorkerType
    BY <1>2 DEF Typed
  <1>7. new \in WorkerType /\ new.pc = "checking"
    BY <1>6 DEF WorkerType, WorkerPCs
  <1> HIDE DEF new
  <1>8. /\ worker' \in [Workers -> WorkerType] /\ worker'[starts'].pc = "checking"
        /\ \A k \in Workers \ {starts'} : worker'[k] = worker[k]
    BY <1>2, <1>5, <1>7 DEF Typed
  <1> QED BY <1>1, <1>2, <1>3, <1>4, <1>8 DEF IdleType

(* A lease is counted when the service is there, and not when it could not *)
(* be started.                                                             *)
LEMMA AcquireKeeps ==
  ASSUME IInv, NEW h \in Hosts, Acquire(h)
  PROVE IInv'
  <1> USE DEF IInv
  <1>1. host[h] \in HostType /\ At(h, "inactive") /\ mutex = Free /\ Free \notin Hosts
    BY HostsAssumption DEF Typed, Acquire
  <1>2. h \notin registered
    BY <1>1 DEF RegisteredInv, At
  <1>3. UNCHANGED <<mutex, registered, signalled>>
    BY DEF Acquire
  <1>4. ASSUME sessions' = sessions + 1, Go(h, "registering"),
               worker' \in [Workers -> WorkerType], idle' \in IdleType, starts' \in Handles,
               NumbersInv', HandlesInv'
        PROVE IInv'
    <2>1. "registering" \in HostPCs
      BY DEF HostPCs
    <2>2. host' \in [Hosts -> HostType] /\ host'[h].pc = "registering" /\ \A g \in Hosts \ {h} : host'[g] = host[g]
      BY <1>4, <2>1, Went
    <2>3. Typed'
      BY <1>3, <1>4, <2>2 DEF Typed
    <2>4. SessionsCounted'
      <3>1. ~Leased(h) /\ Leased(h)' /\ \A g \in Hosts \ {h} : Leased(g)' <=> Leased(g)
        BY <1>1, <2>2 DEF Leased, At
      <3> QED BY <1>4, <3>1, LeaseTaken
    <2>5. LockInv' /\ RegisteredInv'
      BY <1>1, <1>2, <1>3, <2>2 DEF LockInv, RegisteredInv, At, Typed
    <2>6. RunningInv'
      BY <1>4 DEF RunningInv, Typed
    <2> QED BY <1>4, <2>3, <2>4, <2>5, <2>6
  <1>5. CASE (sessions > 0 \/ idle.running) /\ sessions' = sessions + 1 /\ Go(h, "registering")
             /\ UNCHANGED <<idle, starts, worker>>
    <2>1. worker' \in [Workers -> WorkerType] /\ idle' \in IdleType /\ starts' \in Handles
      BY <1>5 DEF Typed
    <2>2. NumbersInv' /\ HandlesInv'
      BY <1>3, <1>5 DEF NumbersInv, HandlesInv
    <2> QED BY <1>4, <1>5, <2>1, <2>2
  <1>6. CASE sessions = 0 /\ ~idle.running /\ Start /\ sessions' = sessions + 1 /\ Go(h, "registering")
    <2>1. starts' \in Handles
      BY <1>6, Started DEF Workers, Handles, Typed
    <2>2. NumbersInv'
      BY <1>3, <1>6, Started DEF NumbersInv, Typed, Workers, Handles
    <2>3. HandlesInv'
      BY <1>6, Started DEF HandlesInv, Captured
    <2> QED BY <1>4, <1>6, <2>1, <2>2, <2>3, Started
  <1>7. CASE sessions = 0 /\ ~idle.running /\ StartFails /\ UNCHANGED <<sessions, host>>
    <2>1. /\ idle' \in IdleType /\ idle'.stopEvent = NoHandle /\ idle'.thread \in {idle.thread, NoHandle}
          /\ idle'.running = idle.running /\ UNCHANGED <<starts, worker>>
      <3>1. idle \in IdleType /\ NoHandle \in Handles
        BY HostsAssumption DEF Typed, Handles, NoHandle
      <3>2. \/ idle' = [idle EXCEPT !.stopEvent = NoHandle]
            \/ idle' = [idle EXCEPT !.stopEvent = NoHandle, !.thread = NoHandle, !.onTick = FALSE]
        BY <1>7 DEF StartFails
      <3>3. UNCHANGED <<starts, worker>>
        BY <1>7 DEF StartFails
      <3> QED BY <3>1, <3>2, <3>3 DEF IdleType
    <2>2. Typed' /\ SessionsCounted'
      <3>1. Typed'
        BY <1>3, <1>7, <2>1 DEF Typed
      <3>2. \A g \in Hosts : Leased(g)' <=> Leased(g)
        BY <1>7 DEF Leased
      <3> QED BY <1>7, <3>1, <3>2, SameLeases
    <2>3. LockInv' /\ RegisteredInv' /\ RunningInv'
      BY <1>3, <1>7, <2>1 DEF LockInv, RegisteredInv, RunningInv, At
    <2>4. NumbersInv'
      BY <1>3, <2>1 DEF NumbersInv, Typed, IdleType, Handles, NoHandle
    <2>5. HandlesInv'
      BY <2>1 DEF HandlesInv
    <2> QED BY <2>2, <2>3, <2>4, <2>5
  <1> QED BY <1>5, <1>6, <1>7 DEF Acquire

(* The count goes down under the lock, which stays with the host. *)
LEMMA DecrementKeeps ==
  ASSUME IInv, NEW h \in Hosts, Decrement(h)
  PROVE IInv'
  <1> USE DEF IInv
  <1>1. At(h, "releasing") /\ mutex = Free /\ mutex' = h /\ Go(h, "unlocking") /\ Free \notin Hosts
    BY HostsAssumption DEF Decrement
  <1>2. "unlocking" \in HostPCs
    BY DEF HostPCs
  <1>3. host' \in [Hosts -> HostType] /\ host'[h].pc = "unlocking" /\ \A g \in Hosts \ {h} : host'[g] = host[g]
    BY <1>1, <1>2, Went
  <1>4. sessions' \in Nat
    BY DEF Decrement, Typed
  <1>5. Typed'
    BY <1>1, <1>3, <1>4 DEF Decrement, Typed
  <1>6. SessionsCounted'
    <2>1. Leased(h) /\ ~Leased(h)' /\ \A g \in Hosts \ {h} : Leased(g)' <=> Leased(g)
      BY <1>1, <1>3 DEF Leased, At
    <2>2. sessions' = IF sessions = 0 THEN 0 ELSE sessions - 1
      BY DEF Decrement
    <2> QED BY <2>1, <2>2, LeaseGiven
  <1>7. LockInv'
    BY <1>1, <1>3 DEF LockInv, At
  <1>8. RegisteredInv'
    BY <1>1, <1>3 DEF RegisteredInv, At, Typed, Decrement
  <1>9. RunningInv'
    BY <1>3 DEF RunningInv, At
  <1>10. NumbersInv' /\ HandlesInv'
    BY DEF NumbersInv, HandlesInv, Decrement
  <1> QED BY <1>5, <1>6, <1>7, <1>8, <1>9, <1>10

(* stop() takes the flag away; whoever is left in it holds the handles. *)
LEMMA BeginStopKeeps ==
  ASSUME IInv, NEW h \in Hosts, BeginStop(h)
  PROVE IInv'
  <1> USE DEF IInv
  <1>1. host[h] \in HostType /\ idle \in IdleType /\ At(h, "stopping")
    BY DEF Typed, BeginStop
  <1> DEFINE new == IF idle.running
                    THEN [pc |-> "signalling", thread |-> idle.thread, stopEvent |-> idle.stopEvent]
                    ELSE [host[h] EXCEPT !.pc = "inactive"]
             over == [idle EXCEPT !.running = FALSE]
  <1>2. host' = [host EXCEPT ![h] = new] /\ idle' = over
        /\ UNCHANGED <<mutex, sessions, registered, starts, signalled, worker>>
    BY DEF BeginStop
  <1>3. new \in HostType /\ new.pc \in {"signalling", "inactive"}
    BY <1>1 DEF HostType, HostPCs, IdleType
  <1>4. over \in IdleType /\ ~over.running /\ over.thread = idle.thread /\ over.stopEvent = idle.stopEvent
    BY <1>1 DEF IdleType
  <1> HIDE DEF new, over
  <1>5. host'[h] = new /\ \A g \in Hosts \ {h} : host'[g] = host[g]
    BY <1>2 DEF Typed
  <1>6. Typed'
    BY <1>2, <1>3, <1>4 DEF Typed
  <1>7. SessionsCounted'
    <2>1. \A g \in Hosts : Leased(g)' <=> Leased(g)
      BY <1>1, <1>3, <1>5 DEF Leased, At
    <2> QED BY <1>2, <2>1, SameLeases
  <1>8. LockInv' /\ RegisteredInv'
    BY <1>1, <1>2, <1>3, <1>5 DEF LockInv, RegisteredInv, At, Typed
  <1>9. RunningInv' /\ NumbersInv' /\ HandlesInv'
    BY <1>2, <1>4 DEF RunningInv, NumbersInv, HandlesInv
  <1> QED BY <1>6, <1>7, <1>8, <1>9

(* Only an event the service still holds is signalled. *)
LEMMA SignalKeeps ==
  ASSUME IInv, NEW h \in Hosts, Signal(h)
  PROVE IInv'
  <1> USE DEF IInv
  <1>1. Go(h, "waiting") /\ At(h, "signalling") /\ "waiting" \in HostPCs
        /\ UNCHANGED <<mutex, sessions, registered, idle, starts, worker>>
    BY DEF Signal, HostPCs
  <1>2. host' \in [Hosts -> HostType] /\ host'[h].pc = "waiting" /\ \A g \in Hosts \ {h} : host'[g] = host[g]
    BY <1>1, Went
  <1>3. \/ signalled' = signalled
        \/ (signalled' = signalled \cup {idle.stopEvent} /\ idle.stopEvent # NoHandle)
    <2> DEFINE open == host[h].stopEvent # NoHandle /\ host[h].stopEvent = idle.stopEvent
    <2>1. signalled' = IF open THEN signalled \cup {host[h].stopEvent} ELSE signalled
      BY DEF Signal, IsOpen
    <2>2. CASE open
      BY <2>1, <2>2
    <2>3. CASE ~open
      BY <2>1, <2>3
    <2> QED BY <2>2, <2>3
  <1>4. idle \in IdleType /\ MaxStarts \in Nat
    BY HostsAssumption DEF Typed
  <1>5. signalled' \subseteq Workers /\ \A e \in signalled' : e <= starts
    <2>1. signalled \subseteq Workers /\ \A e \in signalled : e <= starts
      BY DEF Typed, NumbersInv
    <2>2. idle.stopEvent # NoHandle => idle.stopEvent \in Workers /\ idle.stopEvent <= starts
      BY <1>4 DEF NumbersInv, IdleType, Workers, Handles, NoHandle
    <2> QED BY <1>3, <2>1, <2>2
  <1>6. Typed'
    BY <1>1, <1>2, <1>5 DEF Typed
  <1>7. SessionsCounted'
    <2>1. \A g \in Hosts : Leased(g)' <=> Leased(g)
      BY <1>1, <1>2 DEF Leased, At
    <2> QED BY <1>1, <2>1, SameLeases
  <1>8. LockInv' /\ RegisteredInv'
    BY <1>1, <1>2 DEF LockInv, RegisteredInv, At, Typed
  <1>9. RunningInv'
    <2>1. ASSUME NEW g \in Hosts, At(g, "unlocking") \/ At(g, "stopping")
          PROVE At(g, "unlocking")' \/ At(g, "stopping")'
      BY <1>1, <1>2, <2>1 DEF At
    <2> QED BY <1>1, <2>1 DEF RunningInv
  <1>10. NumbersInv' /\ HandlesInv'
    BY <1>1, <1>5 DEF NumbersInv, HandlesInv
  <1> QED BY <1>6, <1>7, <1>8, <1>9, <1>10

(* Reset closes both handles. *)
LEMMA ResetKeeps ==
  ASSUME IInv, NEW h \in Hosts, Reset(h)
  PROVE /\ IInv' /\ idle'.thread = NoHandle /\ host'[h].pc = "inactive"
        /\ \A g \in Hosts \ {h} : host'[g] = host[g]
  <1> USE DEF IInv
  <1>1. host[h] \in HostType /\ idle \in IdleType /\ At(h, "resetting") /\ NoHandle \in Handles
    BY HostsAssumption DEF Typed, Reset, Handles, NoHandle
  <1> DEFINE new == [pc |-> "inactive", thread |-> NoHandle, stopEvent |-> NoHandle]
             over == [idle EXCEPT !.onTick = FALSE, !.stopEvent = NoHandle, !.thread = NoHandle]
  <1>2. host' = [host EXCEPT ![h] = new] /\ idle' = over
        /\ UNCHANGED <<mutex, sessions, registered, starts, signalled, worker>>
    BY DEF Reset
  <1>3. new \in HostType /\ new.pc = "inactive"
    BY <1>1 DEF HostType, HostPCs
  <1>4. over \in IdleType /\ over.running = idle.running /\ over.thread = NoHandle /\ over.stopEvent = NoHandle
    BY <1>1 DEF IdleType
  <1> HIDE DEF new, over
  <1>5. host'[h] = new /\ \A g \in Hosts \ {h} : host'[g] = host[g]
    BY <1>2 DEF Typed
  <1>6. Typed'
    BY <1>2, <1>3, <1>4 DEF Typed
  <1>7. SessionsCounted'
    <2>1. \A g \in Hosts : Leased(g)' <=> Leased(g)
      BY <1>1, <1>3, <1>5 DEF Leased, At
    <2> QED BY <1>2, <2>1, SameLeases
  <1>8. LockInv' /\ RegisteredInv'
    BY <1>1, <1>2, <1>3, <1>5 DEF LockInv, RegisteredInv, At, Typed
  <1>9. RunningInv'
    <2>1. ASSUME NEW g \in Hosts, At(g, "unlocking") \/ At(g, "stopping")
          PROVE At(g, "unlocking")' \/ At(g, "stopping")'
      BY <1>1, <1>5, <2>1 DEF At
    <2> QED BY <1>2, <1>4, <2>1 DEF RunningInv
  <1>10. NumbersInv'
    BY <1>2, <1>4 DEF NumbersInv, Typed, Handles, NoHandle
  <1>11. HandlesInv'
    BY <1>2, <1>4 DEF HandlesInv
  <1> QED BY <1>2, <1>3, <1>4, <1>5, <1>6, <1>7, <1>8, <1>9, <1>10, <1>11

-----------------------------------------------------------------------------
(* Where a worker goes *)

(* A worker is alive, leaves everything else alone, waits only for the     *)
(* event the service held when it looked, and ends only when the service   *)
(* is not running or its event is gone or set.                             *)
WorkerWent(k, new) ==
  /\ new \in WorkerType /\ worker' = [worker EXCEPT ![k] = new]
  /\ UNCHANGED <<mutex, sessions, registered, idle, starts, signalled, host>>
  /\ worker[k].pc \notin {"unborn", "dead"}
  /\ new.pc \in Captured =>
       \/ new.stopEvent = idle.stopEvent
       \/ worker[k].pc \in Captured /\ new.stopEvent = worker[k].stopEvent
  /\ new.pc = "dead" =>
       \/ ~idle.running
       \/ worker[k].pc = "looking" /\ worker[k].stopEvent = NoHandle
       \/ worker[k].pc = "waiting" /\ worker[k].stopEvent \in signalled

LEMMA WorkerStepIs ==
  ASSUME Typed, NEW k \in Workers, WorkerStep(k)
  PROVE \E new \in WorkerType : WorkerWent(k, new)
  <1>1. worker[k] \in WorkerType /\ idle \in IdleType /\ registered \subseteq Hosts /\ NoHandle \in Handles
    BY HostsAssumption DEF Typed, Handles, NoHandle
  <1>2. Dead \in WorkerType /\ Dead.pc = "dead"
    BY <1>1 DEF Dead, WorkerType, WorkerPCs
  <1>3. ASSUME NEW pc \in WorkerPCs
        PROVE /\ [worker[k] EXCEPT !.pc = pc] \in WorkerType
              /\ [worker[k] EXCEPT !.pc = pc].pc = pc
              /\ [worker[k] EXCEPT !.pc = pc].stopEvent = worker[k].stopEvent
    BY <1>1 DEF WorkerType
  <1>4. ASSUME NEW pc \in WorkerPCs, Step(k, pc)
        PROVE worker' = [worker EXCEPT ![k] = [worker[k] EXCEPT !.pc = pc]]
    BY <1>4 DEF Step
  <1>5. CASE Check(k)
    <2>1. CASE idle.running
      <3>1. Step(k, "capturing") /\ "capturing" \in WorkerPCs
        BY <1>5, <2>1 DEF Check, StepUnless, WorkerPCs
      <3>2. WorkerWent(k, [worker[k] EXCEPT !.pc = "capturing"])
        BY <1>3, <1>4, <1>5, <3>1 DEF WorkerWent, Check, IsAt, Captured
      <3> QED BY <1>3, <3>1, <3>2
    <2>2. CASE ~idle.running
      <3>1. WorkerWent(k, Dead)
        BY <1>2, <1>5, <2>2 DEF WorkerWent, Check, StepUnless, IsAt, Captured
      <3> QED BY <1>2, <3>1
    <2> QED BY <2>1, <2>2
  <1>6. CASE Capture(k)
    <2> DEFINE pc == IF idle.onTick THEN "ticking" ELSE "looking"
               new == [worker[k] EXCEPT !.pc = pc, !.stopEvent = idle.stopEvent]
    <2>1. new \in WorkerType /\ new.pc = pc /\ new.stopEvent = idle.stopEvent
      BY <1>1 DEF WorkerType, WorkerPCs, IdleType
    <2>2. worker' = [worker EXCEPT ![k] = new]
      BY <1>6 DEF Capture
    <2>3. pc # "dead"
      OBVIOUS
    <2> HIDE DEF new, pc
    <2>4. WorkerWent(k, new)
      BY <1>6, <2>1, <2>2, <2>3 DEF WorkerWent, Capture, IsAt
    <2> QED BY <2>1, <2>4
  <1>7. CASE Tick(k)
    <2> DEFINE new == [worker[k] EXCEPT !.pc = "serving", !.held = registered]
    <2>1. new \in WorkerType /\ new.pc = "serving" /\ new.stopEvent = worker[k].stopEvent
      BY <1>1 DEF WorkerType, WorkerPCs
    <2>2. worker' = [worker EXCEPT ![k] = new]
      BY <1>7 DEF Tick
    <2> HIDE DEF new
    <2>3. WorkerWent(k, new)
      BY <1>7, <2>1, <2>2 DEF WorkerWent, Tick, IsAt, Captured
    <2> QED BY <2>1, <2>3
  <1>8. CASE Serve(k)
    <2>1. Step(k, "dropping") /\ "dropping" \in WorkerPCs
      BY <1>8 DEF Serve, WorkerPCs
    <2>2. WorkerWent(k, [worker[k] EXCEPT !.pc = "dropping"])
      BY <1>3, <1>4, <1>8, <2>1 DEF WorkerWent, Serve, IsAt, Captured
    <2> QED BY <1>3, <2>1, <2>2
  <1>9. CASE Drop(k)
    <2>1. CASE worker[k].held = {}
      <3>1. Step(k, "looking") /\ "looking" \in WorkerPCs
        BY <1>9, <2>1 DEF Drop, WorkerPCs
      <3>2. WorkerWent(k, [worker[k] EXCEPT !.pc = "looking"])
        BY <1>3, <1>4, <1>9, <3>1 DEF WorkerWent, Drop, IsAt, Captured
      <3> QED BY <1>3, <3>1, <3>2
    <2>2. CASE worker[k].held # {}
      <3>1. PICK s \in worker[k].held : worker' = [worker EXCEPT ![k].held = @ \ {s}]
        BY <1>9, <2>2 DEF Drop
      <3> DEFINE left == worker[k].held \ {s}
                 new == [worker[k] EXCEPT !.held = left]
      <3>2. left \in SUBSET Hosts
        BY <1>1 DEF WorkerType
      <3>3. new \in WorkerType /\ new.pc = worker[k].pc /\ new.stopEvent = worker[k].stopEvent
        BY <1>1, <3>2 DEF WorkerType
      <3>4. worker' = [worker EXCEPT ![k] = new]
        BY <3>1
      <3> HIDE DEF new
      <3>5. WorkerWent(k, new)
        BY <1>9, <3>3, <3>4 DEF WorkerWent, Drop, IsAt, Captured
      <3> QED BY <3>3, <3>5
    <2> QED BY <2>1, <2>2
  <1>10. CASE Look(k)
    <2>1. CASE idle.running /\ worker[k].stopEvent # NoHandle
      <3>1. Step(k, "arming") /\ "arming" \in WorkerPCs
        BY <1>10, <2>1 DEF Look, StepUnless, WorkerPCs
      <3>2. WorkerWent(k, [worker[k] EXCEPT !.pc = "arming"])
        BY <1>3, <1>4, <1>10, <3>1 DEF WorkerWent, Look, IsAt, Captured
      <3> QED BY <1>3, <3>1, <3>2
    <2>2. CASE ~(idle.running /\ worker[k].stopEvent # NoHandle)
      <3>1. WorkerWent(k, Dead)
        BY <1>2, <1>10, <2>2 DEF WorkerWent, Look, StepUnless, IsAt, Captured
      <3> QED BY <1>2, <3>1
    <2> QED BY <2>1, <2>2
  <1>11. CASE Arm(k)
    <2> DEFINE pc == IF IsOpen(worker[k].stopEvent, idle.stopEvent) THEN "waiting" ELSE "checking"
    <2>1. Step(k, pc) /\ pc \in WorkerPCs /\ pc # "dead"
      BY <1>11 DEF Arm, WorkerPCs
    <2> HIDE DEF pc
    <2>2. WorkerWent(k, [worker[k] EXCEPT !.pc = pc])
      BY <1>3, <1>4, <1>11, <2>1 DEF WorkerWent, Arm, IsAt, Captured
    <2> QED BY <1>3, <2>1, <2>2
  <1>12. CASE Wake(k)
    <2>1. CASE worker[k].stopEvent \notin signalled
      <3>1. Step(k, "checking") /\ "checking" \in WorkerPCs
        BY <1>12, <2>1 DEF Wake, StepUnless, WorkerPCs
      <3>2. WorkerWent(k, [worker[k] EXCEPT !.pc = "checking"])
        BY <1>3, <1>4, <1>12, <3>1 DEF WorkerWent, Wake, IsAt, Captured
      <3> QED BY <1>3, <3>1, <3>2
    <2>2. CASE worker[k].stopEvent \in signalled
      <3>1. WorkerWent(k, Dead)
        BY <1>2, <1>12, <2>2 DEF WorkerWent, Wake, StepUnless, IsAt, Captured
      <3> QED BY <1>2, <3>1
    <2> QED BY <2>1, <2>2
  <1> QED BY <1>5, <1>6, <1>7, <1>8, <1>9, <1>10, <1>11, <1>12 DEF WorkerStep

(* The worker keeps the invariant. *)
LEMMA WorkerKeeps ==
  ASSUME IInv, NEW k \in Workers, WorkerStep(k)
  PROVE IInv'
  <1> USE DEF IInv
  <1>1. PICK new \in WorkerType : WorkerWent(k, new)
    BY WorkerStepIs
  <1>2. /\ worker' = [worker EXCEPT ![k] = new]
        /\ UNCHANGED <<mutex, sessions, registered, idle, starts, signalled, host>>
    BY <1>1 DEF WorkerWent
  <1>3. Typed'
    BY <1>2 DEF Typed
  <1>4. SessionsCounted' /\ LockInv' /\ RegisteredInv' /\ RunningInv' /\ NumbersInv'
    BY <1>2 DEF SessionsCounted, Leased, LockInv, RegisteredInv, RunningInv, NumbersInv, At
  <1>5. HandlesInv'
    <2>1. SUFFICES ASSUME idle.thread # NoHandle, idle.stopEvent # NoHandle,
                          worker'[idle.thread].pc \in Captured
                   PROVE worker'[idle.thread].stopEvent = idle.thread
      BY <1>2 DEF HandlesInv
    <2>2. idle.stopEvent = idle.thread
          /\ (worker[idle.thread].pc \in Captured => worker[idle.thread].stopEvent = idle.thread)
      BY <2>1 DEF HandlesInv
    <2>3. idle.thread \in Workers
      BY <2>1, HostsAssumption DEF Typed, IdleType, Handles, Workers, NoHandle
    <2>4. CASE idle.thread = k
      <3>1. worker'[k] = new
        BY <1>2 DEF Typed
      <3> QED BY <1>1, <2>1, <2>2, <2>4, <3>1 DEF WorkerWent
    <2>5. CASE idle.thread # k
      <3>1. worker'[idle.thread] = worker[idle.thread]
        BY <1>2, <2>3, <2>5 DEF Typed
      <3> QED BY <2>1, <2>2, <3>1
    <2> QED BY <2>4, <2>5
  <1> QED BY <1>3, <1>4, <1>5

-----------------------------------------------------------------------------
(* The invariant *)

(* Before anything happens there is nothing to count. *)
LEMMA InitInv ==
  ASSUME Init
  PROVE IInv
  <1>1. MaxStarts \in Nat /\ IsFiniteSet(Hosts)
    BY HostsAssumption
  <1>2. Typed
    <2>1. [pc |-> "absent", thread |-> NoHandle, stopEvent |-> NoHandle] \in HostType
      BY <1>1 DEF HostType, HostPCs, Handles, NoHandle
    <2>2. [pc |-> "unborn", stopEvent |-> NoHandle, held |-> {}] \in WorkerType
      BY <1>1 DEF WorkerType, WorkerPCs, Handles, NoHandle
    <2>3. idle \in IdleType /\ starts \in Handles
      BY <1>1 DEF Init, IdleType, Handles, NoHandle
    <2> QED BY <2>1, <2>2, <2>3 DEF Init, Typed
  <1>3. SessionsCounted
    <2>1. {h \in Hosts : Leased(h)} = {}
      BY DEF Init, Leased
    <2> QED BY <2>1, FS_EmptySet DEF Init, SessionsCounted
  <1>4. LockInv /\ RegisteredInv
    BY DEF Init, LockInv, RegisteredInv, At
  <1>5. RunningInv /\ NumbersInv /\ HandlesInv
    BY DEF Init, RunningInv, NumbersInv, HandlesInv, NoHandle
  <1> QED BY <1>2, <1>3, <1>4, <1>5 DEF IInv

(* Every step keeps the invariant. *)
LEMMA NextInv ==
  ASSUME IInv, [Next]_vars
  PROVE IInv'
  <1>1. CASE UNCHANGED vars
    <2>1. Typed'
      BY <1>1 DEF IInv, vars, Typed
    <2> QED BY <1>1, <2>1 DEF IInv, vars, SessionsCounted, Leased, LockInv, RegisteredInv, RunningInv,
                              NumbersInv, HandlesInv, At
  <1>2. ASSUME NEW h \in Hosts,
               Create(h) \/ Acquire(h) \/ Deactivate(h) \/ Release(h) \/ HostStep(h)
        PROVE IInv'
    BY <1>2, HostKeeps, AcquireKeeps, DecrementKeeps, BeginStopKeeps, SignalKeeps, ResetKeeps DEF HostStep
  <1>3. ASSUME NEW k \in Workers, WorkerStep(k)
        PROVE IInv'
    BY <1>3, WorkerKeeps
  <1> QED BY <1>1, <1>2, <1>3 DEF Next

(* The invariant holds throughout. *)
LEMMA Invariant == Spec => []IInv
  <1>1. Init => IInv
    BY InitInv
  <1>2. IInv /\ [Next]_vars => IInv'
    BY NextInv
  <1> QED BY <1>1, <1>2, PTL DEF Spec

(* Every variable has its type, and no more sessions are counted than      *)
(* there are hosts.                                                        *)
THEOREM Types == Spec => []TypeOK
  <1>1. IInv => TypeOK
    BY CountOfLeases DEF IInv, Typed, TypeOK
  <1> QED BY <1>1, Invariant, PTL

(* The count that decides when the worker starts and stops is the number   *)
(* of leases, however starts fail and calls interleave.                    *)
THEOREM CountIsRight == Spec => []SessionsCounted
  <1>1. IInv => SessionsCounted
    BY DEF IInv
  <1> QED BY <1>1, Invariant, PTL

(* A tick finds no pointer to a service its host has released.             *)
THEOREM PointersAreGood == Spec => []RegisteredIsOwned
  <1>1. IInv => RegisteredIsOwned
    BY DEF IInv, RegisteredInv, RegisteredIsOwned, Owned, At
  <1> QED BY <1>1, Invariant, PTL

-----------------------------------------------------------------------------
(* Losing the worker *)

(* What a step may disturb of HasWorker. *)
LEMMA HasWorkerKept ==
  ASSUME HasWorker, UNCHANGED <<idle, worker, signalled>>
  PROVE HasWorker'
  BY DEF HasWorker

(* The worker of a service that runs, with its event unset, does not end.  *)
LEMMA WorkerStays ==
  ASSUME IInv, HasWorker, NEW k \in Workers, WorkerStep(k)
  PROVE HasWorker'
  <1>1. PICK new \in WorkerType : WorkerWent(k, new)
    BY WorkerStepIs DEF IInv
  <1>2. worker' = [worker EXCEPT ![k] = new] /\ UNCHANGED <<idle, signalled>>
    BY <1>1 DEF WorkerWent
  <1>3. idle.thread \in Workers
    BY HostsAssumption DEF IInv, Typed, IdleType, Handles, Workers, NoHandle, HasWorker
  <1>4. worker'[idle.thread].pc # "dead"
    <2>1. CASE idle.thread = k
      <3>1. worker'[k] = new
        BY <1>2 DEF IInv, Typed
      <3>2. /\ idle.stopEvent = idle.thread
            /\ worker[k].pc \in Captured => worker[k].stopEvent = idle.thread
        BY <2>1 DEF IInv, HandlesInv, HasWorker
      <3>3. new.pc # "dead"
        BY <1>1, <2>1, <3>2 DEF WorkerWent, HasWorker, Captured
      <3> QED BY <2>1, <3>1, <3>3
    <2>2. CASE idle.thread # k
      BY <1>2, <1>3, <2>2 DEF IInv, Typed, HasWorker
    <2> QED BY <2>1, <2>2
  <1> QED BY <1>2, <1>4 DEF HasWorker

(* With nobody in stop(), whoever acquires a session has a worker. *)
LEMMA AcquiredHasWorker ==
  ASSUME IInv, SessionHasWorker, \A g \in Hosts : ~InStop(g), NEW h \in Hosts, Acquire(h)
  PROVE SessionHasWorker'
  <1>1. CASE sessions > 0 /\ UNCHANGED <<idle, starts, worker>>
    <2>1. HasWorker
      BY <1>1, CountOfLeases DEF IInv, SessionHasWorker
    <2> QED BY <1>1, <2>1, HasWorkerKept DEF Acquire, SessionHasWorker
  <1>2. CASE ~(sessions > 0) /\ idle.running
    <2>1. sessions = 0
      BY <1>2 DEF IInv, Typed
    <2>2. PICK g \in Hosts : At(g, "unlocking") \/ At(g, "stopping")
      BY <1>2, <2>1 DEF IInv, RunningInv
    <2>3. At(g, "unlocking")
      BY <2>2 DEF InStop, At
    <2> QED BY <2>3, HostsAssumption DEF IInv, LockInv, Acquire
  <1>3. CASE Start
    <2>1. idle'.thread # NoHandle /\ idle'.stopEvent # NoHandle /\ idle'.stopEvent \notin signalled'
          /\ idle'.running /\ idle'.onTick /\ worker'[idle'.thread].pc = "checking"
      BY <1>3, Started DEF IInv, Acquire
    <2> QED BY <2>1 DEF SessionHasWorker, HasWorker
  <1>4. CASE sessions = 0 /\ UNCHANGED <<sessions, host>>
    <2>1. \A g \in Hosts : ~Leased(g)
      BY <1>4, CountOfLeases DEF IInv
    <2> QED BY <1>4, <2>1 DEF SessionHasWorker, Leased
  <1> QED BY <1>1, <1>2, <1>3, <1>4 DEF Acquire

(* A step that leaves the worker alone and takes no lease. *)
LEMMA NoLeaseTaken ==
  ASSUME IInv, SessionHasWorker, NEW h \in Hosts,
         \/ Create(h) \/ Register(h) \/ Deactivate(h) \/ Decrement(h) \/ Unlock(h) \/ Release(h)
  PROVE SessionHasWorker'
  <1>1. UNCHANGED <<idle, worker, signalled>>
    BY DEF Create, Register, Deactivate, Decrement, Unlock, Release
  <1>2. PICK pc \in HostPCs :
          Go(h, pc) /\ (pc \in {"registering", "active", "releasing"} => Leased(h))
    <2>1. CASE Create(h)
      BY <2>1 DEF Create, HostPCs
    <2>2. CASE Register(h)
      BY <2>2 DEF Register, HostPCs, Leased, At
    <2>3. CASE Deactivate(h)
      BY <2>3 DEF Deactivate, HostPCs, Leased, At
    <2>4. CASE Decrement(h)
      BY <2>4 DEF Decrement, HostPCs
    <2>5. CASE Unlock(h)
      BY <2>5 DEF Unlock, HostPCs
    <2>6. CASE Release(h)
      BY <2>6 DEF Release, HostPCs
    <2> QED BY <2>1, <2>2, <2>3, <2>4, <2>5, <2>6
  <1>3. host'[h].pc = pc /\ \A g \in Hosts \ {h} : host'[g] = host[g]
    BY <1>2, Went DEF IInv
  <1>4. ASSUME NEW g \in Hosts, Leased(g)'
        PROVE \E f \in Hosts : Leased(f)
    <2>1. CASE g = h
      BY <1>2, <1>3, <1>4, <2>1 DEF Leased
    <2>2. CASE g # h
      BY <1>3, <1>4, <2>2 DEF Leased
    <2> QED BY <2>1, <2>2
  <1>5. HasWorker => HasWorker'
    BY <1>1, HasWorkerKept
  <1> QED BY <1>4, <1>5 DEF SessionHasWorker

(* Nobody who is in stop() has a lease, or takes one by his next step. *)
LEMMA InStopStays ==
  ASSUME Typed, NEW h \in Hosts, InStop(h), [Next]_vars
  PROVE ~Leased(h) /\ ~Leased(h)'
  <1>1. ~Leased(h)
    BY DEF InStop, Leased
  <1>2. CASE UNCHANGED host
    BY <1>1, <1>2 DEF Leased
  <1>3. ASSUME NEW g \in Hosts, g # h,
               Create(g) \/ Acquire(g) \/ Deactivate(g) \/ Release(g) \/ HostStep(g)
        PROVE host'[h] = host[h]
    BY <1>3 DEF Typed, Create, Acquire, Deactivate, Release, HostStep, Register, Decrement, Unlock,
                BeginStop, Signal, BeginJoin, Joined, Reset, Go
  <1>4. CASE Create(h) \/ Acquire(h) \/ Deactivate(h) \/ Release(h) \/ HostStep(h)
    <2>1. BeginStop(h) \/ Signal(h) \/ BeginJoin(h) \/ Joined(h) \/ Reset(h)
      BY <1>4 DEF InStop, HostStep, Create, Acquire, Deactivate, Release, Register, Decrement, Unlock, At
    <2>2. host'[h].pc \in {"signalling", "inactive", "waiting", "joining", "resetting"}
      <3>1. host[h] \in HostType
        BY DEF Typed
      <3>2. CASE BeginStop(h)
        <4>1. CASE idle.running
          BY <3>2, <4>1 DEF Typed, BeginStop
        <4>2. CASE ~idle.running
          <5>1. host'[h] = [host[h] EXCEPT !.pc = "inactive"]
            BY <3>2, <4>2 DEF Typed, BeginStop
          <5> QED BY <3>1, <5>1 DEF HostType
        <4> QED BY <4>1, <4>2
      <3>3. CASE Signal(h)
        BY <3>3, Went DEF Signal, HostPCs
      <3>4. CASE BeginJoin(h)
        BY <3>4, Went DEF BeginJoin, HostPCs
      <3>5. CASE Joined(h)
        BY <3>5, Went DEF Joined, HostPCs
      <3>6. CASE Reset(h)
        BY <3>6 DEF Typed, Reset
      <3> QED BY <2>1, <3>2, <3>3, <3>4, <3>5, <3>6
    <2> QED BY <1>1, <2>2 DEF Leased
  <1>5. ASSUME NEW k \in Workers, WorkerStep(k)
        PROVE UNCHANGED host
    BY <1>5, WorkerStepIs DEF WorkerWent
  <1> QED BY <1>1, <1>2, <1>3, <1>4, <1>5 DEF Next, vars, Leased

(* Unless somebody is in stop(), no step takes a session's worker away. *)
LEMMA WorkerIsKept ==
  ASSUME IInv, [Next]_vars, SessionHasWorker, \A g \in Hosts : ~InStop(g)
  PROVE SessionHasWorker'
  <1>1. CASE UNCHANGED vars
    BY <1>1 DEF vars, SessionHasWorker, HasWorker, Leased
  <1>2. ASSUME NEW h \in Hosts,
               Create(h) \/ Acquire(h) \/ Deactivate(h) \/ Release(h) \/ HostStep(h)
        PROVE SessionHasWorker'
    <2>1. ~(BeginStop(h) \/ Signal(h) \/ BeginJoin(h) \/ Joined(h) \/ Reset(h))
      BY DEF InStop, BeginStop, Signal, BeginJoin, Joined, Reset, At
    <2> QED BY <1>2, <2>1, NoLeaseTaken, AcquiredHasWorker DEF HostStep
  <1>3. ASSUME NEW k \in Workers, WorkerStep(k)
        PROVE SessionHasWorker'
    <2>1. UNCHANGED host
      BY <1>3, WorkerStepIs DEF IInv, WorkerWent
    <2>2. HasWorker => HasWorker'
      BY <1>3, WorkerStays
    <2> QED BY <2>1, <2>2 DEF SessionHasWorker, Leased
  <1> QED BY <1>1, <1>2, <1>3 DEF Next

(* Whatever the hosts do, a session loses its worker only while another    *)
(* call of stop() has not returned.                                        *)
THEOREM WorkersAreLostToStops == Spec => OnlyRacingStopLosesWorker
  <1>1. IInv /\ [Next]_vars =>
          [SessionHasWorker /\ ~SessionHasWorker' => \E h \in Hosts : InStop(h)]_vars
    BY WorkerIsKept
  <1> QED BY <1>1, Invariant, PTL DEF Spec, OnlyRacingStopLosesWorker

-----------------------------------------------------------------------------
(* One host *)

(* A single host that is in stop() has no lease left that could miss its   *)
(* worker.                                                                 *)
THEOREM AloneASessionHasItsWorker ==
  ASSUME NEW h \in Hosts, Hosts = {h}
  PROVE Spec => []SessionHasWorker
  <1>1. Init => SessionHasWorker
    BY DEF Init, SessionHasWorker, Leased
  <1>2. IInv /\ SessionHasWorker /\ [Next]_vars => SessionHasWorker'
    <2>1. SUFFICES ASSUME IInv, SessionHasWorker, [Next]_vars PROVE SessionHasWorker'
      OBVIOUS
    <2>2. CASE InStop(h)
      BY <2>1, <2>2, InStopStays DEF IInv, SessionHasWorker
    <2>3. CASE ~InStop(h)
      BY <2>1, <2>3, WorkerIsKept
    <2> QED BY <2>2, <2>3
  <1> QED BY <1>1, <1>2, Invariant, PTL DEF Spec

(* Where a single host h is tells what it left behind: the worker that     *)
(* lives is the service's, the host has it until it stops, holds its       *)
(* handle while it stops, and has seen it end when it has stopped.         *)
Lives(k) == worker[k].pc \notin {"unborn", "dead"}
Serving == {"registering", "active", "releasing", "unlocking", "stopping"}
Stopping == {"signalling", "waiting", "joining"}
Gone == {"absent", "inactive", "resetting"}

OnlyWorkerInv == \A k \in Workers : Lives(k) => k = idle.thread
EndInv(h) ==
  /\ host[h].pc \in Serving => idle.running /\ idle.thread # NoHandle
  /\ host[h].pc \in Stopping => host[h].thread = idle.thread /\ idle.thread # NoHandle
  /\ host[h].pc \in Gone => \A k \in Workers : ~Lives(k)
AloneInv(h) == IInv /\ OnlyWorkerInv /\ EndInv(h)

(* The invariant of a single host, kept by its own steps. *)
LEMMA AloneHostKeeps ==
  ASSUME NEW h \in Hosts, Hosts = {h}, AloneInv(h),
         Create(h) \/ Acquire(h) \/ Deactivate(h) \/ Release(h) \/ HostStep(h)
  PROVE (OnlyWorkerInv /\ EndInv(h))'
  <1>1. host[h] \in HostType /\ IInv /\ Typed
    BY DEF AloneInv, IInv, Typed
  <1>2. CASE UNCHANGED <<idle, worker>> /\ \E pc \in HostPCs :
               /\ Go(h, pc)
               /\ pc \in Serving => host[h].pc \in Serving
               /\ pc \in Stopping => host[h].pc \in Stopping
               /\ pc \in Gone => \A k \in Workers : ~Lives(k)
    <2>1. PICK pc \in HostPCs : Go(h, pc) /\ (pc \in Serving => host[h].pc \in Serving)
                                 /\ (pc \in Stopping => host[h].pc \in Stopping)
                                 /\ (pc \in Gone => \A k \in Workers : ~Lives(k))
      BY <1>2
    <2>2. host'[h].pc = pc /\ host'[h].thread = host[h].thread
      BY <1>1, <2>1, Went
    <2>3. OnlyWorkerInv'
      BY <1>2 DEF AloneInv, OnlyWorkerInv, Lives
    <2>4. EndInv(h)'
      BY <1>2, <2>1, <2>2 DEF AloneInv, EndInv, Lives
    <2> QED BY <2>3, <2>4
  <1>3. CASE Create(h) \/ Release(h)
    <2>1. \A k \in Workers : ~Lives(k)
      BY <1>3 DEF AloneInv, EndInv, Gone, Create, Release, At
    <2> QED BY <1>2, <1>3, <2>1 DEF Create, Release, HostPCs, Serving, Stopping
  <1>4. CASE Register(h) \/ Deactivate(h) \/ Decrement(h)
    <2>1. host[h].pc \in Serving /\ UNCHANGED <<idle, worker>>
      BY <1>4 DEF Register, Deactivate, Decrement, At, Serving
    <2>2. Go(h, "active") \/ Go(h, "releasing") \/ Go(h, "unlocking")
      BY <1>4 DEF Register, Deactivate, Decrement
    <2> QED BY <1>2, <2>1, <2>2 DEF HostPCs, Serving, Stopping, Gone
  <1>5. CASE Unlock(h)
    <2>1. ~Leased(h) /\ At(h, "unlocking") /\ UNCHANGED <<idle, worker>>
      BY <1>5 DEF Unlock, Leased, At
    <2>2. sessions = 0
      BY <1>1, <2>1, CountOfLeases DEF IInv, Typed
    <2>3. Go(h, "stopping")
      BY <1>5, <2>2 DEF Unlock
    <2> QED BY <1>2, <2>1, <2>3 DEF HostPCs, Serving, Stopping, Gone, At
  <1>6. CASE Acquire(h)
    <2>1. At(h, "inactive") /\ \A k \in Workers : ~Lives(k)
      BY <1>6 DEF AloneInv, EndInv, Gone, Acquire, At
    <2>2. sessions = 0
      BY <1>1, <2>1, CountOfLeases DEF IInv, Typed, Leased, At
    <2>3. ~idle.running
      BY <1>1, <2>1, <2>2 DEF IInv, RunningInv, At
    <2>4. CASE Start /\ Go(h, "registering")
      <3>1. host'[h].pc = "registering"
        BY <1>1, <2>4, Went DEF HostPCs
      <3>2. /\ idle'.thread = starts' /\ idle'.running /\ starts' # NoHandle
            /\ \A k \in Workers \ {starts'} : worker'[k] = worker[k]
        BY <1>1, <2>4, Started DEF IInv
      <3>3. OnlyWorkerInv'
        BY <2>1, <3>2 DEF OnlyWorkerInv, Lives
      <3>4. EndInv(h)'
        BY <3>1, <3>2 DEF EndInv, Serving, Stopping, Gone
      <3> QED BY <3>3, <3>4
    <2>5. CASE UNCHANGED <<host, worker>>
      BY <2>1, <2>5 DEF OnlyWorkerInv, EndInv, Lives, At, Serving, Stopping, Gone
    <2> QED BY <1>6, <2>2, <2>3, <2>4, <2>5 DEF Acquire, StartFails
  <1>7. CASE BeginStop(h)
    <2>1. idle.running /\ idle.thread # NoHandle
      BY <1>7 DEF AloneInv, EndInv, Serving, BeginStop, At
    <2>2. host'[h].pc = "signalling" /\ host'[h].thread = idle.thread /\ UNCHANGED worker
      BY <1>1, <1>7, <2>1 DEF BeginStop, Typed
    <2>3. idle'.thread = idle.thread
      BY <1>1, <1>7 DEF BeginStop, Typed, IdleType
    <2>4. OnlyWorkerInv'
      BY <2>2, <2>3 DEF AloneInv, OnlyWorkerInv, Lives
    <2> QED BY <2>1, <2>2, <2>3, <2>4 DEF EndInv, Serving, Stopping, Gone
  <1>8. CASE Signal(h)
    BY <1>2, <1>8 DEF Signal, At, HostPCs, Serving, Stopping, Gone
  <1>9. CASE BeginJoin(h)
    <2>1. At(h, "waiting") /\ host[h].thread = idle.thread /\ idle.thread # NoHandle
      BY <1>9 DEF AloneInv, EndInv, Stopping, BeginJoin, At
    <2>2. Go(h, "joining")
      BY <1>9, <2>1 DEF BeginJoin, IsOpen
    <2> QED BY <1>2, <1>9, <2>1, <2>2 DEF BeginJoin, At, HostPCs, Serving, Stopping, Gone
  <1>10. CASE Joined(h)
    <2>1. host[h].thread = idle.thread
      BY <1>10 DEF AloneInv, EndInv, Stopping, Joined, At
    <2>2. \A k \in Workers : ~Lives(k)
      BY <1>10, <2>1 DEF AloneInv, OnlyWorkerInv, Lives, Joined, IsAt
    <2> QED BY <1>2, <1>10, <2>2 DEF Joined, HostPCs, Serving, Stopping
  <1>11. CASE Reset(h)
    <2>1. host'[h].pc = "inactive" /\ UNCHANGED worker
      BY <1>1, <1>11, ResetKeeps DEF Reset
    <2>2. \A k \in Workers : ~Lives(k)
      BY <1>11 DEF AloneInv, EndInv, Gone, Reset, At
    <2> QED BY <2>1, <2>2 DEF OnlyWorkerInv, EndInv, Lives, Serving, Stopping, Gone
  <1> QED BY <1>3, <1>4, <1>5, <1>6, <1>7, <1>8, <1>9, <1>10, <1>11 DEF HostStep

(* A worker's step makes no worker live. *)
LEMMA AloneWorkerKeeps ==
  ASSUME NEW h \in Hosts, AloneInv(h), NEW k \in Workers, WorkerStep(k)
  PROVE (OnlyWorkerInv /\ EndInv(h))'
  <1>1. PICK new \in WorkerType : WorkerWent(k, new)
    BY WorkerStepIs DEF AloneInv, IInv
  <1>2. worker' = [worker EXCEPT ![k] = new] /\ UNCHANGED <<idle, host>> /\ Lives(k)
    BY <1>1 DEF WorkerWent, Lives
  <1>3. \A j \in Workers : Lives(j)' => Lives(j)
    BY <1>2 DEF Lives, AloneInv, IInv, Typed
  <1> QED BY <1>2, <1>3 DEF AloneInv, OnlyWorkerInv, EndInv

(* With one host nothing of this code runs any more when the DLL may be    *)
(* unloaded.                                                               *)
THEOREM AloneUnloadingIsSafe ==
  ASSUME NEW h \in Hosts, Hosts = {h}
  PROVE Spec => []UnloadSafe
  <1>1. Init => AloneInv(h)
    BY InitInv DEF Init, AloneInv, OnlyWorkerInv, EndInv, Lives, Serving, Stopping, Gone
  <1>2. AloneInv(h) /\ [Next]_vars => AloneInv(h)'
    <2>1. SUFFICES ASSUME AloneInv(h), [Next]_vars PROVE AloneInv(h)'
      OBVIOUS
    <2>2. IInv'
      BY <2>1, NextInv DEF AloneInv
    <2>3. (OnlyWorkerInv /\ EndInv(h))'
      <3>1. CASE UNCHANGED vars
        BY <2>1, <3>1 DEF AloneInv, OnlyWorkerInv, EndInv, Lives, vars
      <3>2. CASE Create(h) \/ Acquire(h) \/ Deactivate(h) \/ Release(h) \/ HostStep(h)
        BY <2>1, <3>2, AloneHostKeeps
      <3>3. ASSUME NEW k \in Workers, WorkerStep(k)
            PROVE (OnlyWorkerInv /\ EndInv(h))'
        BY <2>1, <3>3, AloneWorkerKeeps
      <3> QED BY <2>1, <3>1, <3>2, <3>3 DEF Next
    <2> QED BY <2>2, <2>3 DEF AloneInv
  <1>3. AloneInv(h) => UnloadSafe
    BY DEF AloneInv, EndInv, Gone, Lives, UnloadSafe, CanUnloadNow, Alive, Owned, At
  <1> QED BY <1>1, <1>2, <1>3, PTL DEF Spec
=============================================================================
