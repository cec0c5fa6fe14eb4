------------------------------ MODULE IdleModule ------------------------------
(***************************************************************************)
(* ModuleState and IdleService: the sessions of a process share one worker *)
(* thread that lets every active text service flush its dictionary when    *)
(* nobody types.                                                           *)
(*                                                                         *)
(* A host is a thread of the application, with the one text service it     *)
(* creates, activates, deactivates and releases.  A step is one region     *)
(* under a lock, one access to the atomic `running`, or one system call.   *)
(* The n-th successful start() makes event n and worker n; a handle is the *)
(* number of what it names, and is open only while the IdleService holds   *)
(* it.  A wait that has begun goes on after its handle is closed.          *)
(***************************************************************************)
EXTENDS Naturals, FiniteSets

CONSTANTS
  Hosts,       \* threads with a text service each
  MaxStarts,   \* bound on the number of workers ever started
  Free         \* ModuleState::mutex when nobody holds it

ASSUME HostsAssumption == IsFiniteSet(Hosts) /\ MaxStarts \in Nat /\ Free \notin Hosts

NoHandle == 0
Workers == 1 .. MaxStarts
Handles == 0 .. MaxStarts

VARIABLES
  mutex,      \* ModuleState::mutex, while a host holds it between two steps
  sessions,   \* activeSessions
  registered, \* registeredTextServices: plain pointers
  idle,       \* the members of IdleService
  starts,     \* how many workers were ever started
  signalled,  \* events that are set
  host,       \* where each host is, and the handles it took in stop()
  worker      \* where each worker is, with what run() and the tick captured

vars == <<mutex, sessions, registered, idle, starts, signalled, host, worker>>

HostPCs == {"absent", "inactive", "registering", "active", "releasing", "unlocking",
            "stopping", "signalling", "waiting", "joining", "resetting"}
WorkerPCs == {"unborn", "checking", "capturing", "ticking", "serving", "dropping",
              "looking", "arming", "waiting", "dead"}

Init ==
  /\ mutex = Free /\ sessions = 0 /\ registered = {}
  /\ idle = [running |-> FALSE, onTick |-> FALSE, stopEvent |-> NoHandle, thread |-> NoHandle]
  /\ starts = 0 /\ signalled = {}
  /\ host = [h \in Hosts |-> [pc |-> "absent", thread |-> NoHandle, stopEvent |-> NoHandle]]
  /\ worker = [k \in Workers |->
                 [pc |-> "unborn", stopEvent |-> NoHandle, held |-> {}]]

At(h, pc) == host[h].pc = pc
Go(h, pc) == host' = [host EXCEPT ![h].pc = pc]
IsAt(k, pc) == worker[k].pc = pc
Step(k, pc) == worker' = [worker EXCEPT ![k].pc = pc]
Dead == [pc |-> "dead", stopEvent |-> NoHandle, held |-> {}]
StepUnless(over, k, pc) ==
  IF over THEN worker' = [worker EXCEPT ![k] = Dead] ELSE Step(k, pc)

Held(s) == \E k \in Workers : s \in worker[k].held
(* A service lives while its host or a tick holds a reference to it.       *)
Owned(h) == ~At(h, "absent")
Alive(s) == Owned(s) \/ Held(s)
IsOpen(handle, current) == handle # NoHandle /\ handle = current

-----------------------------------------------------------------------------
(* A host and its text service *)

Create(h) ==
  /\ At(h, "absent") /\ ~Held(h) /\ mutex = Free
  /\ Go(h, "inactive")
  /\ UNCHANGED <<mutex, sessions, registered, idle, starts, signalled, worker>>

(* IdleService::start with no worker running. *)
Start ==
  /\ starts < MaxStarts
  /\ starts' = starts + 1
  /\ idle' = [running |-> TRUE, onTick |-> TRUE, stopEvent |-> starts', thread |-> starts']
  /\ worker' = [worker EXCEPT ![starts'].pc = "checking"]

(* CreateEventW or CreateThread has failed. *)
StartFails ==
  /\ \/ idle' = [idle EXCEPT !.stopEvent = NoHandle]
     \/ idle' = [idle EXCEPT !.stopEvent = NoHandle, !.thread = NoHandle, !.onTick = FALSE]
  /\ UNCHANGED <<starts, worker>>

AcquireCountingFailures(h) ==                                      \* mutant
  /\ At(h, "inactive") /\ mutex = Free
  /\ sessions' = sessions + 1
  /\ \/ (sessions > 0 \/ idle.running) /\ UNCHANGED <<idle, starts, worker>> /\ Go(h, "registering")
     \/ sessions = 0 /\ ~idle.running /\ Start /\ Go(h, "registering")
     \/ sessions = 0 /\ ~idle.running /\ StartFails /\ UNCHANGED host
  /\ UNCHANGED <<mutex, registered, signalled>>
(* Activate, as far as tryAcquireSession: the first session starts the     *)
(* worker, and takes one that is still running for its own.                *)
Acquire(h) ==
  /\ At(h, "inactive") /\ mutex = Free
  /\ \/ /\ sessions > 0 \/ idle.running
        /\ sessions' = sessions + 1 /\ Go(h, "registering")
        /\ UNCHANGED <<idle, starts, worker>>
     \/ /\ sessions = 0 /\ ~idle.running /\ Start
        /\ sessions' = sessions + 1 /\ Go(h, "registering")
     \/ /\ sessions = 0 /\ ~idle.running /\ StartFails
        /\ UNCHANGED <<sessions, host>>
  /\ UNCHANGED <<mutex, registered, signalled>>

Register(h) ==
  /\ At(h, "registering") /\ mutex = Free
  /\ registered' = registered \cup {h} /\ Go(h, "active")
  /\ UNCHANGED <<mutex, sessions, idle, starts, signalled, worker>>

DeactivateRegistered(h) ==                                         \* mutant
  /\ At(h, "active") /\ Go(h, "releasing")
  /\ UNCHANGED <<mutex, sessions, registered, idle, starts, signalled, worker>>
(* Deactivate, called by the host or because a sink could not be advised.  *)
Deactivate(h) ==
  /\ At(h, "active") /\ mutex = Free
  /\ registered' = registered \ {h} /\ Go(h, "releasing")
  /\ UNCHANGED <<mutex, sessions, idle, starts, signalled, worker>>

(* releaseSessionLease counts under the lock and stops without it.         *)
Decrement(h) ==
  /\ At(h, "releasing") /\ mutex = Free
  /\ mutex' = h /\ Go(h, "unlocking")
  /\ sessions' = IF sessions = 0 THEN 0 ELSE sessions - 1
  /\ UNCHANGED <<registered, idle, starts, signalled, worker>>

UnlockAfterStop(h) ==                                              \* mutant
  /\ At(h, "unlocking")
  /\ IF sessions = 0 THEN Go(h, "stopping") /\ UNCHANGED mutex
     ELSE Go(h, "inactive") /\ mutex' = Free
  /\ UNCHANGED <<sessions, registered, idle, starts, signalled, worker>>
Unlock(h) ==
  /\ At(h, "unlocking")
  /\ mutex' = Free /\ Go(h, IF sessions = 0 THEN "stopping" ELSE "inactive")
  /\ UNCHANGED <<sessions, registered, idle, starts, signalled, worker>>

(* IdleService::stop: take the handles, signal, wait, reset.               *)
BeginStopLoading(h) ==                                             \* mutant
  /\ At(h, "stopping")
  /\ host' = [host EXCEPT ![h] =
       IF idle.running
       THEN [pc |-> "signalling", thread |-> idle.thread, stopEvent |-> idle.stopEvent]
       ELSE [@ EXCEPT !.pc = "inactive"]]
  /\ UNCHANGED <<mutex, sessions, registered, idle, starts, signalled, worker>>
BeginStop(h) ==
  /\ At(h, "stopping")
  /\ idle' = [idle EXCEPT !.running = FALSE]
  /\ host' = [host EXCEPT ![h] =
       IF idle.running
       THEN [pc |-> "signalling", thread |-> idle.thread, stopEvent |-> idle.stopEvent]
       ELSE [@ EXCEPT !.pc = "inactive"]]
  /\ UNCHANGED <<mutex, sessions, registered, starts, signalled, worker>>

Signal(h) ==
  /\ At(h, "signalling") /\ Go(h, "waiting")
  /\ signalled' = IF IsOpen(host[h].stopEvent, idle.stopEvent)
                  THEN signalled \cup {host[h].stopEvent} ELSE signalled
  /\ UNCHANGED <<mutex, sessions, registered, idle, starts, worker>>

SkipJoin(h) ==                                                     \* mutant
  /\ At(h, "waiting") /\ Go(h, "resetting")
  /\ UNCHANGED <<mutex, sessions, registered, idle, starts, signalled, worker>>
BeginJoin(h) ==
  /\ At(h, "waiting")
  /\ Go(h, IF IsOpen(host[h].thread, idle.thread) THEN "joining" ELSE "resetting")
  /\ UNCHANGED <<mutex, sessions, registered, idle, starts, signalled, worker>>

Joined(h) ==
  /\ At(h, "joining") /\ IsAt(host[h].thread, "dead") /\ Go(h, "resetting")
  /\ UNCHANGED <<mutex, sessions, registered, idle, starts, signalled, worker>>

Reset(h) ==
  /\ At(h, "resetting")
  /\ idle' = [idle EXCEPT !.onTick = FALSE, !.stopEvent = NoHandle, !.thread = NoHandle]
  /\ host' = [host EXCEPT ![h] = [pc |-> "inactive", thread |-> NoHandle, stopEvent |-> NoHandle]]
  /\ UNCHANGED <<mutex, sessions, registered, starts, signalled, worker>>

(* The host lets go of a service it has deactivated.  The destructor takes *)
(* the lock to unregister once more.                                       *)
Release(h) ==
  /\ At(h, "inactive") /\ Go(h, "absent")
  /\ Held(h) \/ mutex = Free
  /\ UNCHANGED <<mutex, sessions, registered, idle, starts, signalled, worker>>

-----------------------------------------------------------------------------
(* IdleService::run and the tick, serviceIdleEngines *)

Check(k) ==
  /\ IsAt(k, "checking") /\ StepUnless(~idle.running, k, "capturing")
  /\ UNCHANGED <<mutex, sessions, registered, idle, starts, signalled, host>>

Capture(k) ==
  /\ IsAt(k, "capturing")
  /\ worker' = [worker EXCEPT ![k] =
       [@ EXCEPT !.pc = IF idle.onTick THEN "ticking" ELSE "looking",
                 !.stopEvent = idle.stopEvent]]
  /\ UNCHANGED <<mutex, sessions, registered, idle, starts, signalled, host>>

(* Every registered service is retained, then served, then let go.         *)
Tick(k) ==
  /\ IsAt(k, "ticking") /\ mutex = Free
  /\ worker' = [worker EXCEPT ![k] = [@ EXCEPT !.pc = "serving", !.held = registered]]
  /\ UNCHANGED <<mutex, sessions, registered, idle, starts, signalled, host>>

Serve(k) ==
  /\ IsAt(k, "serving") /\ Step(k, "dropping")
  /\ UNCHANGED <<mutex, sessions, registered, idle, starts, signalled, host>>

IsLastReference(k, s) ==
  ~Owned(s) /\ \A other \in Workers \ {k} : s \notin worker[other].held

Drop(k) ==
  /\ IsAt(k, "dropping")
  /\ IF worker[k].held = {} THEN Step(k, "looking")
     ELSE \E s \in worker[k].held :
            /\ IsLastReference(k, s) => mutex = Free
            /\ worker' = [worker EXCEPT ![k].held = @ \ {s}]
  /\ UNCHANGED <<mutex, sessions, registered, idle, starts, signalled, host>>

Look(k) ==
  /\ IsAt(k, "looking")
  /\ StepUnless(~idle.running \/ worker[k].stopEvent = NoHandle, k, "arming")
  /\ UNCHANGED <<mutex, sessions, registered, idle, starts, signalled, host>>

(* WaitForSingleObject fails at once on a closed handle.                   *)
Arm(k) ==
  /\ IsAt(k, "arming")
  /\ Step(k, IF IsOpen(worker[k].stopEvent, idle.stopEvent) THEN "waiting" ELSE "checking")
  /\ UNCHANGED <<mutex, sessions, registered, idle, starts, signalled, host>>

(* Once begun the wait ends with the signal, or after                      *)
(* kIdleServiceIntervalMs.                                                 *)
WakeForGood(k) ==                                                  \* mutant
  /\ IsAt(k, "waiting") /\ StepUnless(TRUE, k, "checking")
  /\ UNCHANGED <<mutex, sessions, registered, idle, starts, signalled, host>>
Wake(k) ==
  /\ IsAt(k, "waiting")
  /\ StepUnless(worker[k].stopEvent \in signalled, k, "checking")
  /\ UNCHANGED <<mutex, sessions, registered, idle, starts, signalled, host>>

-----------------------------------------------------------------------------
HostStep(h) ==
  \/ Register(h) \/ Decrement(h) \/ Unlock(h)
  \/ BeginStop(h) \/ Signal(h) \/ BeginJoin(h) \/ Joined(h) \/ Reset(h)

WorkerStep(k) ==
  \/ Check(k) \/ Capture(k) \/ Tick(k) \/ Serve(k) \/ Drop(k)
  \/ Look(k) \/ Arm(k) \/ Wake(k)

Next ==
  \/ \E h \in Hosts : Create(h) \/ Acquire(h) \/ Deactivate(h) \/ Release(h) \/ HostStep(h)
  \/ \E k \in Workers : WorkerStep(k)

Spec == Init /\ [][Next]_vars

(* Threads are scheduled: a call that has begun goes on, and the worker    *)
(* runs.  Nobody has to create, activate, deactivate or release a service. *)
FairSpec ==
  /\ Spec
  /\ \A h \in Hosts : WF_vars(HostStep(h))
  /\ \A k \in Workers : WF_vars(WorkerStep(k))

(* Moreover every application thread ends its session at last.             *)
ClosingSpec == FairSpec /\ \A h \in Hosts : WF_vars(Deactivate(h))

-----------------------------------------------------------------------------
(* Correctness *)

HostType == [pc : HostPCs, thread : Handles, stopEvent : Handles]
WorkerType == [pc : WorkerPCs, stopEvent : Handles, held : SUBSET Hosts]
IdleType == [running : BOOLEAN, onTick : BOOLEAN, stopEvent : Handles, thread : Handles]

(* Every variable has its type, and there are never more sessions than     *)
(* hosts.                                                                  *)
TypeOK ==
  /\ mutex \in Hosts \cup {Free}
  /\ sessions \in 0 .. Cardinality(Hosts)
  /\ registered \subseteq Hosts
  /\ idle \in IdleType
  /\ starts \in Handles /\ signalled \subseteq Workers
  /\ host \in [Hosts -> HostType]
  /\ worker \in [Workers -> WorkerType]

Leased(h) == host[h].pc \in {"registering", "active", "releasing"}

(* The count that decides when to start and stop the worker is the number  *)
(* of leases, whatever failed.                                             *)
SessionsCounted == sessions = Cardinality({h \in Hosts : Leased(h)})

(* registeredTextServices holds plain pointers: each of them is to a       *)
(* service its host has not released, so that a tick never retains a       *)
(* service that is gone.                                                   *)
RegisteredIsOwned == \A s \in registered : Owned(s)

(* An event and a worker that will look at it are there for every session. *)
HasWorker ==
  /\ idle.running /\ idle.onTick /\ idle.thread # NoHandle
  /\ worker[idle.thread].pc # "dead"
  /\ idle.stopEvent # NoHandle /\ idle.stopEvent \notin signalled
SessionHasWorker == (\E h \in Hosts : Leased(h)) => HasWorker

(* When DllCanUnloadNow says yes, no worker is still running this code.    *)
CanUnloadNow == sessions = 0 /\ \A s \in Hosts : ~Alive(s)
UnloadSafe == CanUnloadNow => \A k \in Workers : worker[k].pc \in {"unborn", "dead"}

(* A session lacks its worker only when another host was still in stop():  *)
(* with the lock open, that call takes away what the session has acquired. *)
InStop(h) ==
  host[h].pc \in {"stopping", "signalling", "waiting", "joining", "resetting"}
OnlyRacingStopLosesWorker ==
  [][SessionHasWorker /\ ~SessionHasWorker' => \E h \in Hosts : InStop(h)]_vars

(* stop() returns: the worker it waits for is neither waiting for it nor   *)
(* kept running for good by a start() that came in between.                *)
StopReturns == \A h \in Hosts : At(h, "joining") ~> At(h, "inactive")

(* A service that stays active has its dictionary flushed.                 *)
SessionIsServed ==
  \A h \in Hosts :
    At(h, "active") ~> ~At(h, "active") \/ \E k \in Workers : IsAt(k, "serving") /\ h \in worker[k].held
=============================================================================
