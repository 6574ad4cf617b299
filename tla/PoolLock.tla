------------------------------ MODULE PoolLock ------------------------------
(***************************************************************************)
(* Who may take a memory pool's lock (memory_pool/locks.c), with the two   *)
(* loops that depend on it: a task boundary that waits, at reservation     *)
(* priority, until enough released ranges have coalesced for a transfer's  *)
(* destination (task_boundaries.c), and the worker's loop that reclaims    *)
(* completed retirements (retirement_queue.c).  Foreground clients are the *)
(* framework threads inside an allocator call.                             *)
(*                                                                         *)
(* The lock is a mutex that is only ever tried; the priorities are two     *)
(* counters read without it.  Each atomic read or write of a counter, and  *)
(* each attempt on the mutex, is a step of its own.  Ranges are counted,   *)
(* not placed: "room" is the number of ranges released so far and the      *)
(* destination needs demand.needed of them.                                *)
(***************************************************************************)
EXTENDS Integers, FiniteSets

CONSTANTS
  Clients,      \* foreground threads
  Records,      \* retirement records
  Demands,      \* what the boundary may meet: [needed, queued, uses]
  MaxCalls,     \* bound: allocator calls of each client
  Nobody, Worker, Boundary, NoRecord

ASSUME DemandsAssumption ==
  \A d \in Demands : d.needed \in Nat /\ d.uses \subseteq d.queued /\ d.queued \subseteq Records
ASSUME MaxCallsAssumption == MaxCalls \in Nat
ASSUME ThreadsAssumption ==
  /\ IsFiniteSet(Clients) /\ {Nobody, Worker, Boundary} \cap Clients = {}
  /\ Nobody # Worker /\ Nobody # Boundary /\ Worker # Boundary
ASSUME RecordsAssumption == IsFiniteSet(Records) /\ NoRecord \notin Records

VARIABLES
  demand,       \* ranges the destination needs, the queued retirements, and
                \* those of them with recorded uses ("requirements"); constant
  lock,         \* pool->lock: its holder
  foreground,   \* pool->foreground_waiters
  reservation,  \* pool->reservation_waiters
  epoch,        \* pool->capacity_epoch
  pending,      \* pool->pending_retirements
  room,         \* released ranges
  promised,     \* records whose range a successor was promised
  client,       \* where each foreground client is
  calls,        \* the calls it has made
  boundary,     \* where the task boundary is
  seen,         \* the epoch the boundary waits to see move
  worker,       \* where the worker is
  record,       \* the record it is handling
  ahead,        \* its reading of reservation_waiters
  queue         \* retirement records still queued

lockVars == <<demand, lock, foreground, reservation, epoch, pending, room, promised,
          client, calls, boundary, seen, worker, record, ahead, queue>>

poolVars == <<epoch, pending, room, promised>>
clientVars == <<client, calls>>
boundaryVars == <<boundary, seen, demand>>
workerVars == <<worker, record, ahead, queue>>

LockInit ==
  /\ demand \in Demands
  /\ lock = Nobody
  /\ foreground = 0
  /\ reservation = 0
  /\ epoch = 0
  /\ pending = Cardinality(demand.queued)
  /\ room = 0
  /\ promised = {}
  /\ client = [c \in Clients |-> "away"]
  /\ calls = [c \in Clients |-> 0]
  /\ boundary = "start"
  /\ seen = 0
  /\ worker = "scan"
  /\ record = NoRecord
  /\ ahead = FALSE
  /\ queue = demand.queued

(***************************************************************************)
(* A foreground client: shadowspill_memory_pool_lock_foreground, the call, *)
(* unlock_foreground.  The counter is read before the mutex is tried.      *)
(***************************************************************************)
ForegroundAsk(c) ==
  /\ client[c] = "away"
  /\ calls[c] < MaxCalls
  /\ calls' = [calls EXCEPT ![c] = @ + 1]
  /\ client' = [client EXCEPT ![c] = "look"]
  /\ foreground' = foreground + 1
  /\ UNCHANGED <<lock, reservation, poolVars, boundaryVars, workerVars>>

ForegroundLook(c) ==
  /\ client[c] = "look"
  /\ reservation = 0
  /\ client' = [client EXCEPT ![c] = "try"]
  /\ UNCHANGED <<calls, lock, foreground, reservation, poolVars, boundaryVars, workerVars>>

ForegroundTry(c) ==
  /\ client[c] = "try"
  /\ IF lock = Nobody
     THEN lock' = c /\ client' = [client EXCEPT ![c] = "locked"]
     ELSE UNCHANGED lock /\ client' = [client EXCEPT ![c] = "look"]
  /\ UNCHANGED <<calls, foreground, reservation, poolVars, boundaryVars, workerVars>>

ForegroundLocked(c) ==
  /\ client[c] = "locked"
  /\ client' = [client EXCEPT ![c] = "inside"]
  /\ foreground' = foreground - 1
  /\ UNCHANGED <<calls, lock, reservation, poolVars, boundaryVars, workerVars>>

\* The call took a released range, or changed nothing that is counted here.
ForegroundUnlock(c) ==
  /\ client[c] = "inside"
  /\ client' = [client EXCEPT ![c] = "away"]
  /\ lock' = Nobody
  /\ \E took \in {0, 1} : room >= took /\ room' = room - took
  /\ UNCHANGED <<calls, foreground, reservation, epoch, pending, promised,
                 boundaryVars, workerVars>>

(***************************************************************************)
(* The task boundary: reserve_action_destination.                          *)
(***************************************************************************)
\* shadowspill_memory_pool_declare_reservation
DeclareReservation ==
  /\ boundary = "start"
  /\ boundary' = "try"
  /\ reservation' = reservation + 1
  /\ UNCHANGED <<lock, foreground, poolVars, clientVars, demand, seen, workerVars>>

\* shadowspill_memory_pool_try_lock_reservation, until it succeeds
TryReservation ==
  /\ boundary = "try"
  /\ lock = Nobody
  /\ lock' = Boundary
  /\ boundary' = "reserve"
  /\ UNCHANGED <<foreground, reservation, poolVars, clientVars, demand, seen, workerVars>>

\* The retirements that have not given their range back yet.
Retiring == queue \cup (IF worker \in {"peek", "mutex", "recheck", "release"}
                       THEN {record} ELSE {})

\* Ranges the pool counts on (can_reserve_after_releases_locked): the retiring
\* leases that have one dependency and no successor; a lease with several uses
\* has no such dependency.
Candidates == Retiring \ (demand.uses \cup promised)
Coming == Cardinality(Candidates)

\* One turn of the loop with the lock held: a free range, the promise of one
\* retiring range that is large enough, a wait, or a refusal.
Reserve ==
  /\ boundary = "reserve"
  /\ lock' = Nobody
  /\ \/ /\ room >= demand.needed
        /\ room' = room - demand.needed
        /\ boundary' = "reserved"
        /\ UNCHANGED <<promised, seen>>
     \/ /\ room < demand.needed
        /\ demand.needed = 1
        /\ \E r \in Candidates : promised' = promised \cup {r}
        /\ boundary' = "reserved"
        /\ UNCHANGED <<room, seen>>
     \/ /\ room < demand.needed
        /\ demand.needed > 1
        /\ room + Coming >= demand.needed
        /\ seen' = epoch
        /\ boundary' = "wait"
        /\ UNCHANGED <<room, promised>>
     \/ /\ room + Coming < demand.needed
        /\ boundary' = "refused"
        /\ UNCHANGED <<room, promised, seen>>
  /\ UNCHANGED <<foreground, reservation, epoch, pending, clientVars, demand, workerVars>>

\* The spin loop ends when the epoch moved or nothing is left to come.
WaitForEpoch ==
  /\ boundary = "wait"
  /\ epoch # seen \/ pending = 0
  /\ boundary' = "try"
  /\ UNCHANGED <<lock, foreground, reservation, poolVars, clientVars, demand, seen, workerVars>>

\* Mutant of Relinquish: a refused boundary keeps its priority.
RelinquishForgotten ==
  /\ boundary \in {"reserved", "refused"}
  /\ reservation' = IF boundary = "refused" THEN reservation ELSE reservation - 1
  /\ boundary' = "end"
  /\ UNCHANGED <<lock, foreground, poolVars, clientVars, demand, seen, workerVars>>

\* shadowspill_memory_pool_relinquish_reservation; a refusal is latched as
\* NO_PROGRESS and ends the boundary.
Relinquish ==
  /\ boundary \in {"reserved", "refused"}
  /\ reservation' = reservation - 1
  /\ boundary' = "end"
  /\ UNCHANGED <<lock, foreground, poolVars, clientVars, demand, seen, workerVars>>

(***************************************************************************)
(* The worker: one completed record of shadowspill_handle_retirements.     *)
(***************************************************************************)

\* shadowspill_memory_pool_try_lock_reclamation reads reservation_waiters ...
ReclaimStart(r) ==
  /\ worker = "scan"
  /\ r \in queue
  /\ queue' = queue \ {r}
  /\ record' = r
  /\ ahead' = (reservation # 0)
  /\ worker' = "peek"
  /\ UNCHANGED <<lock, foreground, reservation, poolVars, clientVars, boundaryVars>>

\* The record goes back to the queue: pool_busy.
Requeue ==
  /\ queue' = queue \cup {record}
  /\ record' = NoRecord
  /\ worker' = "scan"

\* Mutant of ReclaimPeek: reclamation yields to foreground clients even while a
\* reservation waits for it.
ReclaimPeekAlwaysYields ==
  /\ worker = "peek"
  /\ IF foreground # 0 THEN Requeue
     ELSE worker' = "mutex" /\ UNCHANGED <<record, queue>>
  /\ UNCHANGED <<lock, foreground, reservation, poolVars, clientVars, boundaryVars, ahead>>

\* ... then foreground_waiters, unless a reservation waits ...
ReclaimPeek ==
  /\ worker = "peek"
  /\ IF ~ ahead /\ foreground # 0 THEN Requeue
     ELSE worker' = "mutex" /\ UNCHANGED <<record, queue>>
  /\ UNCHANGED <<lock, foreground, reservation, poolVars, clientVars, boundaryVars, ahead>>

\* ... then tries the mutex ...
ReclaimTry ==
  /\ worker = "mutex"
  /\ IF lock = Nobody
     THEN lock' = Worker /\ worker' = "recheck" /\ UNCHANGED <<record, queue>>
     ELSE Requeue /\ UNCHANGED lock
  /\ UNCHANGED <<foreground, reservation, poolVars, clientVars, boundaryVars, ahead>>

\* Mutant of ReclaimRecheck: a record that was backed off from is not queued
\* again.
RecheckDropsRecord ==
  /\ worker = "recheck"
  /\ IF ~ ahead /\ foreground # 0
     THEN worker' = "scan" /\ record' = NoRecord /\ lock' = Nobody /\ UNCHANGED queue
     ELSE worker' = "release" /\ UNCHANGED <<lock, record, queue>>
  /\ UNCHANGED <<foreground, reservation, poolVars, clientVars, boundaryVars, ahead>>

\* ... and reads foreground_waiters again, with the mutex held.
ReclaimRecheck ==
  /\ worker = "recheck"
  /\ IF ~ ahead /\ foreground # 0
     THEN Requeue /\ lock' = Nobody
     ELSE worker' = "release" /\ UNCHANGED <<lock, record, queue>>
  /\ UNCHANGED <<foreground, reservation, poolVars, clientVars, boundaryVars, ahead>>

\* shadowspill_release_lease_locked, unlock_reclamation: the range is freed,
\* or handed to the successor it was promised to
ReclaimRelease ==
  /\ worker = "release"
  /\ room' = IF record \in promised THEN room ELSE room + 1
  /\ epoch' = epoch + 1
  /\ lock' = Nobody
  /\ worker' = "count"
  /\ UNCHANGED <<foreground, reservation, pending, promised, clientVars,
                 boundaryVars, record, ahead, queue>>

\* pending_retirements goes down after the unlock; destroy_retirement_record
\* then returns the use records of a record that has requirements, and takes
\* the lock as a foreground client does.
ReclaimCount ==
  /\ worker = "count"
  /\ pending' = pending - 1
  /\ IF record \in demand.uses
     THEN worker' = "look" /\ foreground' = foreground + 1 /\ UNCHANGED record
     ELSE worker' = "scan" /\ record' = NoRecord /\ UNCHANGED foreground
  /\ UNCHANGED <<lock, reservation, epoch, room, promised, clientVars, boundaryVars, ahead, queue>>

WorkerLook ==
  /\ worker = "look"
  /\ reservation = 0
  /\ worker' = "try"
  /\ UNCHANGED <<lock, foreground, reservation, poolVars, clientVars, boundaryVars,
                 record, ahead, queue>>

WorkerTry ==
  /\ worker = "try"
  /\ IF lock = Nobody
     THEN lock' = Worker /\ worker' = "locked"
     ELSE UNCHANGED lock /\ worker' = "look"
  /\ UNCHANGED <<foreground, reservation, poolVars, clientVars, boundaryVars,
                 record, ahead, queue>>

\* release_use_records_locked, unlock_foreground
WorkerReturn ==
  /\ worker = "locked"
  /\ foreground' = foreground - 1
  /\ lock' = Nobody
  /\ worker' = "scan"
  /\ record' = NoRecord
  /\ UNCHANGED <<reservation, poolVars, clientVars, boundaryVars, ahead, queue>>

-----------------------------------------------------------------------------
ClientStep(c) ==
  \/ ForegroundLook(c)
  \/ ForegroundTry(c)
  \/ ForegroundLocked(c)
  \/ ForegroundUnlock(c)

BoundaryStep ==
  \/ TryReservation
  \/ Reserve
  \/ WaitForEpoch
  \/ Relinquish

WorkerStep ==
  \/ \E r \in Records : ReclaimStart(r)
  \/ ReclaimPeek
  \/ ReclaimTry
  \/ ReclaimRecheck
  \/ ReclaimRelease
  \/ ReclaimCount
  \/ WorkerLook
  \/ WorkerTry
  \/ WorkerReturn

LockNext ==
  \/ \E c \in Clients : ForegroundAsk(c) \/ ClientStep(c)
  \/ DeclareReservation
  \/ BoundaryStep
  \/ WorkerStep

(***************************************************************************)
(* Fairness: every thread that has started a call keeps running (they spin *)
(* and never sleep); weak fairness says no more.  No client is obliged to  *)
(* call the allocator, and no boundary to reserve.                         *)
(***************************************************************************)
LockFairness ==
  /\ \A c \in Clients : WF_lockVars(ClientStep(c))
  /\ WF_lockVars(BoundaryStep)
  /\ WF_lockVars(WorkerStep)

LockSpec == LockInit /\ [][LockNext]_lockVars /\ LockFairness

-----------------------------------------------------------------------------
Threads == Clients \cup {Nobody, Worker, Boundary}

(***************************************************************************)
(* The counters of locks.c never go below zero, and every thread is at one *)
(* of the places its loop has.                                             *)
(***************************************************************************)
LockTypes ==
  /\ demand \in Demands
  /\ lock \in Threads
  /\ foreground \in Nat /\ reservation \in Nat
  /\ epoch \in Nat /\ pending \in Nat /\ room \in Nat /\ seen \in Nat
  /\ calls \in [Clients -> 0..MaxCalls]
  /\ client \in [Clients -> {"away", "look", "try", "locked", "inside"}]
  /\ boundary \in {"start", "try", "reserve", "wait", "reserved", "refused", "end"}
  /\ worker \in {"scan", "peek", "mutex", "recheck", "release", "count",
                 "look", "try", "locked"}
  /\ record \in Records \cup {NoRecord}
  /\ ahead \in BOOLEAN
  /\ queue \subseteq Records
  /\ promised \subseteq Records

(***************************************************************************)
(* "Several completed predecessors may need to coalesce before this        *)
(* destination has one compatible range": a boundary that waits for them   *)
(* comes to an answer, and gives its priority back.                        *)
(***************************************************************************)
ReservationSettles == reservation > 0 ~> reservation = 0

(***************************************************************************)
(* An allocator call that waits behind reservations and reclamations is    *)
(* served in the end.                                                      *)
(***************************************************************************)
ClientsServed ==
  \A c \in Clients : client[c] = "look" ~> client[c] = "inside"

(***************************************************************************)
(* Every completed retirement is reclaimed in the end, whatever the worker *)
(* had to give way to: no order of declarations, waits and calls leaves    *)
(* everyone waiting for someone else.                                      *)
(***************************************************************************)
AllReclaimed == <>[](pending = 0 /\ record = NoRecord)
=============================================================================
