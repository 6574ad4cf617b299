----------------------------- MODULE Retirement -----------------------------
(***************************************************************************)
(* The life of one allocation of a memory pool: allocated by a framework   *)
(* thread, used by device streams, freed, retired behind completion events *)
(* and reclaimed by the worker, recycled in place, or handed to a promised *)
(* successor (allocations/allocate.c, free.c, reuse.c, retirement_queue.c, *)
(* the task scope's retirement list, and the pool's causal hand-off).      *)
(*                                                                         *)
(* The pool is cut into ranges of one size, the blocks: where ranges start *)
(* and how they split is the business of RangeAllocator and LeasePool; who *)
(* may take the pool's lock that of PoolLock.  A critical section of the   *)
(* lock is one action here.  A stream is a sequence of submitted work of   *)
(* which a prefix is done; an event is a position in a stream.             *)
(***************************************************************************)
EXTENDS Integers, Sequences, FiniteSets

CONSTANTS
  Leases,           \* lease records, numbered
  Streams,          \* device streams
  Threads,          \* framework threads
  TaskStream,       \* the compute stream of a task
  Lane,             \* the stream of the transfers that fill destinations
  Setups,           \* the pools and their users this instance is about
  None

\* blocks        the ranges, in address order
\* threads       the threads that call, and taskers, those that run tasks
\* streams       what they allocate for, and taskStreams, what a task
\*               allocates and frees for, and joins
\* destinations  bound: destinations a boundary reserves
\* acquires      a transfer may start before its range was reclaimed
\* mayFail       recording an event may fail
\* generations   bound: allocations
\* work          bound: work submitted to each stream
Setup == [blocks : SUBSET Nat, threads : SUBSET Threads, taskers : SUBSET Threads,
          streams : SUBSET Streams, taskStreams : SUBSET Streams,
          destinations : Nat, acquires : BOOLEAN, mayFail : BOOLEAN,
          generations : Nat, work : Nat]

ASSUME LeasesAssumption == Leases \subseteq Nat /\ IsFiniteSet(Leases)
ASSUME LaneAssumption == {TaskStream, Lane} \subseteq Streams
ASSUME SetupsAssumption ==
  \A s \in Setups : /\ s \in Setup
                     /\ IsFiniteSet(s.blocks) /\ None \notin s.blocks
                     /\ s.taskers \subseteq s.threads
                     /\ TaskStream \in s.taskStreams /\ Lane \notin s.streams
                     /\ s.taskStreams \subseteq s.streams

ASSUME NoneAssumption == None \notin Leases \cup Threads \cup Streams

VARIABLES
  setup,        \* the pool and its users: chosen once
  lease,        \* the lease records
  queue,        \* runtime->retirements: [lease, generation, events]
  owed,         \* reclaimed, not yet taken off pending_retirements
  pending,      \* pool->pending_retirements
  generation,   \* runtime->next_generation
  reserved,     \* destinations reserved so far
  thread,       \* where each framework thread is
  scope,        \* the threads inside a task scope
  moved,        \* the waiting threads whose capacity_epoch is out of date
  failed,       \* runtime failure latched
  work,         \* what was submitted to each stream
  done          \* how much of it is complete

vars == <<setup, lease, queue, owed, pending, generation, reserved, thread, scope, moved,
          failed, work, done>>

\* The device, and what never changes.
device == <<work, done, setup>>


\* A record of the free list; the phase of a retirement says what protects it:
\* "local"      a task-local free whose event is not recorded yet
\* "preparing"  retirement_preparing: events are recorded outside the lock
\* "event"      retirement_event, one event of the task
\* "uses"       retirement_requirements, one event for each recorded use
\* "lost"       recording failed
FreeRecord ==
  [state |-> "FREE", block |-> None, generation |-> 0, home |-> None, uses |-> {},
   phase |-> "none", events |-> {}, task |-> None, linked |-> None, enqueued |-> 0,
   successor |-> None, predecessor |-> None, planned |-> FALSE]

At(place) == [at |-> place, stream |-> None, lease |-> None]
Idle == At("idle")

Init ==
  /\ setup \in Setups
  /\ lease = [l \in Leases |-> FreeRecord]
  /\ queue = {}
  /\ owed = {}
  /\ pending = 0
  /\ generation = 1
  /\ reserved = 0
  /\ thread = [t \in Threads |-> Idle]
  /\ scope = {}
  /\ moved = {}
  /\ failed = FALSE
  /\ work = [s \in Streams |-> <<>>]
  /\ done = [s \in Streams |-> 0]

-----------------------------------------------------------------------------
(***************************************************************************)
(* The device.                                                             *)
(***************************************************************************)
Now(s) == [stream |-> s, at |-> Len(work[s])]
Reached(events) == \A e \in events : done[e.stream] >= e.at

\* Work on a lease's range, behind the events it waits for.
Submitted(s, l, needs) ==
  [work EXCEPT ![s] = Append(@, [block |-> lease[l].block,
                                 generation |-> lease[l].generation,
                                 needs |-> needs])]

Complete(s) ==
  /\ done[s] < Len(work[s])
  /\ Reached(work[s][done[s] + 1].needs)
  /\ done' = [done EXCEPT ![s] = @ + 1]
  /\ UNCHANGED <<lease, queue, owed, pending, generation, reserved, thread, scope,
                 moved, failed, work, setup>>

\* The framework uses an allocation on its own stream and on those it recorded,
\* which it orders behind the allocation's stream.
Use(l, s) ==
  /\ Len(work[s]) < setup.work
  /\ lease[l].state = "IN_USE" /\ ~ lease[l].planned
  /\ s \in lease[l].uses \cup {lease[l].home}
  /\ work' = Submitted(s, l, IF s = lease[l].home THEN {} ELSE {Now(lease[l].home)})
  /\ UNCHANGED <<lease, queue, owed, pending, generation, reserved, thread, scope,
                 moved, failed, done, setup>>

\* Providers join the work of a side stream back to the task's stream.
Join(s) ==
  /\ s \in setup.taskStreams \ {TaskStream}
  /\ Len(work[TaskStream]) < setup.work
  /\ Len(work[s]) > 0
  /\ work' = [work EXCEPT ![TaskStream] =
                Append(@, [block |-> None, generation |-> 0, needs |-> {Now(s)}])]
  /\ UNCHANGED <<lease, queue, owed, pending, generation, reserved, thread, scope,
                 moved, failed, done, setup>>

Joined(s) ==
  \/ work[s] = <<>>
  \/ \E i \in DOMAIN work[TaskStream] : Now(s) \in work[TaskStream][i].needs

-----------------------------------------------------------------------------
(***************************************************************************)
(* Lease records.                                                          *)
(***************************************************************************)
OwnsRange(l) == lease[l].state \notin {"FREE", "SUCCESSOR_RESERVED", "TRANSFERRED"}
FreeBlocks == setup.blocks \ {lease[l].block : l \in {m \in Leases : OwnsRange(m)}}

\* memory_lease_record_is_recyclable: no list, no queued record and no
\* reference holds the record.
Recyclable ==
  {l \in Leases : /\ lease[l].state = "FREE"
                  /\ lease[l].linked = None
                  /\ \A r \in queue \cup owed : r.lease # l}

\* shadowspill_release_lease_locked: the record gives up its range, and stays
\* on the list of the task that freed it.
Emptied(l) == [FreeRecord EXCEPT !.linked = lease[l].linked]

Announce == moved' = {t \in Threads : thread[t].at \in {"publish", "wait"}}

\* shadowspill_pool_handoff_causal_range_locked on release, or the range is free.
Released(l) ==
  LET s == lease[l].successor
  IN  IF s = None THEN [lease EXCEPT ![l] = Emptied(l)]
      ELSE [lease EXCEPT ![l] = Emptied(l),
                         ![s].state = "RESERVED",
                         ![s].predecessor = None]

-----------------------------------------------------------------------------
(***************************************************************************)
(* shadowspill_memory_pool_allocate.                                       *)
(***************************************************************************)
\* A request after a failure only returns its status.
Request(t, s) ==
  /\ thread[t] = Idle
  /\ ~ failed
  /\ t \in scope => s \in setup.taskStreams
  /\ s \in setup.streams
  /\ generation + Cardinality({u \in Threads : thread[u].at \in
                                 {"request", "publish", "wait"}}) < setup.generations
  /\ thread' = [thread EXCEPT ![t] = [At("request") EXCEPT !.stream = s]]
  /\ UNCHANGED <<lease, queue, owed, pending, generation, reserved, scope, moved,
                 failed, device>>

\* Mutant of Recycles: the streams of the recorded uses are not compared.
RecyclesAnyStream(l, s) ==
  /\ OwnsRange(l)
  /\ lease[l].phase # "none"
  /\ ~ lease[l].planned
  /\ lease[l].successor = None

\* A pending lease that can be recycled: freed, nobody's promise, and every
\* recorded use was on the requesting stream, which orders the new use after it.
Recycles(l, s) ==
  /\ OwnsRange(l)
  /\ lease[l].phase # "none"
  /\ ~ lease[l].planned
  /\ lease[l].successor = None
  /\ lease[l].uses \subseteq {s}

TaskLocal(t, s) ==
  {l \in Leases : /\ t \in scope
                  /\ lease[l].task = t
                  /\ lease[l].phase = "local"
                  /\ Recycles(l, s)}

Retired(s) == {l \in Leases : lease[l].phase \in {"event", "uses"} /\ Recycles(l, s)}

\* Mutant of Reuse: the retirement is still counted.
ReuseStaysPending(l, t) ==
  /\ lease' = [lease EXCEPT ![l].state = "IN_USE", ![l].generation = generation,
                            ![l].home = thread[t].stream, ![l].uses = {},
                            ![l].phase = "none", ![l].events = {}, ![l].task = None]
  /\ generation' = generation + 1
  /\ UNCHANGED pending

\* reuse_pending_allocation_locked, exact size: a new generation in the same
\* record.  Its record of the old one, if queued, is left to the worker.
Reuse(l, t) ==
  /\ lease' = [lease EXCEPT ![l].state = "IN_USE", ![l].generation = generation,
                            ![l].home = thread[t].stream, ![l].uses = {},
                            ![l].phase = "none", ![l].events = {}, ![l].task = None]
  /\ pending' = pending - 1
  /\ generation' = generation + 1

\* A pool grows its arena when no record is free (acquire_lease_record_locked):
\* Leases bounds the records an instance has, and the first one free is taken.
Lowest(S) == {x \in S : \A y \in S : x <= y}

\* A record of the pool's arena and the lowest free range for it.
Created(l, b, state, planned) ==
  [lease EXCEPT ![l] = [FreeRecord EXCEPT !.state = state, !.block = b,
                          !.generation = generation, !.planned = planned]]

\* take_lease_locked: a task-local lease, a fresh range, any retired lease.
TakeLease(t) ==
  LET s == thread[t].stream
  IN  /\ thread[t].at = "request"
      /\ ~ failed
      /\ \/ \E l \in TaskLocal(t, s) : Reuse(l, t)
         \/ /\ TaskLocal(t, s) = {} /\ FreeBlocks = {}
            /\ \E l \in Retired(s) : Reuse(l, t)
         \/ /\ TaskLocal(t, s) = {} /\ FreeBlocks # {}
            /\ \E l \in Lowest(Recyclable), b \in Lowest(FreeBlocks) :
                 lease' = [Created(l, b, "IN_USE", FALSE) EXCEPT ![l].home = s]
            /\ generation' = generation + 1
            /\ UNCHANGED pending
      /\ thread' = [thread EXCEPT ![t] = Idle]
      /\ UNCHANGED <<queue, owed, reserved, scope, moved, failed, device>>

Exhausted(t) ==
  /\ thread[t].at = "request"
  /\ ~ failed
  /\ FreeBlocks = {}
  /\ TaskLocal(t, thread[t].stream) \cup Retired(thread[t].stream) = {}

\* No release source: NO_PROGRESS is latched.
RefuseAllocation(t) ==
  /\ Exhausted(t)
  /\ pending = 0
  /\ failed' = TRUE
  /\ thread' = [thread EXCEPT ![t] = Idle]
  /\ UNCHANGED <<lease, queue, owed, pending, generation, reserved, scope, moved, device>>

\* wait_for_capacity_locked: the epoch is read under the lock ...
BeginWait(t) ==
  /\ Exhausted(t)
  /\ pending # 0
  /\ thread' = [thread EXCEPT ![t].at = "publish"]
  /\ moved' = moved \ {t}
  /\ UNCHANGED <<lease, queue, owed, pending, generation, reserved, scope, failed, device>>

\* The task-local frees of a task that have no event yet; the loop over them
\* stops at one whose recording failed.
Local(t) == {l \in Leases : /\ lease[l].linked = t
                            /\ lease[l].task = t
                            /\ lease[l].phase = "local"}
Publishable(t) ==
  IF \E l \in Leases : lease[l].linked = t /\ lease[l].task = t /\ lease[l].phase = "lost"
  THEN SUBSET Local(t) ELSE {Local(t)}

Queued(ls, events) ==
  {[lease |-> l, generation |-> lease[l].generation, events |-> events] : l \in ls}

\* shadowspill_publish_task_retirement_event: one event for all of them.
Published(ls, s) ==
  [l \in Leases |->
     IF l \in ls THEN [lease[l] EXCEPT !.phase = "event", !.events = {Now(s)},
                                       !.enqueued = lease[l].generation]
     ELSE lease[l]]

Publish(t, s) ==
  \/ \E ls \in Publishable(t) :
       /\ lease' = Published(ls, s)
       /\ queue' = queue \cup Queued(ls, {Now(s)})
       /\ UNCHANGED failed
  \/ /\ setup.mayFail
     /\ Local(t) # {}
     /\ failed' = TRUE
     /\ UNCHANGED <<lease, queue>>

\* ... then, without it, the task's frees so far are published on the stream of
\* the request ...
PublishForWait(t) ==
  /\ thread[t].at = "publish"
  /\ IF t \in scope THEN Publish(t, thread[t].stream)
     ELSE UNCHANGED <<lease, queue, failed>>
  /\ thread' = [thread EXCEPT ![t].at = "wait"]
  /\ UNCHANGED <<owed, pending, generation, reserved, scope, moved, device>>

\* Mutant of EndWait: only the epoch ends the wait.
EndWaitOnEpoch(t) ==
  /\ thread[t].at = "wait"
  /\ t \in moved \/ failed
  /\ thread' = [thread EXCEPT ![t].at = "request"]
  /\ UNCHANGED <<lease, queue, owed, pending, generation, reserved, scope, moved,
                 failed, device>>

\* ... and the wait ends when the epoch has moved, when nothing is left to
\* come, or when the runtime has failed.
EndWait(t) ==
  /\ thread[t].at = "wait"
  /\ t \in moved \/ pending = 0 \/ failed
  /\ thread' = [thread EXCEPT ![t].at = "request"]
  /\ UNCHANGED <<lease, queue, owed, pending, generation, reserved, scope, moved,
                 failed, device>>

\* A request that finds the runtime failed returns its status.
FailRequest(t) ==
  /\ thread[t].at = "request"
  /\ failed
  /\ thread' = [thread EXCEPT ![t] = Idle]
  /\ UNCHANGED <<lease, queue, owed, pending, generation, reserved, scope, moved,
                 failed, device>>

-----------------------------------------------------------------------------
(***************************************************************************)
(* shadowspill_memory_pool_record_stream and shadowspill_memory_pool_free. *)
(***************************************************************************)
Held(l) == lease[l].state = "IN_USE" /\ ~ lease[l].planned

RecordStream(t, l, s) ==
  /\ thread[t] = Idle
  /\ Held(l) /\ s \in setup.streams
  /\ s \notin lease[l].uses \cup {lease[l].home}
  /\ lease' = [lease EXCEPT ![l].uses = @ \cup {s}]
  /\ UNCHANGED <<queue, owed, pending, generation, reserved, thread, scope, moved,
                 failed, device>>

\* Inside a task, an allocation whose only use is the freeing stream waits for
\* the event the task will record.  That event is recorded on the task's streams,
\* and free.c:194 asks only whether the stream is the lease's one use: that it is
\* also one the task records on is the caller's part, which the guard states.
FreeLocal(t, l) ==
  /\ thread[t] = Idle
  /\ Held(l) /\ t \in scope /\ lease[l].home \in setup.taskStreams
  /\ lease[l].uses \subseteq {lease[l].home}
  /\ lease' = [lease EXCEPT ![l].state = "RETIRE_PENDING", ![l].phase = "local",
                            ![l].uses = {lease[l].home}, ![l].task = t,
                            ![l].linked = IF @ = None THEN t ELSE @]
  /\ pending' = pending + 1
  /\ UNCHANGED <<queue, owed, generation, reserved, thread, scope, moved, failed, device>>

\* Otherwise every recorded use gets an event, outside the lock ...
FreeBegin(t, l) ==
  /\ thread[t] = Idle
  /\ Held(l)
  /\ t \notin scope \/ ~ (lease[l].uses \subseteq {lease[l].home})
  /\ lease' = [lease EXCEPT ![l].state = "RETIRE_PENDING", ![l].phase = "preparing",
                            ![l].uses = @ \cup {lease[l].home},
                            ![l].task = IF t \in scope THEN t ELSE None]
  /\ pending' = pending + 1
  /\ thread' = [thread EXCEPT ![t] = [At("free") EXCEPT !.lease = l]]
  /\ UNCHANGED <<queue, owed, generation, reserved, scope, moved, failed, device>>

\* record_retirement_requirements, then the lock, the list and the queue again
Prepared(l) ==
  LET events == {Now(s) : s \in lease[l].uses}
  IN  /\ lease' = [lease EXCEPT ![l].phase = "uses", ![l].events = events,
                                ![l].enqueued = lease[l].generation]
      /\ queue' = queue \cup Queued({l}, events)

\* ... and the retirement is queued.
FreeFinish(t) ==
  /\ thread[t].at = "free"
  /\ Prepared(thread[t].lease)
  /\ thread' = [thread EXCEPT ![t] = Idle]
  /\ UNCHANGED <<owed, pending, generation, reserved, scope, moved, failed, device>>

\* One event could not be recorded: those already recorded are returned, the
\* failure is latched and the retirement is never queued.
FreeFail(t) ==
  /\ setup.mayFail
  /\ thread[t].at \in {"free", "abortfree"}
  /\ lease' = [lease EXCEPT ![thread[t].lease].phase = "lost"]
  /\ failed' = TRUE
  /\ thread' = [thread EXCEPT ![t] = IF @.at = "free" THEN Idle ELSE At("leave")]
  /\ UNCHANGED <<queue, owed, pending, generation, reserved, scope, moved, device>>

-----------------------------------------------------------------------------
(***************************************************************************)
(* The task scope: shadowspill_allocation_scope_begin and _end, and the    *)
(* task boundaries that do the same.                                       *)
(***************************************************************************)
EnterTask(t) ==
  /\ thread[t] = Idle
  /\ t \in setup.taskers \ scope
  /\ ~ failed
  /\ scope' = scope \cup {t}
  /\ UNCHANGED <<lease, queue, owed, pending, generation, reserved, thread, moved,
                 failed, device>>

\* shadowspill_leave_task_scope: the retirement list is taken apart.
Unlinked(ls, t) ==
  [l \in Leases |-> IF ls[l].linked = t THEN [ls[l] EXCEPT !.linked = None] ELSE ls[l]]

\* Mutant of EndTask: what the task freed is not published.
EndTaskUnpublished(t) ==
  /\ thread[t] = Idle
  /\ t \in scope
  /\ \A s \in setup.taskStreams \ {TaskStream} : Joined(s)
  /\ lease' = Unlinked(lease, t)
  /\ scope' = scope \ {t}
  /\ UNCHANGED <<queue, owed, pending, generation, reserved, thread, moved, failed, device>>

\* The task's work is submitted and its side streams are joined: one event of
\* its stream protects everything it freed.
EndTask(t) ==
  /\ thread[t] = Idle
  /\ t \in scope
  /\ \A s \in setup.taskStreams \ {TaskStream} : Joined(s)
  /\ \/ \E ls \in Publishable(t) :
          /\ lease' = Unlinked(Published(ls, TaskStream), t)
          /\ queue' = queue \cup Queued(ls, {Now(TaskStream)})
          /\ UNCHANGED failed
     \/ /\ setup.mayFail
        /\ Local(t) # {}
        /\ lease' = Unlinked(lease, t)
        /\ failed' = TRUE
        /\ UNCHANGED queue
  /\ scope' = scope \ {t}
  /\ UNCHANGED <<owed, pending, generation, reserved, thread, moved, device>>

\* shadowspill_abort_current_task
AbortTask(t) ==
  /\ thread[t] = Idle
  /\ t \in scope
  /\ thread' = [thread EXCEPT ![t] = At("abort")]
  /\ UNCHANGED <<lease, queue, owed, pending, generation, reserved, scope, moved,
                 failed, device>>

\* shadowspill_finalize_aborted_task_retirements: one lease after the other is
\* prepared like a free outside a task.
AbortPrepare(t) ==
  /\ thread[t].at = "abort"
  /\ \E l \in Local(t) :
       /\ lease' = [lease EXCEPT ![l].phase = "preparing"]
       /\ thread' = [thread EXCEPT ![t] = [At("abortfree") EXCEPT !.lease = l]]
  /\ UNCHANGED <<queue, owed, pending, generation, reserved, scope, moved, failed, device>>

AbortFinish(t) ==
  /\ thread[t].at = "abortfree"
  /\ Prepared(thread[t].lease)
  /\ thread' = [thread EXCEPT ![t] = At("abort")]
  /\ UNCHANGED <<owed, pending, generation, reserved, scope, moved, failed, device>>

AbortLeave(t) ==
  /\ \/ thread[t].at = "abort" /\ Local(t) = {}
     \/ thread[t].at = "leave"
  /\ lease' = Unlinked(lease, t)
  /\ scope' = scope \ {t}
  /\ thread' = [thread EXCEPT ![t] = Idle]
  /\ UNCHANGED <<queue, owed, pending, generation, reserved, moved, failed, device>>

-----------------------------------------------------------------------------
(***************************************************************************)
(* The worker: shadowspill_handle_retirements.                             *)
(***************************************************************************)
\* The record still speaks for its lease: a lease that was recycled has another
\* generation, and one whose range a successor acquired has left the pool.
Current(r) ==
  /\ lease[r.lease].state \notin {"FREE", "TRANSFERRED"}
  /\ lease[r.lease].generation = r.generation
  /\ lease[r.lease].phase # "none"
  /\ lease[r.lease].enqueued = r.generation

\* Mutant of Reclaim: the generation is not compared.
ReclaimAnyGeneration(r) ==
  /\ owed = {}
  /\ Reached(r.events)
  /\ queue' = queue \ {r}
  /\ IF lease[r.lease].state \notin {"FREE", "TRANSFERRED"}
     THEN lease' = Released(r.lease) /\ Announce /\ owed' = {r}
     ELSE UNCHANGED <<lease, moved, owed>>
  /\ UNCHANGED <<pending, generation, reserved, thread, scope, failed, device>>

\* A record whose events are complete, under the lock of its pool.
Reclaim(r) ==
  /\ owed = {}
  /\ Reached(r.events)
  /\ queue' = queue \ {r}
  /\ IF Current(r)
     THEN lease' = Released(r.lease) /\ Announce /\ owed' = {r}
     ELSE UNCHANGED <<lease, moved, owed>>
  /\ UNCHANGED <<pending, generation, reserved, thread, scope, failed, device>>

\* Without the lock: pending_retirements, and the record is destroyed.
CountDown ==
  /\ owed # {}
  /\ pending' = pending - 1
  /\ owed' = {}
  /\ UNCHANGED <<lease, queue, generation, reserved, thread, scope, moved, failed, device>>

-----------------------------------------------------------------------------
(***************************************************************************)
(* Transfer destinations: try_reserve_action_destination_locked at a task  *)
(* boundary, acquire_reserved_destination and the release by the worker.   *)
(***************************************************************************)
\* One dependency exists, or the owner is bound to publish one.
Candidates ==
  {l \in Leases : /\ lease[l].state = "RETIRE_PENDING"
                  /\ lease[l].phase \in {"local", "event"}
                  /\ lease[l].successor = None}

\* Published dependencies come first.
Preferred ==
  LET published == {l \in Candidates : lease[l].phase = "event"}
  IN  IF published # {} THEN published ELSE Candidates

ReserveDestination ==
  /\ reserved < setup.destinations
  /\ ~ failed
  /\ \E n \in Lowest(Recyclable) :
       \/ \E b \in Lowest(FreeBlocks) : lease' = Created(n, b, "RESERVED", TRUE)
       \/ /\ FreeBlocks = {}
          /\ \E l \in Preferred :
               lease' = [Created(n, lease[l].block, "SUCCESSOR_RESERVED", TRUE)
                           EXCEPT ![l].successor = n, ![n].predecessor = l]
  /\ generation' = generation + 1
  /\ reserved' = reserved + 1
  /\ UNCHANGED <<queue, owed, pending, thread, scope, moved, failed, device>>

AcquireReserved(l) ==
  /\ lease[l].state = "RESERVED"
  /\ Len(work[Lane]) < setup.work
  /\ lease' = [lease EXCEPT ![l].state = "IN_USE"]
  /\ work' = Submitted(Lane, l, {})
  /\ UNCHANGED <<queue, owed, pending, generation, reserved, thread, scope, moved,
                 failed, done, setup>>

\* The range changes hands before the predecessor's event is reached: the lane
\* waits for that event, and the predecessor leaves the pool.
AcquireSuccessor(l) ==
  LET p == lease[l].predecessor
  IN  /\ setup.acquires
      /\ lease[l].state = "SUCCESSOR_RESERVED"
      /\ lease[p].phase = "event"
      /\ Len(work[Lane]) < setup.work
      /\ lease' = [lease EXCEPT ![l].state = "IN_USE", ![l].predecessor = None,
                                ![p].state = "TRANSFERRED", ![p].successor = None]
      /\ work' = Submitted(Lane, l, lease[p].events)
      /\ Announce
      /\ UNCHANGED <<queue, owed, pending, generation, reserved, thread, scope,
                     failed, done, setup>>

\* release_reserved_destination
CancelDestination(l) ==
  /\ \/ /\ lease[l].state = "RESERVED"
        /\ lease' = [lease EXCEPT ![l] = FreeRecord]
        /\ Announce
     \/ /\ lease[l].state = "SUCCESSOR_RESERVED"
        /\ lease' = [lease EXCEPT ![l] = FreeRecord,
                                  ![lease[l].predecessor].successor = None]
        /\ UNCHANGED moved
  /\ UNCHANGED <<queue, owed, pending, generation, reserved, thread, scope, failed, device>>

\* The owner of a filled destination gives it back when its work is complete.
ReleaseOwned(l) ==
  /\ lease[l].state = "IN_USE" /\ lease[l].planned
  /\ \A s \in Streams : \A i \in DOMAIN work[s] :
       work[s][i].generation = lease[l].generation => i <= done[s]
  /\ lease' = [lease EXCEPT ![l] = FreeRecord]
  /\ Announce
  /\ UNCHANGED <<queue, owed, pending, generation, reserved, thread, scope, failed, device>>

-----------------------------------------------------------------------------
Calls(t) ==
  \/ \E s \in Streams : Request(t, s)
  \/ \E l \in Leases : FreeLocal(t, l) \/ FreeBegin(t, l)
  \/ \E l \in Leases, s \in Streams : RecordStream(t, l, s)
  \/ EnterTask(t)
  \/ AbortTask(t)

\* What a thread does on its own once it has called.
Runs(t) ==
  \/ TakeLease(t)
  \/ RefuseAllocation(t)
  \/ BeginWait(t)
  \/ PublishForWait(t)
  \/ EndWait(t)
  \/ FailRequest(t)
  \/ FreeFinish(t)
  \/ FreeFail(t)
  \/ AbortPrepare(t)
  \/ AbortFinish(t)
  \/ AbortLeave(t)

Work ==
  \/ \E r \in queue : Reclaim(r)
  \/ CountDown

Boundary ==
  \/ ReserveDestination
  \/ \E l \in Leases : \/ AcquireReserved(l)
                       \/ AcquireSuccessor(l)
                       \/ CancelDestination(l)
                       \/ ReleaseOwned(l)

Next ==
  \/ \E t \in setup.threads : Calls(t) \/ Runs(t) \/ EndTask(t)
  \/ Work
  \/ Boundary
  \/ \E l \in Leases, s \in Streams : Use(l, s)
  \/ \E s \in Streams : Join(s) \/ Complete(s)

(***************************************************************************)
(* Fairness.  A thread inside a call spins, it never sleeps; the worker    *)
(* polls every queued record in turn; a stream makes progress; a task that *)
(* is not aborted ends.  Nobody is obliged to allocate, to use or to free. *)
(***************************************************************************)
Fairness ==
  /\ \A t \in Threads : WF_vars(Runs(t)) /\ WF_vars(EndTask(t))
  /\ \A s \in Streams : WF_vars(Complete(s))
  /\ WF_vars(CountDown)
  /\ WF_vars(\E r \in queue : Reclaim(r))

Spec == Init /\ [][Next]_vars /\ Fairness

-----------------------------------------------------------------------------
(***************************************************************************)
(* The records keep the shapes the C types give them, and                  *)
(* pending_retirements, an unsigned counter, never goes below zero.        *)
(***************************************************************************)
States == {"FREE", "IN_USE", "RETIRE_PENDING", "RESERVED", "SUCCESSOR_RESERVED",
           "TRANSFERRED"}
Phases == {"none", "local", "preparing", "event", "uses", "lost"}
Places == {"idle", "request", "publish", "wait", "free", "abort", "abortfree", "leave"}

TypeOK ==
  /\ setup \in Setups
  /\ \A l \in Leases :
       /\ lease[l].state \in States /\ lease[l].phase \in Phases
       /\ lease[l].block \in setup.blocks \cup {None}
       /\ lease[l].generation \in 0..generation
       /\ lease[l].uses \subseteq Streams
       /\ lease[l].successor \in Leases \cup {None}
       /\ lease[l].predecessor \in Leases \cup {None}
  /\ \A r \in queue \cup owed : r.lease \in Leases /\ r.generation \in 1..generation
  /\ pending \in Nat
  /\ scope \subseteq Threads /\ moved \subseteq Threads
  /\ \A t \in Threads : thread[t].at \in Places
  /\ \A s \in Streams : done[s] \in 0..Len(work[s])

(***************************************************************************)
(* A range the pool counts as free has no work outstanding on any stream:  *)
(* the last use on every stream was waited for before it was given back.   *)
(***************************************************************************)
FreeRangesIdle ==
  \A s \in Streams : \A i \in DOMAIN work[s] :
    work[s][i].block \in FreeBlocks => i <= done[s]

(***************************************************************************)
(* Work of two owners of the same range is done in the order of ownership, *)
(* whichever way the range changed hands: reclaimed and allocated again,   *)
(* recycled in place before its events, or acquired by a promised          *)
(* successor while the predecessor still runs.                             *)
(***************************************************************************)
OwnersOrdered ==
  \A s, z \in Streams : \A i \in 1..done[s], j \in done[z] + 1 .. Len(work[z]) :
    work[s][i].block # None /\ work[s][i].block = work[z][j].block
      => work[s][i].generation <= work[z][j].generation

(***************************************************************************)
(* pending_retirements, the release source that allocators, boundaries and *)
(* runtime close watch, is the number of retirements somebody will still   *)
(* complete: "once completion is known, the predecessor is removed from    *)
(* pending ownership".                                                     *)
(***************************************************************************)
Outstanding ==
  {l \in Leases : \/ lease[l].state = "RETIRE_PENDING"
                  \/ /\ lease[l].state = "TRANSFERRED"
                     /\ \E r \in queue : r.lease = l}
PendingExact == pending = Cardinality(Outstanding) + Cardinality(owed)

(***************************************************************************)
(* An allocation is answered: with a range, with NO_PROGRESS, or with the  *)
(* failure of the runtime.  It never waits for an event that has already   *)
(* happened.                                                               *)
(***************************************************************************)
AllocationAnswered ==
  \A t \in Threads : thread[t].at = "request" ~> thread[t] = Idle

(***************************************************************************)
(* Every retirement ends: what was freed is given back, recycled or handed *)
(* over, and the wait for an idle runtime comes to its end, unless the     *)
(* runtime has failed.                                                     *)
(***************************************************************************)
RetirementsDrain == pending > 0 ~> pending = 0 \/ failed
=============================================================================
