# ShadowSpill: models and proofs of the planner and the memory runtime

ShadowSpill runs a training or inference program whose data does not fit on the
device. A planner decides when each object leaves the device and when it comes
back: a search cuts residency until it fits, a simulator judges the schedule, an
admission pass gives every lease a fixed offset, and a store keeps the answer. A
C runtime (`csrc/src/runtime`) carries the plan out while the framework runs its
kernels: it hands out device memory, takes it back behind completion events,
copies objects to a spill pool and back, and lets a range be reused before its
last user has finished when an event orders the two.

Two kinds of behaviour are hard to test here. In the runtime, the host runs ahead
of the device, several threads share each pool, and the lock of a pool is a mutex
that is only ever *tried*, with priorities kept in counters read without it. In
the planner, a schedule is accepted on predicted times and must hold under any
timing, and answers are kept in directories that several processes replace file
by file. Those are what these modules model. The repository's source is the
reference for every definition (PROJECT.json `map` names the lines): the C
runtime for the runtime, and for the planner the Python in `src/shadowspill` and
the readable passes in `reference/python`, which the compiled engines are held
equal to by the repository's parity tests.

## 1. Inventory

### Parts that carry the logic: the runtime

| part | source (`csrc/src/runtime/`) | state it keeps | operations |
|---|---|---|---|
| range allocator | `memory/ranges.c` | free ranges in address order, node arena, byte counters | five placement policies, free with coalescing |
| lease pool | `memory/memory_pool/leases.c`, `causal.c` | lease records and their six states, predecessor/successor links, reserved bytes, release order, capacity epoch | reserve, retire, publish, cancel, promise, acquire, hand over, release; plan slices |
| pool lock | `memory/memory_pool/locks.c` | mutex, `foreground_waiters`, `reservation_waiters` | foreground, reservation and reclamation entry |
| allocations and retirement | `memory/allocations/*.c`, `memory/retirement_queue.c`, `memory/allocation_scope.c` | allocation records, recorded stream uses, the task scope's local frees, the retirement queue, `pending_retirements` | allocate (with its wait for capacity), record_stream, free, in-place reuse, publication, abort, reclamation |
| task boundary | `tasks/task_boundaries.c`, `task_handles.c` | the batch being built, the action list, collective numbers | bind inputs, publish mutations, instantiate actions, reserve destinations, publish, await the worker |
| objects | `objects/*.c` | residency, versions, the two locations, the object's list of actions | register, acquire, schedule, project |
| transfer queues and lanes | `transfers/*.c` | per route: pending, background and in-flight lists, the byte window | enqueue, claim, return, publish in flight, complete |
| worker | `worker/*.c` | the action in hand | handle releases and copies, dispatch, commit, complete, reclaim |
| plans, layouts, admission replay | `plan/*.c` | slices, slots, bindings, certificates | seal, lend, reclaim, replay |
| events | `sync/*.c` | reference-counted event leases, per-stream completion list, idle wake-up | record, poll, recycle, wake |
| failure and life cycle | `failure_state.c`, `runtime*.c` | latched failure, open/closing state | latch, recover, close, drain |

### Parts that carry the logic: the planner

| part | source | state it keeps | operations |
|---|---|---|---|
| memory schedule | `src/shadowspill/ir/schedule.py`, `ir/program/checks.py` | none: a value with rules | the static walk that validates a schedule against a program |
| simulator | `reference/python/simulator` (C twin in `csrc/src/simulator`) | residency and versions of each group, bytes of both pools, lane queues, running tasks and copies | launch tasks, submit actions, start and complete transfers, report why nothing can go on |
| fixed-layout admission | `reference/python/admission`, `src/shadowspill/planner/admission/layout` | leases with predicted and causal lifetimes, offsets, reuse dependencies | replay, place, recover dependencies, certify by simulating again |
| PressureFit search | `reference/python/pressurefit` | residency spans, pressure per boundary, fetch triggers, repairs | seed, cut, emit, clamp, validate, simulate, repair |
| plan store | `src/shadowspill/planner/plan_store`, `planner/admission/refinement.py` | one directory per request: selection or refusal, certificate, summary, retained alternatives and their manifest | read, search and write, compare, improve, certify, summarise |

Around them: lanes to remote memory and SSD (`csrc/network`, `csrc/daemon`,
`csrc/ssd`), device backends, a PyTorch adapter, the Python code that captures
programs and drives execution, and a large body of baselines, benchmarks,
training scripts and tests. PROJECT.json `components` lists every part with its
status and, where it is left out, the reason.

### How they interact

* Framework threads call allocate, record_stream and free; inside a task their
  frees stay on the thread's task scope until the end of the task records one
  event for all of them.
* The dispatcher thread runs tasks and, at each boundary, turns the plan's
  actions into entries of the worker's list. A fetch or eviction needs a
  destination, which the boundary reserves: in free capacity, as the *causal
  successor* of a range that is still retiring, or, failing both, after waiting
  at reservation priority for retirements to be reclaimed.
* The worker thread scans its list, dispatches copies on lanes (streams), commits
  them when their events complete, and reclaims retirements.
* The device runs tasks and copies in stream order, later, in any interleaving
  the events allow.
* Shared state: a pool's lease list under the pool lock, an object under its own
  lock, queues under theirs; counters and the capacity epoch are atomics that
  threads poll.

* In the planner, the search hands schedules to the simulator and reads its
  failure reports back as repairs; admission simulates twice, the second time
  under the dependencies it recovered; the store calls the search on a miss and
  hands what it found to admission, whose certificate it files beside the plan.
  Processes share nothing but the files.

### What is hard here

Interleavings of framework threads, dispatcher, worker and device; locks dropped
in the middle of a handler around event recording and lane calls; records that
outlive what they name; waits on a counter and an epoch several threads move;
three lock priorities that wait for each other; partial failure of event
recording; retries by a lane; ordering of collective copies over two lanes; the
arena and window limits; copies that land after a later write; bytes shared on
predicted times; entries written file by file by processes that may be killed;
values updated incrementally or measured on another machine. PROJECT.json `hazards` lists each at its line with the
properties that would catch it.

### What makes each part correct

* ranges: each byte has one owner or is free, free ranges are merged, "exhausted"
  is only said when nothing fits, the arena does not run out;
* leases: one owner per byte across splits, promises and slices; both ends of a
  promise agree; a promised range is never freed; capacity is announced;
* lock: every client, reservation and retirement gets through;
* retirement: a range is free only when no stream still works on it; successive
  owners of a range are ordered on the device; every allocation is answered;
* transfers: tasks and copies see the version the host believes in; ranges
  outlive their use; lanes and collectives keep their order; every published
  action finishes; no internal check fires under a plan the simulator accepts;
* schedule and simulator: what the walk accepts the simulator can follow; tasks
  read the latest version; bytes are exact; the run ends with a reason;
* layout: leases in use never share bytes, whatever the timing; a certified plan
  runs to its end;
* search: pressure is exact, schedules validate, an analytic fit runs, the search
  ends;
* store: files of an entry belong together, the entry never gets worse, an answer
  is no worse than the plan in hand.

## 2. Modules

| module | models | checked by |
|---|---|---|
| `Collections` | a sum, an ascending enumeration and an arrangement of a finite set, shared by `Schedule`, `Transfers` and `Placement` | through them |
| `Ranges` | placement and coalescing as operators on a set of extents | through the next two |
| `RangeAllocator` | the allocator as a state machine: one action per entry point | `range_allocator`, `MemoryPoolProofs` |
| `OperatorLemmas` | lemmas on the operators of `Ranges`, `Collections` and `Placement`, and on folds, cited by the other proofs | TLAPS |
| `MemoryPoolProofs` | the theorems on `RangeAllocator` and on `PoolLock` | TLAPS |
| `LeasePool` (`MCLeasePool`) | lease operations of one pool, each a critical section | `lease_pool`, `LeasePoolProofs` |
| `PoolLock` (`MCPoolLock`) | the lock protocol, one atomic access per step, with the boundary's and the worker's loops | `pool_lock`, `pool_lock_coalesce`, `MemoryPoolProofs` |
| `Retirement` (`MCRetirement`) | the life of an allocation across threads, streams and the worker | `retirement*`, `RetirementProofs` |
| `Transfers` (`MCTransfers`) | objects, boundaries, queues, worker and lanes, and the device behind them | `transfers*`, `TransfersProofs`, `LaneProofs` |
| `Schedule`, `ScheduleChoices` | the static walk of a memory schedule as operators; enumeration of the schedules it accepts | through the next ones |
| `Residency` | abstract contract: groups, versions, copies, no lanes, bytes or time | refined by `Simulator`: checked and proved |
| `Simulator` (`MCSimulator`) | the discrete-event simulator | `simulator`, `SimulatorProofs` |
| `Placement` | placement at fixed offsets and the resident slice, as operators | through the next one |
| `FixedLayout` (`MCFixedLayout`) | admission: replay, placement, dependencies, second simulation | `fixed_layout`, `SimulatorProofs` |
| `PressureFit` (`MCPressureFit`) | one candidate of the search, from facts to verdict | `pressurefit`, `SimulatorProofs` |
| `PlanStore` (`MCPlanStore`) | one entry of the store and the processes using it | `plan_store`, `PlanStoreProofs` |

`RangeAllocator` and `LeasePool` share `Ranges`, so a pool's leases are placed by
the very operators the theorems are about. `Retirement` leaves placement to them
(its pool is cut into equal blocks) and the lock to `PoolLock` (a critical
section is one action). `Transfers` leaves capacity to `LeasePool` and
`Retirement`: destinations are granted, possibly over a retiring range.
`FixedLayout` and `PressureFit` extend `Simulator`: the simulation inside
admission and inside the search is the very state machine the `simulator` run
checks, step by step. `FixedLayout` takes its offsets from `Placement`, which knows
lifetimes only and nothing of schedules. `PlanStore` takes a search as a choice among plans and
an admission as a predicate of the plan.

### Correspondence with the code

*RangeAllocator.* `free` is the free list as a set of extents (its order by
address is a function of the set), `nodes` the spare nodes of the arena,
`held` the callers' side. Each entry point is an action that answers 0, 1 (no
room) or -1, and `last` is that answer. A free takes its node before it merges,
as the code does.

*LeasePool.* The six states of a lease and the links between predecessor and
successor. The release sequence number is only compared, so `earlier` keeps the
order instead. `capacity_epoch` keeps wrap-around with a small modulus. Slices of
a plan are `claims`; borrowed leases lie inside them.

*PoolLock.* Every read or write of a waiters counter and every try of the mutex
is a step. Ranges are counted rather than placed: the destination needs
`demand.needed` released ranges to have come together.

*Retirement.* A stream is a sequence of submitted work of which a prefix is
done; an event is a position in it. A lease's `phase` says what protects it while it
retires: a local free, events being recorded outside the lock, one task event, or
one event per recorded use. `queue` holds retirement records with the generation
they were made for; `owed` is the worker's gap between giving a range back and
counting it down.

*Transfers.* Host state (residency, versions, projections, queues) is apart from
device state (what each range and the spill copy hold, which tasks and copies
ran). A range carries the version written into it, so that "reads current data"
is a statement about device contents. Where a handler drops the object lock
around the lane call it is two actions, `HandleTransfer` and `Submit`. Plans are
those the simulator accepts (`Movable`), chosen nondeterministically step by
step.

*Schedule.* A walk maps a *set* of reached residencies; the empty set is a
refusal. `Validated` is the whole check of a schedule, `ProgramChecked` that of a
program's tasks, which an assumption of `Simulator` holds every instance to.

*Simulator.* `pc` is the place in the loop of `run`: start transfers, launch
tasks, submit actions, go on to the next event, complete what is due. Durations
are gone: `AdvanceTime` lets any non-empty set of running tasks and copies end,
so every timing is explored, ties included. Versions (`latest`, `devVer`,
`spillVer`) are the code's. Physical deltas and reuse dependencies are inputs of
a problem and default to the object's bytes. A stop carries the kind of the
error raised. `Residency` is implemented under the mapping that reads a copy as
its version while it is ready, and as absent otherwise.

*FixedLayout.* Phase `plan` simulates and records intervals as event counts;
`Measure` replays the schedule into leases and places them; `Certify` judges the
result; phase `run` simulates again under the recovered dependencies. `holder`
is, for each byte, the latest lease that began in it. Every loop of the replay and
of the placement is a fold over the collection the code loops over; a sort is
`Arranged`, which names each member by how many are in front of it.

*PressureFit.* Boundaries are numbered from 0, the state before the first task.
Transfer times only order the choices of a rule, so a rule chooses any trigger
in the window its code allows, and a cut any of the best by the criteria that do
not depend on time. Each cut, clamp and simulator event is a step.

*PlanStore.* A step is one file operation, or the computation between two. A file is
replaced whole, as `atomic_write` does. A killed process (`Crash`) leaves the files as they
are and may call again. A plan has a makespan on this machine (`here`) and one it
carries from elsewhere (`elsewhere`), which may be larger or smaller. A record holds
the plan, what its search found (`search`: the diagnostics, and the alternatives, are
those of the search even where the plan in hand outran it) and the plan the search was
handed (`evidence`); `Consistent` is the reader's check of diagnostics against plan.
Emptying the alternatives is a listing and then one removal after another, and a
process that writes meanwhile may find its directory gone (`DirectoryGone`).

## 3. Runs

All runs are exhaustive over the stated bounds.

| run | instance | shows |
|---|---|---|
| `range_allocator` | 7 units, sizes 1..3, alignments 1 and 2, 3 extents held, arena of 5 | bytes partitioned, coalesced, refusals real and the arena sufficient |
| `lease_pool` | 3 leases, 3 units, one slice, epoch modulo 2, leases symmetric | one owner per byte, promises exact, promised ranges never freed |
| `pool_lock` | 2 clients with 2 calls each, 3 records; two ranges needed without recorded uses, or one needed with them | reservations settle, clients served, everything reclaimed |
| `pool_lock_coalesce` | two ranges needed, one retirement with recorded uses | **violated**: finding 1 |
| `retirement` | three setups: two threads and two streams; a boundary that reserves and acquires destinations; a task with a joined side stream and two ranges | free ranges idle, owners ordered on the device |
| `retirement_progress` | two threads on one range; event recording that may fail | the pending count is exact, allocations are answered, retirements drain |
| `transfers` | three kinds of plan on two objects, up to 3 tasks and 4 actions | no check fires, tasks and spill copies are current, ranges outlive use, reuse ordered, lanes in order with window and collectives |
| `transfers_progress` | a window of one copy with retries; collectives on both lanes | every published action finishes, every boundary returns |
| `simulator` | 3 tasks, 3 groups (one without bytes), all validated schedules of up to 3 actions, one or two compute lanes, two capacities | bytes exact, destinations reserved, the walk is sound, the abstract contract is kept, the run ends |
| `fixed_layout` | 3 tasks, 4 groups, all validated schedules of up to 3 actions, five combinations of reuse, replacement, hand-off (once to a value without bytes) and resident slice, two lanes | ranges intact under any timing, placement sound, certified runs never stuck |
| `plan_store` | five setups: a sweep with plans in hand from smaller and larger machines, retention of one answer, retention of changing answers, two processes, refusing searches; crashes everywhere | files belong together, an answer is no worse than the plan in hand as far as the store measures it, entries never get worse, retention is whole |
| `pressurefit` | 4 tasks, 4 groups, 576 programs, 3 strategies by 3 fetch rules, 2 repairs | pressure exact, schedules validate, the floor is reachable, an analytic fit runs, the search ends |

Why the bounds are enough. In the allocator, 7 units and three held extents
reach every cut (whole, front, back, middle) with every pair of neighbours of a
free, and 5 nodes are exactly `MaxHeld + 2`. Three leases make a predecessor, a successor and a
third party, so a promise can be split, cancelled, handed over or bypassed while
another lease takes the space. Two clients are the smallest number for which one
can arrive between two reads of a counter made on behalf of the other; three records let two ranges coalesce with one
in the worker's hands. Two threads, two streams and a handful of generations make
a record outlive two owners of its range. Three tasks and three or four actions
on two objects are a schedule in which an object leaves, its range is reused and
it comes back, with a copy of each direction behind it. The same holds for the
simulator's three tasks and three actions: a departure, a return and an action
that races them, and at two bytes of device memory a fetch has to wait for a
departure. Four tasks in the search give a group an inner gap to cut, a write
before it and two readers after it; two repairs let one build on the other. In the
store, three plans order better, equal and worse than the plan in hand, two labels
make a partial retention, and two processes with two calls each, killed
anywhere, interleave a reader with every prefix of a writer. Bounds on generations,
work, tasks, actions and calls only stop new requests; nothing under way is cut
short. CHECK_DEADLOCK is off where such a bounded program really ends.

Every property has a mutant in PROJECT.json: a definition changed the way a
plausible mistake would change it, under which TLC finds the property violated.

`simulator` restricts schedules by `RefetchesPrompt` and, on two lanes, by
`CausallyOrdered`: the cases left out are the deviations of section 5.

### Fairness

* `PoolLock`: every thread that is inside a call keeps stepping (weak fairness of
  each thread). The loops spin with a pause, so the threads are scheduled; a try
  of the mutex may fail every time it is made, and nothing forbids starvation
  there. `ClientsServed` therefore rests on clients making boundedly many calls.
* `Retirement`: threads spin, the worker polls its queue, each stream's device
  finishes what was submitted, a task that began ends. Framework threads are not
  obliged to free or to submit.
* `Transfers`: the worker scans its list, the device runs tasks and copies, a
  boundary that started goes on. `Submit` is strongly fair: a lane that asks for
  retries does not ask for ever. Nothing obliges the dispatcher to start another
  task.
* `Simulator`, `PressureFit`: one sequential loop, so weak fairness of its step;
  no step chosen inside the loop has fairness of its own.
* `FixedLayout` and `PlanStore` state safety only. A process of the store may be
  killed at any point and need not come back.

## 4. Proofs

The theorems hold for every value of the constants the assumptions allow, and for
runs of any length: the bounds of section 3 only limit what TLC explores. Each
module of proofs names an inductive invariant, which TLC checked on small
instances first, proves that the initial states satisfy it and that one step of
each action keeps it, and draws the properties from it.

### Ranges (`OperatorLemmas`, `MemoryPoolProofs`)

* `TypeCorrect`: free ranges and held extents are not empty and end within the
  pool, nodes stay between zero and the arena's count, and the bytes counted as
  allocated between zero and their peak, which is at most the pool;
* `AllocatorPartitionsBytes`: each byte is free or in exactly one held extent,
  and no extent passes the end of the pool;
* `AllocatorCoalesces`: two free ranges never touch;
* `AllocatorRefusalsReal`: a refusal means that no aligned run of free bytes is
  long enough, for each of the five policies, and never that nodes ran out.

Assumptions: `Capacity \in Nat`, positive sizes and alignments, and an arena of
`MaxHeld + 2` nodes, as the pool sizes it. The inductive invariant is the
conjunction of shapes, partition and coalescing with the count of nodes and the count
of lent bytes, from which the bounds of `TypeCorrect` follow. None is inductive alone:
that a cut does not touch a held extent needs the partition; that a freed extent
touches at most one free range in front and one behind, so that one merge on each
side restores the partition, needs the list to be coalesced; both need extents
to be non-empty. That the arena suffices needs coalescing too: between two free
ranges there is a held extent, so there is at most one more of the former.

### Lease pool (`LeasePoolProofs`)

* `PoolOneOwnerPerByte`: each byte is free or owned by exactly one lease, through
  cutting, splitting, borrowing, hand-off to a successor, transfer and release;
* `PoolPromisesExact`: predecessor and successor name each other, and the successor
  has exactly the range its retiring predecessor still owns;
* `PoolPromisedNeverFreed`: the action property that a promised range never goes
  to the free list while the promise stands;
* `PoolTypeCorrect`.

The argument rests on `OperatorLemmas`, since leases are placed by the operators of
`Ranges`. Ownership alone is not inductive: a hand-off gives the successor the
range written in its own record, so both ends of every promise must agree, and a
slice must still cover the leases borrowed from it.

### Pool lock (`MemoryPoolProofs`)

* `LockCountersExact`: one thread at a time is inside the lock,
  `foreground_waiters` and `reservation_waiters` are raised for exactly the threads
  that wait, and `pending_retirements` counts each queued or taken record once;
* `LockTypeCorrect`: no interleaving takes an unsigned counter below zero.

Clients and records are any finite set. These are the facts behind the three
liveness properties of `pool_lock`, which themselves stay with TLC. No run checks
the counters as a property of their own.

### Retirement (`RetirementProofs`)

For any number of leases, streams, threads inside and outside tasks, destinations
and generations, with or without failing event recordings:

* `RetirementFreeRangesIdle`: a range the pool counts as free has no unfinished
  work on any stream;
* `RetirementOwnersOrdered`: the device never does work of an older owner of a
  range after work of a younger one;
* `RetirementPendingExact`: `pending_retirements` is the number of retirements
  somebody will still complete, where successors do not acquire early;
* `RetirementPendingCovers`: where they do, the count may stay too high (section
  5), but zero still means that nothing is outstanding;
* `RetirementTypeCorrect`: records keep their shapes, the counter stays above zero.

The first two are stated for instances in which a task uses one stream
(`OneTaskStream`). They are false without it: a wait inside a task publishes the
task's frees on the asking stream (section 5). The instance `Joining`, whose two
ranges keep a task from waiting, is left to TLC.

What must be added to make them inductive is where unfinished work may be. While
a lease owns a range, the unfinished work on it is on a stream the lease
recorded, and what earlier owners left is on its home stream only (`CoveredAt`).
Recycling in place preserves that because every recorded use was on the stream
that asks; the events of a queued retirement come after all of that work because
there is one for each recorded use; and a transfer that took the range early is
itself queued behind those events. Unfinished work of an older owner precedes that
of a younger one in the same stream or through an event (`Ordered`), so the device
completes it first. Beside that stand the agreement of both ends of a promise, a
queued record's events being those of its lease as long as the generations match
(`QueueExact`), and each lease in preparation being in the hands of one thread.

`Leases` bounds an arena that the code grows, so a request that finds no record
waits in the model; no safety property depends on it.

### Transfers (`TransfersProofs`)

For any number of objects, tasks and actions, every boundary of any size, and any
interleaving of dispatcher, worker, stream and lanes:

* `NeverFails`: a schedule of the kind the simulator accepts is never refused by a
  check of the runtime;
* `ReadsCurrent`: a task that runs finds in its range the version its boundary
  bound, however far the host is ahead of the device;
* `SpillTrue`: a spill copy marked current holds the newest version, but while a
  mutation of the object is being launched: no copy that a mutation overtook is
  taken for it;
* `RangesOutlive`: no task and no copy still uses a range that is free or whose
  retirement event is complete;
* `Reuse`: a copy into a reused range runs only when nothing of the range's last
  owner still uses it;
* `TransfersInvariant`: the invariant the five follow from.

They are stated for plans `InScope`: a layout places the ranges that are reused, and no
lane asks for a fetch to be retried. Neither is a convenience. With a range handed
over by the pool, and with a fetch retried, the runtime does refuse what a plan asks
(section 5: `allocations/leases.c:302`, `dispatch.c:377`). No lane of the repository
retries a fetch, and the execution driver admits a plan with a
fixed layout (`src/src/shadowspill/execution/admission.py:67`). `MCTransfers`
assumes the predicate of every plan it checks, so TLC evaluates it.

The five properties say what device and host agree on, and none of them is inductive. What
carries them is the list of open actions of an object. Only its first action can be at
the worker or on a lane; a departure ends it but for the fetch that brings the object
back; versions rise along it (`Listed`, `Order`, `Versions`, `Stages`, `OnLanes`). That list
decides where the object is, in which state each of its ranges is and whether its
spill copy counts (`Located`, `LeaseStates`, `Worth`): a release of the range is the business of
the last action, so nothing before it can find the range gone. What each launched task
will see follows from the tasks that have still to run and the fetch that may still
be under way (`Chained`), and a copy out, which waits for the tasks before it, finds at
least the version it was scheduled for (`Bounded`, `Reached`). Lastly a range's retirement
event lies behind all its users (`Users`, `Waits`, `Releases`), and a copy into a reused range
waits for that event (`Reused`). Each action disturbs several of these at once and
restores each from the others, so they form one invariant, `IInv`.

### Lanes (`LaneProofs`)

* `LaneOrder`: each lane submits its copies in schedule order and commits them in
  submission order, collective copies reach the lanes in the order of their numbers,
  and the background copies in flight stay within the window unless there is
  only one.

Nothing is asked of the plans here: retries of any kind, collective and background copies,
hand-off and every failure are included. A claim takes the first of a queue and a
retry puts it back, so what must be added is that a queue rises and that what is on
the lane or in the worker's hand precedes it (`Batched`, `Rows`, `Hand`); that the copies in flight are the end
of the lane (`Tracks`); that those numbered so far are those on the lanes (`Numbers`); and
that a route is charged the weight of what is in flight (`Window`, a sum over a set).
A submission that is refused after the lane took the copy breaks that, but latches
a failure with it, after which no lane changes any more (`Stopped`). So the invariant is
the property together with `Stopped \/ Discipline`.

### Plan store (`PlanStoreProofs`)

For any number of processes, calls and crashes at any point:

* `StoreAnswersNoWorse`: a request handed a plan that runs here is not answered with
  a slower one. A fresh answer is held to the plan as it runs here; an answer that was
  stored is held to the makespan the plan carries, which is all the store looks at
  (section 5 has the case in which the two differ). Nothing is assumed;
* `StoreBesideItsPlan`: certificate and summary are those of the selection, on disk
  and in what a caller is handed (`OneUser` or `OneAnswer`);
* `StorePlanKept`: a stored plan is replaced only by a strictly faster one, unless
  a refresh asks for it (`Steady` or `OneAnswer`);
* `StoreRetentionWhole`: a caller that keeps alternatives gets all of them, and all
  from one search (`OneUser`, `OneAnswer` or `KeepsNone`).

In brackets are the kinds of instance a theorem is about, predicates of the setup
defined in `PlanStore`: `OneUser` (one process), `OneAnswer` (all searches of the
request answer the same and are handed no plan), `Steady` (one process, and a search
that keeps alternatives does not refuse what was planned before), `KeepsNone` (nobody
asks for alternatives). The deviations of section 5 are what happens outside them.
`MCPlanStore` assumes that every setup of the run is of the kinds its properties need
and that a plan in hand runs faster here than where it was found (`AgreeingKinds`), so
TLC evaluates them. The invariant ties each file still to be replaced to the process
and the step that will replace it.

### Simulator (`SimulatorProofs`)

For any program, schedule, capacities and admission:

* `SimulatorBytesExact`: the spill counter is the bytes of the allocated spill
  copies, the workspace counter those of the running tasks, the device counter,
  without an admission, the bytes of the allocated device copies and the running
  workspaces, and both pools stay within their capacities;
* `SimulatorDestinationsReserved`: a queued or active copy has its destination
  until it lands, so the two assertions of `_try_start_direction` never fire;
* `SimulatorKeepsContract`: the simulator implements `Residency`: initial states map
  to initial states and each step to a step of the contract or a stutter;
* `SimulatorDeviceCopyCurrent`: the readable device copy is the latest version.

What is asked of the problems are predicates over them, and TLC evaluates each on
every problem of the run (`ProblemsInScope` in `MCSimulator`): `InTurn`, a group is
moved only behind its producer and fetched again only after it left; `Releases`, an
admission charges no bytes at an end; for the last two theorems `Causal`, the
tasks that touch a group are ordered against the triggers of its actions. The
walk of `Schedule` asks for the first; `Releases` is how admissions are built; the
third is not checked by the code (section 5). The shape of a problem is the
assumption `ProblemsShaped`.

The last two theorems speak of the behaviours in which no task is launched while
an action on something it touches is still waiting to be submitted (`OnTime`). That is a
hypothesis about the behaviour, not about the problem, and needed: section 5
gives a short schedule without it. It holds in every state of the `simulator` run.

The argument is about the pending flags. An action that queues a copy sets the
flag of its group, the landing clears it. So the copies of a lane are of different
groups, a landing finds the state its submission left, and an action that finds
a group ready knows that no fetch of it is under way. Launch order and
dependencies make a task start only when all tasks of `EndsBefore` are done, which
with `Causal` keeps writers away from copies under way: a landing copies the
latest version (`Current`). The counters are sums over sets, folds that the prover
cannot unfold by induction. `TotalAdd`, `TotalRemove` and `TotalUnion` are proved by
a smallest counterexample instead (`OperatorLemmas`): the subsets of a finite set are
well founded.

### Fixed layouts (`SimulatorProofs`, `OperatorLemmas`)

* `LayoutPlacementSound`: in the layout measured for any problem, and for whatever
  intervals the first simulation predicts, leases that are live together share no
  byte, every offset is aligned, no lease outside the resident slice would fit at a
  lower aligned offset beside the others, and a resident lease shares with nobody.

The hypothesis is `FactsValid`: what a task's allocation steps reuse or
release the task allocated before, aliases are those of the program, alignments are
positive and the actions are in the order of their triggers. That is less than
`TaskAdmissionSpec._validate_allocation_steps` and the schedule's constructor check.
TLC evaluates it on every problem of the run (`ProblemsAdmitted`).

The state part of the argument is short. `Measuring` says that the first simulation
keeps its problem and measures numbers, and that the layout being judged is the one
of both; `PlacementSound` is then a statement about three programs of nested loops,
read as operators. A fold is a table over the subsets of what it loops over, chosen
to satisfy its recursion, so the first thing to prove is that such a table exists
(`TableExists`, `LoopExists`): a smallest subset without one would get one from the
subset before it. What a round keeps the table then keeps, again by a smallest
counterexample. On that stand

* the sort: `Arranged` lists every member exactly once, in order (`ArrangedInOrder`);
* the scan for a gap: its cursor clears every extent behind it, and every lower
  aligned offset meets one (`LowestFitSound`);
* the placement: each round keeps the offsets sound, whatever is placed later goes
  where it meets nobody, so what blocks a lower offset stays (`PlaceKeepsSound`,
  `MainAssignment`), and the resident slice lies behind all of it (`ResidentSlice`);
* the replay: through its eight loops each lease keeps positive bytes, a purpose, a
  task to begin with unless it is initial, and a task or an action that ends it
  (`ReplayShaped`, `ReplayIsShaped`). Inside a task the invariant also says that each
  ordinal allocated so far has a lease of a task (`StepsKept`): without it a reuse or
  a release could name a lease that does not exist.

### Search (`SimulatorProofs`, `OperatorLemmas`)

For any problem, strategy, way of cutting, and number of repairs:

* `SearchPressureExact`: the pressure that the reducer updates cut by cut is what
  the scalar definition gives the plan, and never below it with fetch headroom;
* `SearchFloorSuffices`: where the floor of anchors and fresh outputs fits, the first
  reduction of a tight strategy never stops over budget, and the plan it reaches
  has a trigger for every reload. That is what `assert_required_floor` is for.

The first needs nothing of the problems but their shape. The second asks
`EntersResident`: what the first task reads is on the device at the start.
`build_facts` refuses a program otherwise, except for a group that some task
produces later; for such a group a plan without a window for its first reload
can be reached. TLC evaluates the hypothesis on every problem (`ProblemsEntered`).

Pressure at a boundary is a sum of one share per group (`SweepShares`): its size for
each of its stays that is charged there, and once for an output that appears there. A
cut replaces the stays of one group, so it changes one share of the sum (`TotalMasked`,
`PressureMoves`). For that the stays of a plan must remain
apart and inside the boundaries, which is the inductive part (`Planned`); the repairs
start again from the seed.

The floor argument adds what cutting leaves of the seed (`Floored`): a stay from the
start is anchored there, and two stays of a group have a boundary between them, or
meet behind an anchor that no later task uses. The group has then left before it must
return (`LeavesBy`, `WindowsOpen`). A boundary over budget while the floor fits has a charged group that the floor does
not hold (`FloorLeavesOut`), and such a group has a legal cut there (`CutExists`).
Boundary 0 is never over budget, since the floor holds there all that is charged.

### Only model-checked

* Liveness (`ReservationSettles`, `ClientsServed`, `AllReclaimed`,
  `AllocationAnswered`, `RetirementsDrain`, `ActionsComplete`, `Terminates`,
  `SearchEnds`): the prover has neither fairness nor ENABLED.
* `Simulator.WalkIsSound`, `FixedLayout.RangesIntact` and `CertifiedNeverStuck`, and
  `PressureFit.SchedulesValidate` and `AnalyticFitRuns`: what makes them true is what
  the static walk, or the replay with its reuse edges, computes over a whole schedule.
  The library's induction theorems cannot be instantiated for that; tables and smallest
  counterexamples carry sums, sorts, the placement, the shape of the replay and the
  pressure of a plan, and for the rest they would have to relate such a table,
  entry by entry, to the state of a simulation under way. `SchedulesValidate` relates
  the walk to a schedule emitted from a plan; the other four also build on the walk.
* `Transfers` outside `InScope`, and the setups of `Retirement` and `PlanStore` outside
  the kinds named above.
* `ReservationsConsumed`, which holds only of plans whose destinations are all used.

## 5. Findings

PROJECT.json `findings` gives the quotations of the first; it has a run with a
trace.

1. `retirement_queue.c:49`. A retirement with recorded uses makes the worker take
   the pool lock as a foreground client, which waits for reservations, while a
   boundary that needs several ranges to coalesce waits for the worker at
   reservation priority (`pool_lock_coalesce`).

### Deviations seen without a run of their own

The passing runs exclude these cases. Each appears when the parameter named is
opened in the MC module.

Runtime:

* `retirement_queue.c:404`. A successor that acquires a retiring range before the
  worker reclaims it detaches the predecessor from its pool (`causal.c:273`); the
  worker then drops the record without counting it down, and
  `pending_retirements` stays above zero. Closing and waits that ask whether a
  release is coming depend on that counter; `memory-runtime.md:113` says the
  predecessor "is removed from pending ownership". `MCRetirement` with
  `Setups <- Transferring` violates `PendingExact`.
* `allocations/leases.c:302`. The release of an object whose range a successor has
  already acquired is refused (`pool` is NULL) and a failure is latched, while
  `memory-runtime.md:68` says the detached record "awaits release". `MCTransfers`
  with `Plans <- HandedOver` violates `PlanNeverFails`.
* `task_boundaries.c:486`. A copy to the spill pool reserves a range although the
  object has one; the reservation is forgotten when the action finishes
  (`object_actions.c:148`). `MCTransfers` with `Plans <- Plainest` violates
  `ReservationsConsumed`, which is defined for this case only.
* `allocate.c:132`: a wait for capacity inside a task publishes the task's frees
  on the stream that asks, though a side stream that used them may not be joined
  yet (`memory-runtime.md:107` asks for completion of the stream that last used
  the range). In `MCRetirement`, `Joining` with one range instead of two
  violates `FreeRangesIdle`.
* `dispatch.c:377`: a fetch clears its destination before the lane is asked, so a
  lane that asks for a retry, as `lane.h:238` permits, leaves an action that is
  refused when it is revisited. No lane in the repository retries a fetch. Adding
  `"FETCH"` to a plan's `retries` violates `PlanNeverFails`.
* `actions.c:162`: a release keeps the spill copy of an object that does not
  retain it, while `simulation.md:47` says the copy is dropped.
* `task_boundaries.c:178`: whether a destination can ever fit is asked for the
  object's device bytes, also for a spill destination, whose size differs for a
  compound transfer. Both sizes are one in the models.

Simulator and layout:

* `simulator/implementation.py:639`. With a write-back, a release and a fetch of
  one group at one boundary, the release waits for the write-back; a task that
  writes the group may launch meanwhile, and the fetch then lands the older
  version as a ready device copy (912). `MCSimulator` with `Prompt = FALSE`
  violates `DeviceCopyCurrent`. The search never emits such a boundary. Any action that
  waits, also a fetch for room (686), holds back the actions behind it while
  tasks go on: with two bytes of device memory and `evict c, fetch b, evict w,
  fetch w` at one boundary, a task that writes `w` may be launched while the fetch
  of `b` waits, and `w` leaves and comes back at the older version under it.
  `simulation.md` says a fetch leaves a current device copy.
  Hence `OnTime` in the theorems about the contract.
* A group can be dropped under a running task of another lane, when tasks that
  touch it are not ordered; `CausallyOrdered` excludes it. Program checks ask for
  producers among the dependencies and not for an order of writers and readers.
* Placement of write-backs: the copy of a write-back still reads a range that the
  recovered dependencies let another lease take, against
  `fixed-placement.md` ("cannot be wrong; the successor waits"). `MCFixedLayout`
  with `"writeback"` among `ActionKinds` and `MaxActions = 2` violates
  `RangesIntact`. The shipped search emits no write-backs, and the readable
  replay treats them as fetches.
* A schedule whose predicted order differs from program order (two lanes, or a
  boundary that fetches before it releases) can have a layout that fits and is
  still refused (`reuse.py:185`).

Search:

* The required floor (`residency.py:489`) charges a group that must end on the
  device at every anchor, so a program it refuses may have a schedule, although
  it is called a necessary-condition preflight (`implementation.py:154`).
* With fetch headroom `_pressure_by_device` counts two adjacent spans twice at
  the boundary they share, and `boundary_bytes` once; `PressureExact` therefore
  states an inequality there.
* A `task-device-capacity` report names the outputs of the task, so `_delay_fetch`
  looks for a fetch of the first output and practically never delays one.
* `_delay_fetch` validates what it builds and nobody catches its refusal;
  `SchedulesValidate` covers it and it does not happen in the instances.

Store:

The first four are statements of `MCPlanStore`, each broken on the instance named
after it (`Setups <- ...` and the statement as the only invariant).

* `plan_store/__init__.py:137`. The plan in hand carries the makespan of the
  machine it was found on, usually with less memory. When it is slower there than
  the stored plan is here, the stored plan is served unmeasured, although the plan
  in hand may be faster here: "cached answers may never conceal it"
  (`plan_store/__init__.py:42`), "More memory never plans worse"
  (`docs/architecture/search.md:90`). `NeverConceals` on `Swept`. `AnswersNoWorse`
  states what is kept.
* `search/__init__.py:370`. A plan in hand that outruns the search's answer takes its
  place with the diagnostics of the search, whose `selected_makespan_ns` is another. The
  record is written, and every later read of it is refused (`reader.py:97`), while
  `test_plan_store.py:263` reads back what was chosen. `ReadsBack` on `Swept`.
* `writer.py:107`. Two answers are compared without the top-level provenance, but the
  diagnostics compared with them name what became of the plan in hand. A process
  killed before it could retain its alternatives, and called again with another plan
  in hand or none, is refused with "differs" for the same plan: "Provenance is not the
  answer" (`writer.py:48`). `ProvenanceIsNotTheAnswer` on `Retained`.
* `writer.py:66`. A selection is replaced before the old alternatives are, and not at
  all by a caller that keeps none: a later reader gets the alternatives of the earlier
  search, complete with their manifest, beside the new plan. `AlternativesOfAnswer` on
  `Retained`. `RetentionWhole` says what is kept: all of one search.
* `resolutions.py:134`. `rmtree(ignore_errors=True)` leaves what another process adds
  after the listing, and that process may find the directory gone and raise
  (`DirectoryGone`).
* Two processes that search the same request and find different plans can leave
  one's certificate beside the other's plan, a refusal over a plan, or the slower
  of two improvements; a later admission refuses the mismatch by digest. The runs
  let concurrent processes find the same plan, as a deterministic search does.
* `writer.py:70`. A retention whose manifest is missing (the process that wrote the
  entry was killed before it) makes the store search again; if that search
  refuses, `write_verdict` replaces the stored plan without looking at it. `PlanKept`
  is violated by one process that keeps alternatives and whose searches may find a
  plan or refuse; the setups of the run are `Steady`.
* A certificate unlinked between `exists` and the read raises
  (`reader.py:122`); the model ends such a call as `"vanished"`.

## 6. Limits of the models

* Whether a release is coming is decided from pending retirements;
  `has_release_source` also counts pending capacity actions.
* Handing a released lease to a caller (`handoff_lease`) and compound transfers
  are not modelled.
* In `Transfers` the spill range of an object is one boolean; its own retirement
  is not tracked, and the spill pool has no bound.
* `handle_transfer` drops the object's lock around the dependency check; the
  model takes that part as one step, since everything decided before is read
  again after.
* Only one thread runs tasks in the runs of `Retirement`; others allocate and free
  outside tasks.
* Events are positions in streams: reuse of event handles and the completion
  tracker are not modelled. Atomics are sequentially consistent.
* `Simulator` has one device. Rates, shared bandwidth and makespans are left out:
  any order of completions stands for all of them, so nothing is said about which
  of two feasible schedules is faster.
* `FixedLayout` leaves out zero-length lifetimes and the records handed to the
  runtime. Its timing is event counts, which order lifetimes as times do. Values
  without bytes get no lease by hand-off, replacement or fetch; a schedule with an
  action on one is refused before it is replayed (`ir/schedule.py:294`). A write-back
  has a branch of its own, where the readable replay takes the one for fetches.
* `CertifiedNeverStuck` and `WalkIsSound` say nothing of runs in which an action had
  to wait for room (`deferred`). The slice of a layout is held throughout, so what the
  first adds is that the recovered reuse edges do not wait in a circle.
* `FreeLocal` takes frees inside a task from streams of that task. `free.c:194` does
  not check the stream: that is the framework's part, and without the guard `Plain` of
  `MCRetirement` violates `FreeRangesIdle`.
* `Movable` lets an object be fetched only if a later task uses it before it leaves
  again. The simulator accepts more (`transfers.c:341`), the search emits no more.
  Without that clause `PlanNeverFails` is violated within 5 states; with it weakened to
  "some task is still to come", `RangesOutliveUse` within 13.
* No instance publishes frees in the middle of a task that uses a side stream, and no
  run of `PendingExact` has a successor that acquires early: the deviations at
  `allocate.c:132` and `retirement_queue.c:404` are what happens there.
* `PressureFit` is one candidate. Choosing among candidates and resolutions,
  worker processes and the caches shared between candidates are left out.
* `PlanStore` is one entry. That equal keys mean equal requests, and that a file
  holds what was written into it, is taken for granted.

### Not modelled, and why

The repository holds about 128 000 lines of Python and the C libraries beside
them. The models cover the parts that decide what happens to memory: the C
runtime (`csrc/src/runtime`), and in Python the schedule, the simulator,
admission, the search and the store, about 4 000 lines. Most of the rest has no
state whose sequences could go wrong: capture and lowering build data from
framework objects once; baselines, benchmarks, qualification, workloads and
training scripts are experiments; diagnostics, traces and videos present results;
tests and reference twins repeat code that is modelled. Remote memory, its daemon
and the SSD lane are systems of their own behind the lane interface, whose
contract `Transfers` states. Backends and the adapter bind foreign interfaces. So
the share of all lines that the map names stays small by the nature of the
repository.

## 7. Plan

Built: ranges, leases, lock, retirement, transfers; schedule, simulator with its
abstract contract, layout, search, store; proofs about each of them.

Proofs still worth having: `WalkIsSound`, by a smallest point of the walk at which
walk and simulator part, and after it the remaining invariants of `FixedLayout`;
`SchedulesValidate`, from the stays of a plan to the walk over what they emit.

Models still worth having: `EventPool` (reference-counted events, the per-stream
completion list, a lost wake-up), `PlanLife` (opening, lending, sealing and
reclaiming layouts, closing, recovery after NO_PROGRESS), two concurrent task
scopes, the staging timeline of the remote lane.
