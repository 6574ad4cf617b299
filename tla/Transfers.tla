------------------------------ MODULE Transfers ------------------------------
(***************************************************************************)
(* Objects that move between the execution pool and the spill pool: the    *)
(* task boundary that schedules releases, evictions, fetches and           *)
(* write-backs (tasks/task_boundaries.c, objects/object_actions.c), the    *)
(* two queues of each route (transfers/transfer_queue.c), the worker that  *)
(* dispatches copies on a lane and commits them (worker/actions.c,         *)
(* dispatch.c, completion.c), and the device that runs tasks and copies    *)
(* behind the host.                                                        *)
(*                                                                         *)
(* The dispatcher thread runs ahead of the device: versions, residencies   *)
(* and projections are host state, while what a range really holds changes *)
(* only when a task or a copy runs.  A section of an object's lock is one  *)
(* action; where the code drops the lock inside a handler the handler is   *)
(* two.  Capacity is the business of LeasePool and Retirement: every       *)
(* destination is granted, possibly in a range whose last owner is still   *)
(* retiring.  The plan is one the simulator accepts: a task uses what the  *)
(* schedule keeps on the device, and nothing leaves before it was used.    *)
(***************************************************************************)
EXTENDS Integers, Sequences, FiniteSets, FiniteSetsExt, SequencesExt, Collections

CONSTANTS
  Objects,
  Plans,            \* the admitted plans this instance is about
  None

\* retained    the objects that keep their spill copy when fetched
\* produced    the objects that start on the device, with no spill copy
\* collective  the objects whose copies every rank submits in one order
\* kinds       the kinds of action the plan uses
\* size        bytes of an object
\* window      background_window_bytes; 0 is no bound
\* retries     the kinds whose lane may ask to be retried
\* background  the caller also submits action batches
\* reuses      destinations may reuse a range that is still retiring
\* causal      a reused range is handed over, not placed by a layout
\* tasks, actions, batch   bounds: tasks, actions, actions of one boundary
AllKinds == {"FETCH", "RELEASE", "EVICT", "WRITE_BACK"}
Plan == [retained : SUBSET Objects, produced : SUBSET Objects, collective : SUBSET Objects,
         kinds : SUBSET AllKinds, size : [Objects -> Nat \ {0}], window : Nat,
         retries : SUBSET AllKinds, background : BOOLEAN, reuses : BOOLEAN,
         causal : BOOLEAN, tasks : Nat, actions : Nat, batch : Nat]

ASSUME ObjectsAssumption == IsFiniteSet(Objects) /\ None \notin Objects
ASSUME PlansAssumption == \A p \in Plans : p \in Plan

\* The kind of plan whose safety is proved: a layout places every reused range, and
\* no lane asks for a fetch to be retried.
PlanInScope(p) == ~p.causal /\ "FETCH" \notin p.retries

VARIABLES
  plan,       \* the plan: chosen once
  obj,        \* ShadowSpillObject with its two locations
  leases,     \* of each object, the execution leases it ever held, by generation
  acts,       \* the actions, numbered in the order the boundaries schedule them
  fifo,       \* of each object, its actions in order
  planned,    \* of each route, pending_head .. pending_tail
  waiting,    \* of each route, background_head .. background_tail
  inflight,   \* of each route, inflight_head .. inflight_tail
  charged,    \* of each route, background_inflight_bytes
  submitted,  \* submitted_collective_sequence
  sequences,  \* next_collective_sequence
  worker,     \* the action the worker is in the middle of
  boundary,   \* the dispatcher thread: where it is, and its batch
  published,  \* how many actions the worker's list has ever held
  failed,     \* a failure is latched
  tasks,      \* the tasks launched, in stream order
  ran,        \* how many of them have run
  lane,       \* of each route, the copies submitted, in stream order
  copied,     \* the copies that have run
  spilled     \* what each object's spill range holds

host == << obj, leases, acts, fifo, planned, waiting, inflight, charged,
           submitted, sequences, worker, boundary, published, failed >>
device == << tasks, ran, lane, copied, spilled, plan >>
vars == << host, device >>

Routes == {"fetch", "evict"}
OnDevice == {"EXECUTION_READY", "FETCHING"}
NoEvent == << "none", 0 >>
NoRange == << None, 0 >>
Live == [data |-> 0, state |-> "IN_USE", event |-> NoEvent]
Idle == [at |-> "idle", action |-> 0, version |-> 0]
Outside == [at |-> "idle", background |-> FALSE, update |-> None, batch |-> << >>]

Registered(o) ==
  LET onDevice == o \in plan.produced IN
  [residency |-> IF onDevice THEN "EXECUTION_READY" ELSE "SPILL_ONLY",
   version |-> 0,
   lease |-> IF onDevice THEN 1 ELSE 0, execVersion |-> 0,
   spill |-> ~onDevice, spillCurrent |-> ~onDevice, spillVersion |-> 0,
   readiness |-> 0, unpublished |-> 0]

Init ==
  /\ plan \in Plans
  /\ obj = [o \in Objects |-> Registered(o)]
  /\ leases = [o \in Objects |-> IF o \in plan.produced THEN << Live >> ELSE << >>]
  /\ acts = << >>
  /\ fifo = [o \in Objects |-> << >>]
  /\ planned = [r \in Routes |-> << >>]
  /\ waiting = [r \in Routes |-> << >>]
  /\ inflight = [r \in Routes |-> << >>]
  /\ charged = [r \in Routes |-> 0]
  /\ submitted = 0
  /\ sequences = 0
  /\ worker = Idle
  /\ boundary = Outside
  /\ published = 0
  /\ failed = FALSE
  /\ tasks = << >>
  /\ ran = 0
  /\ lane = [r \in Routes |-> << >>]
  /\ copied = {}
  /\ spilled = [o \in Objects |-> IF o \in plan.produced THEN -1 ELSE 0]

-----------------------------------------------------------------------------
(* Events and ranges. *)

Complete(event) ==
  CASE event[1] = "task" -> event[2] <= ran
    [] event[1] = "copy" -> event[2] \in copied
    [] OTHER -> FALSE

Lease(range) == leases[range[1]][range[2]]

\* An event that orders the reuse of the range exists, or the range was released.
Ordered(range) ==
  range # NoRange => Lease(range).state = "FREE" \/ Lease(range).event # NoEvent

\* begin_retirement refuses a lease that is not in use.
Retire(range, event) ==
  [leases EXCEPT ![range[1]][range[2]] = [@ EXCEPT !.state = "RETIRE_PENDING", !.event = event]]

Retirable(range) == range[2] # 0 /\ Lease(range).state = "IN_USE"

Copies(a) == acts[a].kind \in {"EVICT", "WRITE_BACK"} /\ ~acts[a].skips
Route(a) == IF acts[a].kind = "FETCH" THEN "fetch" ELSE "evict"
Queued(a) == acts[a].kind # "RELEASE" /\ ~acts[a].skips
Bytes(a) == IF acts[a].background THEN plan.size[acts[a].obj] ELSE 0

-----------------------------------------------------------------------------
(* The task boundary. *)

\* What the object will be once its queued actions are done.
Projected(o) ==
  LET x == obj[o]
      tail == Last(fifo[o])
  IN IF fifo[o] # << >> /\ acts[tail].version = x.version
     THEN [exec |-> acts[tail].exec, spill |-> acts[tail].spill]
     ELSE [exec |-> x.residency \in OnDevice /\ x.lease # 0 /\ x.execVersion = x.version,
           spill |-> x.spill /\ x.spillCurrent /\ x.spillVersion = x.version]

\* Acquiring a binding: the readiness event to wait for, if the fetch still runs.
Bound(o) ==
  /\ obj[o].unpublished = 0
  /\ obj[o].residency \in OnDevice
  /\ obj[o].lease # 0
  /\ obj[o].execVersion = obj[o].version
  /\ obj[o].residency = "FETCHING" => obj[o].readiness # 0

\* Mutant of Readiness: a bound input is taken to be ready.
ReadinessIgnored(o) == {}

\* The stream waits for a fetch that is still on its lane.
Readiness(o) == IF obj[o].residency = "FETCHING" THEN {obj[o].readiness} ELSE {}

BeginTask(o, mutates) ==
  /\ boundary.at = "idle" /\ ~failed
  /\ Len(tasks) < plan.tasks
  /\ Projected(o).exec
  /\ IF Bound(o)
     THEN /\ tasks' = Append(tasks,
               [obj |-> o, lease |-> obj[o].lease, mutates |-> mutates,
                expects |-> obj[o].version, saw |-> -1,
                waits |-> Readiness(o)])
          /\ boundary' = [Outside EXCEPT !.at = "task", !.update = IF mutates THEN o ELSE None]
          /\ UNCHANGED failed
     ELSE failed' = TRUE /\ UNCHANGED << tasks, boundary >>
  /\ UNCHANGED << obj, leases, acts, fifo, planned, waiting, inflight, charged, submitted,
                  sequences, worker, published, ran, lane, copied, spilled, plan >>

\* publish_mutations: the new version is the device's; the spill copy is stale.
PublishMutation ==
  /\ boundary.at = "task" /\ ~failed
  /\ boundary' = [boundary EXCEPT !.at = "batch", !.update = None]
  /\ LET o == boundary.update IN
       \/ o = None /\ UNCHANGED << obj, failed >>
       \/ /\ o # None /\ obj[o].residency \in OnDevice
          /\ obj' = [obj EXCEPT ![o].version = @ + 1,
                                ![o].execVersion = obj[o].version + 1,
                                ![o].spillCurrent = FALSE]
          /\ UNCHANGED failed
       \/ o # None /\ obj[o].residency \notin OnDevice /\ failed' = TRUE /\ UNCHANGED obj
  /\ UNCHANGED << leases, acts, fifo, planned, waiting, inflight, charged, submitted, sequences,
                  worker, published, device >>

\* An action batch is a boundary with no task, triggered by the stream as it is.
BeginActionBatch ==
  /\ plan.background /\ boundary.at = "idle" /\ ~failed
  /\ Len(acts) < plan.actions
  /\ boundary' = [Outside EXCEPT !.at = "batch", !.background = TRUE]
  /\ UNCHANGED << obj, leases, acts, fifo, planned, waiting, inflight, charged, submitted,
                  sequences, worker, published, failed, device >>

\* What the plans of the search keep to beyond what the simulator checks: a device
\* copy moves only after a task used it (transfers.c:341 accepts one that was
\* fetched and never read), and is copied only once at a boundary.
Movable(kind, o) ==
  \A a \in DOMAIN acts : acts[a].obj = o =>
    /\ acts[a].kind = "FETCH" => \E t \in DOMAIN tasks : tasks[t].obj = o /\ t > acts[a].task
    /\ kind # "RELEASE" /\ Copies(a) => acts[a].task < Len(tasks)

\* schedule_action: what each kind asks of the projected object.
Schedulable(kind, o) ==
  IF kind = "FETCH" THEN Projected(o).spill /\ ~Projected(o).exec ELSE Projected(o).exec

\* Mutant of PendingCopy: a release ignores the copy before it.
PendingCopyMissed(o) == FALSE

\* A write-back of the object that has still to copy, queued or in flight.
PendingCopy(o) == \E i \in DOMAIN fifo[o] : acts[fifo[o][i]].kind = "WRITE_BACK" /\ Copies(fifo[o][i])

\* The ranges a destination may be promised: retiring, and promised to nobody.
Promisable ==
  {range \in UNION {{o} \X DOMAIN leases[o] : o \in Objects} :
     /\ Lease(range).state = "RETIRE_PENDING"
     /\ \A a \in DOMAIN acts : acts[a].pred # range}

NeedsDestination(kind, o) ==
  \/ kind = "FETCH"
  \/ kind \in {"EVICT", "WRITE_BACK"} /\ (~obj[o].spill \/ o \notin plan.retained)

Scheduled(kind, o, pred) ==
  LET before == Projected(o) IN
  [kind |-> kind, obj |-> o, background |-> boundary.background, task |-> Len(tasks),
   state |-> "QUEUED", version |-> obj[o].version,
   exec |-> kind \in {"FETCH", "WRITE_BACK"},
   spill |-> CASE kind = "FETCH" -> o \in plan.retained
               [] kind = "RELEASE" -> before.spill
               [] OTHER -> TRUE,
   skips |-> kind = "WRITE_BACK" /\ before.spill,
   late |-> kind = "RELEASE" /\ PendingCopy(o),
   destination |-> NeedsDestination(kind, o),
   lease |-> 0, pred |-> pred, waits |-> NoEvent, sequence |-> 0]

\* instantiate_actions: schedule one action, retire its source, reserve its destination.
InstantiateAction(kind, o, pred) ==
  LET a == Scheduled(kind, o, pred)
      source == << o, obj[o].lease >>
      retires == kind = "EVICT" \/ (kind = "RELEASE" /\ ~a.late)
      event == IF kind = "RELEASE" THEN << "task", Len(tasks) >> ELSE NoEvent
  IN /\ boundary.at = "batch" /\ ~failed
     /\ Len(acts) < plan.actions /\ Len(boundary.batch) < plan.batch
     /\ Schedulable(kind, o)
     /\ kind # "FETCH" => Movable(kind, o)
     /\ acts' = Append(acts, a)
     /\ fifo' = [fifo EXCEPT ![o] = Append(@, Len(acts) + 1)]
     /\ boundary' = [boundary EXCEPT !.batch = Append(@, Len(acts) + 1)]
     /\ obj' = [obj EXCEPT ![o].unpublished = IF kind = "FETCH" THEN @ + 1 ELSE @]
     /\ \/ kind = "FETCH" /\ UNCHANGED << leases, failed >>
        \/ /\ kind # "FETCH" /\ retires /\ Retirable(source)
           /\ leases' = Retire(source, event)
           /\ UNCHANGED failed
        \/ /\ kind # "FETCH" /\ ~retires /\ obj[o].lease # 0
           /\ UNCHANGED << leases, failed >>
        \/ /\ kind # "FETCH" /\ IF retires THEN ~Retirable(source) ELSE obj[o].lease = 0
           /\ failed' = TRUE /\ UNCHANGED leases
     /\ UNCHANGED << planned, waiting, inflight, charged, submitted, sequences, worker,
                     published, device >>

\* The collective copies of the batch.
Collectives ==
  {a \in Range(boundary.batch) : acts[a].obj \in plan.collective /\ Queued(a)}

Place(a, first) ==
  Cardinality({b \in Collectives : IF Route(b) = Route(a) THEN b <= a ELSE Route(b) = first})

\* Mutant of Numbered: the fetches are numbered first.
NumberedFetchesFirst ==
  [a \in DOMAIN acts |->
     IF a \in Collectives THEN [acts[a] EXCEPT !.sequence = sequences + Place(a, "fetch")]
     ELSE acts[a]]

\* Collective copies to the spill pool are numbered first, then the fetches,
\* each in the order of the batch.
Numbered ==
  [a \in DOMAIN acts |->
     IF a \in Collectives THEN [acts[a] EXCEPT !.sequence = sequences + Place(a, "evict")]
     ELSE acts[a]]

\* The batch is appended to the queues in its order, which numbered the actions.
Enqueued(queue, background) ==
  [r \in Routes |-> queue[r] \o Ascending({a \in Range(boundary.batch) :
     Queued(a) /\ Route(a) = r /\ acts[a].background = background})]

\* publish_action_batch, then await_worker_submission.
PublishBatch ==
  /\ boundary.at = "batch" /\ ~failed
  /\ acts' = Numbered
  /\ sequences' = sequences + Cardinality(Collectives)
  /\ planned' = Enqueued(planned, FALSE)
  /\ waiting' = Enqueued(waiting, TRUE)
  /\ published' = Len(acts)
  /\ boundary' = IF boundary.batch = << >> THEN Outside ELSE [boundary EXCEPT !.at = "await"]
  /\ UNCHANGED << obj, leases, fifo, inflight, charged, submitted, worker, failed, device >>

\* Mutant of Acknowledge: the boundary returns before the worker has submitted.
AcknowledgeEarly ==
  /\ boundary.at = "await" /\ ~failed
  /\ boundary' = Outside
  /\ UNCHANGED << obj, leases, acts, fifo, planned, waiting, inflight, charged, submitted,
                  sequences, worker, published, failed, device >>

\* Every fetch and every collective of the batch has left the queue.
Acknowledge ==
  /\ boundary.at = "await" /\ ~failed
  /\ \A i \in DOMAIN boundary.batch :
       LET a == boundary.batch[i] IN
       acts[a].kind = "FETCH" \/ acts[a].sequence # 0 => acts[a].state # "QUEUED"
  /\ boundary' = Outside
  /\ UNCHANGED << obj, leases, acts, fifo, planned, waiting, inflight, charged, submitted,
                  sequences, worker, published, failed, device >>

-----------------------------------------------------------------------------
(* The worker. *)

\* The worker takes an action it was given, at the head of its object.
Handles(a) ==
  /\ worker.at = "idle" /\ ~failed
  /\ a \in 1 .. published
  /\ fifo[acts[a].obj] # << >> /\ Head(fifo[acts[a].obj]) = a

Triggered(a) == acts[a].task <= ran

\* Releasing an execution lease returns its records to its pool, and a lease whose
\* range was handed over has none.
Freed(o) == [leases EXCEPT ![o][obj[o].lease].state = "FREE"]
Releasable(o) == Lease(<< o, obj[o].lease >>).state # "PREDECESSOR_TRANSFERRED"

\* The object without its execution copy.
Departed(x) == [x EXCEPT !.lease = 0]

HandleRelease(a) ==
  LET o == acts[a].obj IN
  /\ Handles(a) /\ acts[a].kind = "RELEASE" /\ acts[a].state = "QUEUED"
  /\ Triggered(a)
  /\ IF Releasable(o) /\ (acts[a].late => Retirable(<< o, obj[o].lease >>))
     THEN /\ leases' = Freed(o)
          /\ obj' = [obj EXCEPT ![o] = [Departed(@) EXCEPT !.residency =
                       IF obj[o].spillCurrent THEN "SPILL_ONLY" ELSE "RELEASED"]]
          /\ worker' = [Idle EXCEPT !.at = "done", !.action = a]
          /\ UNCHANGED failed
     ELSE failed' = TRUE /\ UNCHANGED << leases, obj, worker >>
  /\ UNCHANGED << acts, fifo, planned, waiting, inflight, charged, submitted, sequences,
                  boundary, published, device >>

\* A write-back of a current spill copy has nothing to do but be triggered.
SkipWriteBack(a) ==
  /\ Handles(a) /\ acts[a].skips /\ acts[a].state = "QUEUED"
  /\ Triggered(a)
  /\ worker' = [Idle EXCEPT !.at = "done", !.action = a]
  /\ UNCHANGED << obj, leases, acts, fifo, planned, waiting, inflight, charged, submitted,
                  sequences, boundary, published, failed, device >>

\* background_window_admits.
Admits(r, bytes) == plan.window = 0 \/ charged[r] = 0 \/ charged[r] + bytes <= plan.window

Claimable(a) ==
  LET r == Route(a) IN
  IF acts[a].background
  THEN waiting[r] # << >> /\ Head(waiting[r]) = a /\ Admits(r, Bytes(a))
  ELSE planned[r] # << >> /\ Head(planned[r]) = a

\* No range to copy into.
Stranded(a) ==
  ~acts[a].destination /\ (acts[a].kind = "FETCH" \/ ~obj[acts[a].obj].spill)

\* The spill copy a fetch is about to read is the object.
Fetchable(x) ==
  /\ x.residency = "SPILL_ONLY" /\ x.spill
  /\ x.spillCurrent /\ x.spillVersion = x.version

\* The transfer's turn: its collective number, its trigger, its destination.
Turn(a) ==
  /\ acts[a].sequence \in {0, submitted + 1}
  /\ Copies(a) => obj[acts[a].obj].residency # "FETCHING"
  /\ acts[a].kind # "FETCH" /\ acts[a].sequence = 0 => Triggered(a)
  /\ Ordered(acts[a].pred)

\* Mutant of Dependency: the lane does not wait for the last owner.
DependencyDropped(range) == NoEvent

\* The event the lane waits for before it writes a reused range.
Dependency(range) == IF range = NoRange THEN NoEvent ELSE Lease(range).event

\* handle_transfer down to the first half of the dispatch: claim the queue and
\* acquire the destination, whose range a causal hand-off takes from its owner.
Claim(a) ==
  LET o == acts[a].obj
      r == Route(a)
      pred == acts[a].pred
      generation == Len(leases[o]) + 1
      handed == plan.causal /\ pred # NoRange /\ Lease(pred).state = "RETIRE_PENDING"
      taken == IF handed
               THEN [leases EXCEPT ![pred[1]][pred[2]].state = "PREDECESSOR_TRANSFERRED"]
               ELSE leases
  IN /\ ~Stranded(a) /\ Turn(a) /\ Claimable(a)
     /\ IF acts[a].kind = "FETCH" THEN Fetchable(obj[o]) ELSE obj[o].lease # 0
     /\ IF acts[a].background
        THEN waiting' = [waiting EXCEPT ![r] = Tail(@)] /\ UNCHANGED planned
        ELSE planned' = [planned EXCEPT ![r] = Tail(@)] /\ UNCHANGED waiting
     /\ IF acts[a].kind = "FETCH"
        THEN /\ leases' = [taken EXCEPT ![o] = Append(@, Live)]
             /\ acts' = [acts EXCEPT ![a].destination = FALSE, ![a].lease = generation,
                                     ![a].waits = Dependency(pred)]
             /\ UNCHANGED obj
        ELSE /\ acts' = [acts EXCEPT ![a].destination = @ /\ obj[o].spill,
                                     ![a].lease = obj[o].lease]
             /\ obj' = [obj EXCEPT ![o].spill = TRUE]
             /\ UNCHANGED leases
     /\ worker' = [at |-> "lane", action |-> a, version |-> obj[o].version]
     /\ UNCHANGED << fifo, inflight, charged, submitted, sequences, boundary, published, failed,
                     device >>

\* A transfer the object's state refuses latches a failure.
Reject(a) ==
  /\ LET x == obj[acts[a].obj] IN
       \/ acts[a].sequence \in {0, submitted + 1} /\ Stranded(a)
       \/ Turn(a) /\ acts[a].kind = "FETCH" /\ ~Fetchable(x)
       \/ Turn(a) /\ acts[a].kind # "FETCH" /\ Claimable(a) /\ x.lease = 0
  /\ failed' = TRUE
  /\ UNCHANGED << obj, leases, acts, fifo, planned, waiting, inflight, charged, submitted,
                  sequences, worker, boundary, published, device >>

HandleTransfer(a) ==
  /\ Handles(a) /\ Queued(a) /\ acts[a].state = "QUEUED"
  /\ Claim(a) \/ Reject(a)

\* Mutant of ReturnClaim: the claim goes back to the tail.
ReturnClaimLast ==
  LET a == worker.action
      r == Route(a)
  IN /\ worker.at = "lane"
     /\ acts[a].kind \in plan.retries
     /\ IF acts[a].background
        THEN waiting' = [waiting EXCEPT ![r] = Append(@, a)] /\ UNCHANGED planned
        ELSE planned' = [planned EXCEPT ![r] = Append(@, a)] /\ UNCHANGED waiting
     /\ worker' = Idle
     /\ UNCHANGED << obj, leases, acts, fifo, inflight, charged, submitted, sequences, boundary,
                     published, failed, device >>

\* The lane cannot order the copy yet: back to the head of its queue.
ReturnClaim ==
  LET a == worker.action
      r == Route(a)
  IN /\ worker.at = "lane"
     /\ acts[a].kind \in plan.retries
     /\ IF acts[a].background
        THEN waiting' = [waiting EXCEPT ![r] = << a >> \o @] /\ UNCHANGED planned
        ELSE planned' = [planned EXCEPT ![r] = << a >> \o @] /\ UNCHANGED waiting
     /\ worker' = Idle
     /\ UNCHANGED << obj, leases, acts, fifo, inflight, charged, submitted, sequences, boundary,
                     published, failed, device >>

\* What must not have changed while the object's lock was down.
StillValid(a) ==
  LET x == obj[acts[a].obj] IN
  CASE acts[a].kind = "FETCH" -> /\ x.residency = "SPILL_ONLY" /\ x.spillCurrent
                                 /\ x.version = worker.version
    [] acts[a].kind = "EVICT" -> /\ x.lease = acts[a].lease
                                 /\ Lease(<< acts[a].obj, x.lease >>).state = "RETIRE_PENDING"
    [] OTHER -> x.lease = acts[a].lease

\* The object once its copy is on the lane.
Dispatched(a) ==
  LET x == obj[acts[a].obj] IN
  CASE acts[a].kind = "FETCH" -> [x EXCEPT !.lease = acts[a].lease, !.execVersion = x.spillVersion,
                                           !.residency = "FETCHING", !.readiness = a,
                                           !.unpublished = @ - 1]
    [] acts[a].kind = "EVICT" -> [x EXCEPT !.residency = "EVICTING"]
    [] OTHER -> x

\* publish_inflight adds what the window counts.
Charge(r, bytes) == [charged EXCEPT ![r] = @ + bytes]

\* The second half of the dispatch: submit the copy and publish it.
Submit ==
  LET a == worker.action
      o == acts[a].obj
      r == Route(a)
  IN /\ worker.at = "lane"
     /\ lane' = [lane EXCEPT ![r] = Append(@, a)]
     /\ IF StillValid(a)
        THEN /\ obj' = [obj EXCEPT ![o] = Dispatched(a)]
             /\ leases' = IF acts[a].kind = "EVICT"
                          THEN [leases EXCEPT ![o][acts[a].lease].event = << "copy", a >>]
                          ELSE leases
             /\ acts' = [acts EXCEPT ![a].state = "IN_FLIGHT"]
             /\ inflight' = [inflight EXCEPT ![r] = Append(@, a)]
             /\ charged' = Charge(r, Bytes(a))
             /\ submitted' = IF acts[a].sequence = 0 THEN submitted ELSE acts[a].sequence
             /\ UNCHANGED failed
        ELSE /\ failed' = TRUE
             /\ UNCHANGED << obj, leases, acts, inflight, charged, submitted >>
     /\ worker' = Idle
     /\ UNCHANGED << fifo, planned, waiting, sequences, boundary, published, tasks, ran, copied,
                     spilled, plan >>

\* Mutant of Landed: a write-back takes the version current when it lands.
LandedAsNewest(a) ==
  LET o == acts[a].obj
      x == obj[o]
  IN CASE acts[a].kind = "EVICT" ->
            [Departed(x) EXCEPT !.spillCurrent = TRUE, !.spillVersion = x.version,
                                !.residency = "SPILL_ONLY"]
       [] acts[a].kind = "WRITE_BACK" ->
            [x EXCEPT !.spillCurrent = TRUE, !.spillVersion = x.version]
       [] OTHER ->
            [x EXCEPT !.residency = "EXECUTION_READY", !.readiness = 0,
                      !.spill = @ /\ o \in plan.retained, !.spillCurrent = @ /\ o \in plan.retained]

\* The object once its copy landed.
Landed(a) ==
  LET o == acts[a].obj
      x == obj[o]
  IN CASE acts[a].kind = "EVICT" ->
            [Departed(x) EXCEPT !.spillCurrent = TRUE, !.spillVersion = x.version,
                                !.residency = "SPILL_ONLY"]
       [] acts[a].kind = "WRITE_BACK" ->
            [x EXCEPT !.spillCurrent = TRUE, !.spillVersion = acts[a].version]
       [] OTHER ->
            [x EXCEPT !.residency = "EXECUTION_READY", !.readiness = 0,
                      !.spill = @ /\ o \in plan.retained, !.spillCurrent = @ /\ o \in plan.retained]

\* complete takes it back.
Discharge(r, bytes) == [charged EXCEPT ![r] = IF bytes > @ THEN 0 ELSE @ - bytes]

\* finish: commit the head of the queue once its copy is done.
Finish(a) ==
  LET o == acts[a].obj
      r == Route(a)
  IN /\ Handles(a) /\ acts[a].state = "IN_FLIGHT"
     /\ Head(inflight[r]) = a
     /\ a \in copied
     /\ IF acts[a].kind = "EVICT" => Releasable(o)
        THEN /\ obj' = [obj EXCEPT ![o] = Landed(a)]
             /\ leases' = IF acts[a].kind = "EVICT" THEN Freed(o) ELSE leases
             /\ inflight' = [inflight EXCEPT ![r] = Tail(@)]
             /\ charged' = Discharge(r, Bytes(a))
             /\ worker' = [Idle EXCEPT !.at = "done", !.action = a]
             /\ UNCHANGED failed
        ELSE failed' = TRUE /\ UNCHANGED << obj, leases, inflight, charged, worker >>
     /\ UNCHANGED << acts, fifo, planned, waiting, submitted, sequences, boundary, published,
                     device >>

\* action_complete: take the action off its object's list.
CompleteAction ==
  LET a == worker.action
      o == acts[a].obj
  IN /\ worker.at = "done"
     /\ fifo' = [fifo EXCEPT ![o] = Tail(@)]
     /\ acts' = [acts EXCEPT ![a].state = "FINISHED"]
     /\ worker' = Idle
     /\ UNCHANGED << obj, leases, planned, waiting, inflight, charged, submitted, sequences,
                     boundary, published, failed, device >>

-----------------------------------------------------------------------------
(* The device. *)

RunTask ==
  LET t == tasks[ran + 1]
      g == leases[t.obj][t.lease]
  IN /\ ran < Len(tasks)
     /\ t.waits \subseteq copied
     /\ ran' = ran + 1
     /\ tasks' = [tasks EXCEPT ![ran + 1].saw = g.data]
     /\ leases' = IF t.mutates
                  THEN [leases EXCEPT ![t.obj][t.lease].data = t.expects + 1]
                  ELSE leases
     /\ UNCHANGED << obj, acts, fifo, planned, waiting, inflight, charged, submitted, sequences,
                     worker, boundary, published, failed, lane, copied, spilled, plan >>

\* The copy a lane has come to: the first that has not run, in stream order.
Foremost(r, a) ==
  a \notin copied /\ \E i \in DOMAIN lane[r] :
    lane[r][i] = a /\ \A j \in 1 .. i - 1 : lane[r][j] \in copied

RunCopy(r) ==
  \E a \in DOMAIN acts :
    LET o == acts[a].obj IN
    /\ Foremost(r, a)
    /\ Triggered(a)
    /\ acts[a].waits # NoEvent => Complete(acts[a].waits)
    /\ copied' = copied \cup {a}
    /\ IF acts[a].kind = "FETCH"
       THEN leases' = [leases EXCEPT ![o][acts[a].lease].data = spilled[o]] /\ UNCHANGED spilled
       ELSE spilled' = [spilled EXCEPT ![o] = leases[o][acts[a].lease].data] /\ UNCHANGED leases
    /\ UNCHANGED << obj, acts, fifo, planned, waiting, inflight, charged, submitted, sequences,
                    worker, boundary, published, failed, tasks, ran, lane, plan >>

-----------------------------------------------------------------------------

Dispatcher ==
  \/ \E o \in Objects, mutates \in BOOLEAN : BeginTask(o, mutates)
  \/ PublishMutation
  \/ BeginActionBatch
  \/ \E kind \in plan.kinds, o \in Objects : InstantiateAction(kind, o, NoRange)
  \/ plan.reuses /\ \E o \in Objects, pred \in Promisable : InstantiateAction("FETCH", o, pred)
  \/ PublishBatch
  \/ Acknowledge

Worker ==
  \/ \E a \in DOMAIN acts :
       HandleRelease(a) \/ SkipWriteBack(a) \/ HandleTransfer(a) \/ Finish(a)
  \/ ReturnClaim
  \/ Submit
  \/ CompleteAction

Next == Dispatcher \/ Worker \/ RunTask \/ \E r \in Routes : RunCopy(r)

Spec == Init /\ [][Next]_vars

\* The worker polls for as long as the runtime runs, the device makes progress,
\* a lane that asks for retries accepts in the end, and a boundary that was
\* entered is left.
Fairness ==
  /\ WF_vars(Worker)
  /\ SF_vars(Submit)
  /\ WF_vars(RunTask)
  /\ \A r \in Routes : WF_vars(RunCopy(r))
  /\ WF_vars(PublishMutation \/ PublishBatch \/ Acknowledge)

FairSpec == Spec /\ Fairness

-----------------------------------------------------------------------------
(* Properties. *)

Events == {NoEvent} \cup ({"task", "copy"} \X Nat)

\* The shapes of the state, as the C types declare them: a fetch is counted as
\* published once, and no window or lease counter goes below zero.
TypeOK ==
  /\ plan \in Plans
  /\ \A o \in Objects :
       /\ obj[o] \in [residency : OnDevice \cup {"SPILL_ONLY", "EVICTING", "RELEASED"},
                      version : Nat, lease : Nat, execVersion : Nat,
                      spill : BOOLEAN, spillCurrent : BOOLEAN, spillVersion : Nat,
                      readiness : Nat, unpublished : Nat]
       /\ obj[o].lease \in 0 .. Len(leases[o])
       /\ fifo[o] \in Seq(DOMAIN acts)
       /\ \A g \in DOMAIN leases[o] :
            leases[o][g] \in [data : Int, event : Events,
                              state : {"IN_USE", "RETIRE_PENDING", "PREDECESSOR_TRANSFERRED", "FREE"}]
  /\ \A a \in DOMAIN acts :
       /\ acts[a].kind \in AllKinds
       /\ acts[a].state \in {"QUEUED", "IN_FLIGHT", "FINISHED"}
       /\ acts[a].waits \in Events
  /\ \A r \in Routes :
       /\ planned[r] \in Seq(DOMAIN acts) /\ waiting[r] \in Seq(DOMAIN acts)
       /\ inflight[r] \in Seq(DOMAIN acts) /\ charged[r] \in Nat
  /\ worker.at \in {"idle", "lane", "done"} /\ worker.action \in 0 .. Len(acts)
  /\ boundary.at \in {"idle", "task", "batch", "await"}
  /\ published \in 0 .. Len(acts) /\ ran \in 0 .. Len(tasks)

\* However the dispatcher, the worker and the device interleave, a schedule the
\* simulator accepts never meets a state one of the runtime's checks refuses:
\* bindings, retirements, claims and the checks after a dropped lock all pass.
PlanNeverFails == ~failed

\* Every task that ran found its object at the version the boundary bound, in
\* the range the boundary handed it, although host and device run apart.
TasksReadCurrent == \A t \in 1 .. ran : tasks[t].saw = tasks[t].expects

\* A spill copy that the object calls current at its authoritative version is
\* that version, except while a task that changes the object is being launched:
\* no write-back overtaken by a mutation is taken for the newer value.
SpillCopyTrue ==
  \A o \in Objects :
    LET x == obj[o] IN
    x.spill /\ x.spillCurrent /\ x.spillVersion = x.version /\ boundary.update # o
      => spilled[o] = x.version

Touched(range) ==
  \/ \E t \in ran + 1 .. Len(tasks) : << tasks[t].obj, tasks[t].lease >> = range
  \/ \E a \in DOMAIN acts \ copied : << acts[a].obj, acts[a].lease >> = range

\* Once the event that retires an execution range is complete, or the range is
\* released, no task and no copy that was launched or claimed still touches it:
\* a release behind a pending write-back must wait for the copy.
RangesOutliveUse ==
  \A o \in Objects : \A g \in DOMAIN leases[o] :
    leases[o][g].state = "FREE" \/ Complete(leases[o][g].event) => ~Touched(<< o, g >>)

\* A copy into a range that was promised while its last owner was retiring runs
\* when nothing launched or claimed by that owner still touches it.
ReuseOrdered ==
  \A a \in copied : acts[a].pred # NoRange => ~Touched(acts[a].pred)

\* The discipline of the lanes, retries included.  The copies of a lane are
\* submitted in the order their boundaries triggered them, planned and background
\* apart, and committed in the order they were submitted, however their objects'
\* locks are held.  Collective copies reach the lanes in the order the boundary
\* numbered them, whichever lane they are on and whenever their events are polled.
\* The background copies in flight on a route stay within the window, unless there
\* is only one: a planned copy never waits behind more.
LanesInOrder ==
  /\ \A r \in Routes : \A i, j \in DOMAIN lane[r] :
       LET a == lane[r][i]
           b == lane[r][j]
       IN i < j => /\ acts[a].background = acts[b].background => a < b
                   /\ acts[b].state = "FINISHED" => acts[a].state = "FINISHED"
  /\ \A a, b \in DOMAIN acts :
       /\ 0 < acts[a].sequence /\ acts[a].sequence < acts[b].sequence
       /\ b \in Range(lane["evict"]) \cup Range(lane["fetch"])
       => a \in Range(lane["evict"]) \cup Range(lane["fetch"])
  /\ plan.window # 0 => \A r \in Routes :
       LET background == {a \in Range(inflight[r]) : acts[a].background} IN
       \/ Cardinality(background) <= 1
       \/ Total([a \in background |-> Bytes(a)], background) <= plan.window

\* An action that is finished holds no reservation: the range its boundary
\* reserved for it was acquired or given back.
ReservationsConsumed ==
  \A a \in DOMAIN acts : acts[a].state = "FINISHED" => ~acts[a].destination

\* The actions boundaries published are all finished in the end (a plan is
\* finite), and the boundary that waits for the worker's acknowledgement returns.
ActionsComplete ==
  /\ published > 0 ~> \A a \in 1 .. published : acts[a].state = "FINISHED"
  /\ boundary.at = "await" ~> boundary.at = "idle"
=============================================================================
