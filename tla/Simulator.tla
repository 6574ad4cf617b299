----------------------------- MODULE Simulator -----------------------------
(***************************************************************************)
(* The reference simulator (reference/python/simulator/implementation.py,  *)
(* class _Simulator) replaying one problem on one device.                  *)
(* The event loop is kept step for step; the clock is not.  Durations are  *)
(* data of the profiles and of the lanes' rates, so any non-empty set of   *)
(* the tasks and copies under way may be what ends at the next event; what *)
(* ends together completes in the code's order (fetch, evict, tasks).      *)
(***************************************************************************)
EXTENDS Schedule

CONSTANTS Problems,            \* the problems a run may replay
          None

ASSUME ProblemsChecked == \A p \in Problems : ProgramChecked(p)
\* What a replay can report.
Reports ==
  {"completed", "initial-device-capacity", "initial-spill-capacity", "invalid-release",
   "release-transfer-conflict", "invalid-evict", "invalid-write-back", "invalid-fetch",
   "fetch-device-capacity", "evict-spill-capacity", "task-input-deadlock",
   "task-device-capacity", "transfer-deadlock", "dependency-deadlock", "final-residency"}

ASSUME NoneAssumption == None \notin Reports

ProblemFields ==
  {"tasks", "size", "retain", "initDev", "initSpill", "actions", "finalDev", "finalSpill",
   "devCap", "spillCap", "reuse", "taskDeltas", "actionDeltas", "unlisted", "initial"}

\* A problem also carries the SimulationAdmission:
\*   reuse       set of [pred |-> x, succ |-> y], x and y <<"task", t>> or
\*               <<"action", i>>
\*   taskDeltas, actionDeltas   functions on the listed ids, <<first, second>>
\*   unlisted    the delta of everything not listed, or None
\*   initial     initial physical bytes, or None without an admission
Shaped(p) ==
  LET deltas == {p.taskDeltas[t] : t \in DOMAIN p.taskDeltas}
                  \cup {p.actionDeltas[i] : i \in DOMAIN p.actionDeltas}
  IN  /\ ProblemFields \subseteq DOMAIN p
      /\ IsFiniteSet(Groups(p)) /\ p.size \in [Groups(p) -> Nat]
      /\ p.tasks \in Seq([inputs : SUBSET Groups(p), outputs : SUBSET Groups(p),
                          mutations : SUBSET Groups(p), deps : SUBSET Nat, lane : Nat,
                          work : Nat])
      /\ p.actions \in Seq([trigger : TaskIds(p), alias : Groups(p), kind : Kinds])
      /\ p.retain \cup p.initDev \cup p.initSpill \cup FinalGroups(p) \subseteq Groups(p)
      /\ {p.devCap, p.spillCap} \subseteq Nat
      /\ p.initial # None => p.initial \in Nat
      /\ p.initial = None => deltas = {} /\ p.unlisted = None
      /\ \A d \in deltas : d \in Int \X Int
      /\ p.unlisted # None => p.unlisted \in Int

ASSUME ProblemsShaped == \A p \in Problems : Shaped(p)

\* An admission under which nothing takes device bytes when it ends.
GivesBack(p) ==
  /\ \A t \in DOMAIN p.taskDeltas : p.taskDeltas[t][2] <= 0
  /\ \A i \in DOMAIN p.actionDeltas : p.actionDeltas[i][2] <= 0
  /\ p.unlisted # None => p.unlisted <= 0

VARIABLES job,                 \* the problem being replayed
          pc, scan, changed,   \* place in run(): phase, task loop index, flag
          devAlloc, devReady, devVer,
          spillAlloc, spillReady, spillVer,
          fetchPending, evictPending, wbPending,
          cursor,              \* next_action_index
          deferred,            \* actions that had to wait for room
          running, done,       \* active_tasks, completed
          moved,               \* completed_transfer_actions
          queue, active,       \* per lane: pending deque, active transfer
          due,                 \* what ends at the current event
          phys, work, spilled, \* physical, workspace and spill bytes
          outcome,             \* None, "completed" or the reported kind
          latest               \* history: versions written per group

loop == <<job, pc, scan, changed>>
aliases == <<devAlloc, devReady, devVer, spillAlloc, spillReady, spillVer,
             fetchPending, evictPending, wbPending>>
progress == <<cursor, deferred, running, done, moved, queue, active, due>>
bytes == <<phys, work, spilled>>
vars == <<loop, aliases, progress, bytes, outcome, latest>>

Lanes == {"fetch", "evict"}
Actions == job.actions
Unlaunched == TaskIds(job) \ (running \cup done)
Act(x) == Actions[x.action]    \* of a queued or active transfer

-----------------------------------------------------------------------------
(* Memory deltas and reuse dependencies *)

Listed(deltas, id, part, default) ==
  IF id \in DOMAIN deltas THEN deltas[id][part]
  ELSE IF job.unlisted # None THEN job.unlisted ELSE default

TaskDelta(t, part, default) == Listed(job.taskDeltas, t, part, default)
ActionDelta(i, part, default) == Listed(job.actionDeltas, i, part, default)

ReuseComplete(successor) ==
  \A r \in job.reuse : r.succ = successor =>
    IF r.pred[1] = "task" THEN r.pred[2] \in done ELSE r.pred[2] \in moved

Fits(delta) == phys + (IF delta > 0 THEN delta ELSE 0) <= job.devCap

-----------------------------------------------------------------------------
(* Stopping: a SimulationInfeasibleError, or the result *)

Stop(kind) ==
  /\ outcome' = kind /\ pc' = "stopped"
  /\ UNCHANGED <<job, scan, changed, aliases, progress, bytes, latest>>

PendingWork ==
  \/ Unlaunched # {} \/ running # {}
  \/ cursor <= Len(Actions)
  \/ \E l \in Lanes : queue[l] # <<>> \/ active[l] # None

-----------------------------------------------------------------------------
(* _initialize_memory *)

\* The state a replay starts in: what is resident, its bytes, what refuses it.
InitializeMemory(p) ==
  LET host == (p.retain \cup p.initSpill) \ ZeroSize(p)
      dev == p.initDev \cup ZeroSize(p)
      held == IF p.initial = None THEN Bytes(p, dev) ELSE p.initial
      kind == IF held > p.devCap THEN "initial-device-capacity"
              ELSE IF Bytes(p, host) > p.spillCap THEN "initial-spill-capacity"
              ELSE None
  IN  [dev |-> dev, host |-> host, phys |-> held, spilled |-> Bytes(p, host),
       versions |-> [a \in Groups(p) |-> 0], outcome |-> kind,
       pc |-> IF kind # None THEN "stopped"
              ELSE IF p.tasks # <<>> \/ p.actions # <<>> THEN "transfers" ELSE "final"]

Idle(value) == [l \in Lanes |-> value]

Init ==
  /\ job \in Problems
  /\ LET m == InitializeMemory(job)
     IN  /\ devAlloc = m.dev /\ devReady = m.dev /\ devVer = m.versions
         /\ spillAlloc = m.host /\ spillReady = m.host /\ spillVer = m.versions
         /\ latest = m.versions /\ phys = m.phys /\ spilled = m.spilled
         /\ outcome = m.outcome /\ pc = m.pc
  /\ fetchPending = {} /\ evictPending = {} /\ wbPending = {}
  /\ cursor = 1 /\ deferred = {} /\ running = {} /\ done = {} /\ moved = {}
  /\ queue = Idle(<<>>) /\ active = Idle(None) /\ due = {}
  /\ work = 0 /\ scan = 1 /\ changed = FALSE

\* A new simulation starts on problem p.
Restart(p) ==
  /\ job' = p
  /\ LET m == InitializeMemory(p)
     IN  /\ devAlloc' = m.dev /\ devReady' = m.dev /\ devVer' = m.versions
         /\ spillAlloc' = m.host /\ spillReady' = m.host /\ spillVer' = m.versions
         /\ latest' = m.versions /\ phys' = m.phys /\ spilled' = m.spilled
         /\ outcome' = m.outcome /\ pc' = m.pc
  /\ fetchPending' = {} /\ evictPending' = {} /\ wbPending' = {}
  /\ cursor' = 1 /\ deferred' = {} /\ running' = {} /\ done' = {} /\ moved' = {}
  /\ queue' = Idle(<<>>) /\ active' = Idle(None) /\ due' = {}
  /\ work' = 0 /\ scan' = 1 /\ changed' = FALSE

-----------------------------------------------------------------------------
(* _try_start_transfers, _try_start_direction *)

SourceReady(l, a) ==
  IF l = "fetch" THEN a \notin evictPending /\ a \in spillReady
                 ELSE a \in devReady

Startable(l) ==
  /\ queue[l] # <<>> /\ active[l] = None
  /\ ReuseComplete(<<"action", Head(queue[l]).action>>)
  /\ SourceReady(l, Act(Head(queue[l])).alias)

\* Mutant of Started: a queue that is not empty counts as a change.
QueuedCounts == \E l \in Lanes : queue[l] # <<>>

Started == \E l \in Lanes : Startable(l)

TryStartTransfers ==
  /\ pc = "transfers" /\ pc' = "launch" /\ scan' = 1
  /\ changed' = Started
  /\ active' = [l \in Lanes |-> IF Startable(l) THEN Head(queue[l]) ELSE active[l]]
  /\ queue' = [l \in Lanes |-> IF Startable(l) THEN Tail(queue[l]) ELSE queue[l]]
  /\ UNCHANGED <<job, aliases, cursor, deferred, running, done, moved, due, bytes,
                 outcome, latest>>

-----------------------------------------------------------------------------
(* _try_launch_tasks *)

FirstUnlaunchedOnLane(t) ==
  \A s \in Unlaunched : job.tasks[s].lane = job.tasks[t].lane => t <= s

MissingInputs(t) ==
  {a \in job.tasks[t].inputs :
     a \notin devReady \/ a \in fetchPending \/ a \in evictPending}

NewOutputs(t) == job.tasks[t].outputs \ devAlloc
StartDelta(t) == TaskDelta(t, 1, Bytes(job, NewOutputs(t)) + job.tasks[t].work)

CanLaunch(t) ==
  /\ t \in Unlaunched /\ FirstUnlaunchedOnLane(t)
  /\ \A s \in running : job.tasks[s].lane # job.tasks[t].lane
  /\ job.tasks[t].deps \subseteq done
  /\ ReuseComplete(<<"task", t>>)
  /\ MissingInputs(t) = {}
  /\ Fits(StartDelta(t))

LaunchTask(t) ==
  /\ running' = running \cup {t}
  /\ scan' = t + 1 /\ changed' = TRUE
  /\ devAlloc' = devAlloc \cup job.tasks[t].outputs
  /\ devReady' = devReady \ job.tasks[t].outputs
  /\ fetchPending' = fetchPending \ job.tasks[t].outputs
  /\ evictPending' = evictPending \ job.tasks[t].outputs
  /\ wbPending' = wbPending \ job.tasks[t].outputs
  /\ spillReady' = spillReady \ job.tasks[t].outputs
  /\ work' = work + job.tasks[t].work
  /\ phys' = phys + StartDelta(t)
  /\ UNCHANGED <<job, pc, devVer, spillAlloc, spillVer, cursor, deferred, done, moved,
                 queue, active, due, spilled, outcome, latest>>

TryLaunchTasks ==
  /\ pc = "launch"
  /\ LET able == {t \in TaskIds(job) : t >= scan /\ CanLaunch(t)}
     IN  \/ able # {} /\ LaunchTask(Min(able))
         \/ /\ able = {} /\ pc' = "submit"
            /\ UNCHANGED <<job, scan, changed, aliases, progress, bytes, outcome, latest>>

-----------------------------------------------------------------------------
(* _submit_ready_actions: one action of the cursor per step.  pc is        *)
(* "submit" in run()'s loop and "resubmit" inside _complete_task.          *)

Here == Actions[cursor]
Due(kind) == cursor <= Len(Actions) /\ Here.trigger \in done /\ Here.kind = kind

TriggerDelta ==
  ActionDelta(cursor, 1,
    CASE Here.kind = "release" -> -job.size[Here.alias]
      [] Here.kind = "fetch" /\ Here.alias \notin devAlloc -> job.size[Here.alias]
      [] OTHER -> 0)

Submitting(kind) == pc \in {"submit", "resubmit"} /\ Due(kind)

\* The cursor moves on, with the action's trigger delta applied.
Submitted ==
  /\ cursor' = cursor + 1
  /\ changed' = TRUE
  /\ phys' = phys + TriggerDelta
  /\ UNCHANGED <<job, pc, scan, devVer, spillVer, running, done, moved, active, due,
                 work, outcome, latest>>

\* _enqueue_transfer: the copy is queued with the device version of now.
Enqueue(l) ==
  queue' = [queue EXCEPT ![l] = Append(@, [action |-> cursor,
                                           version |-> devVer[Here.alias]])]

ReleaseConflicts ==
  IF Here.alias \notin devAlloc \cap devReady THEN "invalid-release"
  ELSE IF Here.alias \in fetchPending \cup evictPending THEN "release-transfer-conflict"
  ELSE IF /\ Here.alias \notin wbPending
          /\ Here.alias \notin spillReady
          /\ \/ Here.alias \in FinalGroups(job)
             \/ LastReader(job, Here.alias) \notin done \cup {0}
       THEN "invalid-release"
  ELSE None

SubmitRelease ==
  /\ Submitting("release") /\ Fits(TriggerDelta)
  /\ \/ ReleaseConflicts # None /\ Stop(ReleaseConflicts)
     \/ /\ ReleaseConflicts = None
        /\ Here.alias \notin wbPending
        /\ devAlloc' = devAlloc \ {Here.alias}
        /\ devReady' = devReady \ {Here.alias}
        /\ LET gone == (spillAlloc \cap {Here.alias}) \ job.retain
           IN  /\ spillAlloc' = spillAlloc \ gone
               /\ spillReady' = spillReady \ gone
               /\ spilled' = spilled - Bytes(job, gone)
        /\ Submitted
        /\ UNCHANGED <<deferred, queue, fetchPending, evictPending, wbPending>>

\* An eviction and a write-back share the checks and the spill reservation.
NoSource == Here.alias \notin (devAlloc \cap devReady) \ (evictPending \cup wbPending)

\* Mutant of SpillCharge: a copy that is already allocated is charged again.
ChargedTwice(a) == job.size[a]

\* Bytes a reservation adds to the spill pool.
SpillCharge(a) == Bytes(job, {a} \ spillAlloc)

ReserveSpill ==
  /\ Here.alias \in spillAlloc \/ spilled + job.size[Here.alias] <= job.spillCap
  /\ spillAlloc' = spillAlloc \cup {Here.alias}
  /\ spillReady' = IF Here.alias \in spillAlloc THEN spillReady
                   ELSE spillReady \ {Here.alias}
  /\ spilled' = spilled + SpillCharge(Here.alias)

SubmitEvict ==
  /\ Submitting("evict") /\ Fits(TriggerDelta)
  /\ \/ NoSource /\ Stop("invalid-evict")
     \/ /\ ~NoSource
        /\ ReserveSpill
        /\ Enqueue("evict")
        /\ evictPending' = evictPending \cup {Here.alias}
        /\ Submitted
        /\ UNCHANGED <<deferred, devAlloc, devReady, fetchPending, wbPending>>

SubmitWriteBack ==
  /\ Submitting("writeback") /\ Fits(TriggerDelta)
  /\ \/ NoSource /\ Stop("invalid-write-back")
     \/ /\ ~NoSource /\ Here.alias \in spillReady     \* nothing to copy
        /\ Submitted
        /\ UNCHANGED <<deferred, queue, devAlloc, devReady, spillAlloc, spillReady,
                       fetchPending, evictPending, wbPending, spilled>>
     \/ /\ ~NoSource /\ Here.alias \notin spillReady
        /\ ReserveSpill
        /\ Enqueue("evict")
        /\ wbPending' = wbPending \cup {Here.alias}
        /\ Submitted
        /\ UNCHANGED <<deferred, devAlloc, devReady, fetchPending, evictPending>>

FetchRefused ==
  \/ Here.alias \in devAlloc \ evictPending
  \/ Here.alias \notin spillReady \cup evictPending

SubmitFetch ==
  /\ Submitting("fetch") /\ Fits(TriggerDelta)
  /\ \/ FetchRefused /\ Stop("invalid-fetch")
     \/ /\ ~FetchRefused
        /\ devAlloc' = devAlloc \cup {Here.alias}
        /\ devReady' = IF Here.alias \in devAlloc THEN devReady
                       ELSE devReady \ {Here.alias}
        /\ Enqueue("fetch")
        /\ fetchPending' = fetchPending \cup {Here.alias}
        /\ Submitted
        /\ UNCHANGED <<deferred, spillAlloc, spillReady, evictPending, wbPending, spilled>>

\* The cursor cannot move: no trigger yet, no room, or a release behind a
\* write-back.  The first wait for room is recorded as a capacity violation.
WaitsForRoom ==
  \/ ~Fits(TriggerDelta)
  \/ /\ Here.kind \in {"evict", "writeback"} /\ ~NoSource
     /\ ~(Here.kind = "writeback" /\ Here.alias \in spillReady)
     /\ Here.alias \notin spillAlloc
     /\ spilled + job.size[Here.alias] > job.spillCap

WaitsForCopy ==
  Here.kind = "release" /\ ReleaseConflicts = None /\ Here.alias \in wbPending

Waiting ==
  IF cursor > Len(Actions) THEN TRUE
  ELSE IF Here.trigger \notin done THEN TRUE
  ELSE WaitsForRoom \/ WaitsForCopy

SubmitDone ==
  /\ pc \in {"submit", "resubmit"} /\ Waiting
  /\ deferred' = IF cursor <= Len(Actions) /\ Here.trigger \in done /\ WaitsForRoom
                 THEN deferred \cup {cursor} ELSE deferred
  /\ pc' = CASE pc = "resubmit" -> "events"
             [] pc = "submit" /\ changed -> "transfers"
             [] pc = "submit" /\ ~changed -> IF PendingWork THEN "time" ELSE "final"
  /\ UNCHANGED <<job, scan, changed, aliases, cursor, running, done, moved, queue,
                 active, due, bytes, outcome, latest>>

-----------------------------------------------------------------------------
(* _next_event_time, _complete_events *)

UnderWay == {<<"task", t>> : t \in running}
              \cup {<<l, 0>> : l \in {m \in Lanes : active[m] # None}}

AdvanceTime ==
  /\ pc = "time" /\ UnderWay # {}
  /\ due' \in SUBSET UnderWay \ {{}}
  /\ pc' = "events"
  /\ UNCHANGED <<job, scan, changed, aliases, cursor, deferred, running, done, moved,
                 queue, active, bytes, outcome, latest>>

Landed(l, delta) ==
  /\ due' = due \ {<<l, 0>>}
  /\ active' = [active EXCEPT ![l] = None]
  /\ moved' = moved \cup {active[l].action}
  /\ phys' = phys + ActionDelta(active[l].action, 2, delta)
  /\ UNCHANGED <<loop, cursor, deferred, running, done, queue, work, outcome, latest>>

\* Mutants: the spill copy of a retained group is dropped too; a copy is
\* current whatever was written meanwhile; the bytes a queued fetch waits for
\* are given up.
DropsRetained(a) == {a}
CurrentByFiat(a, version) == TRUE
FreesFetched(a) == TRUE

\* _complete_transfer: what a landed fetch drops, whether the landed copy is
\* still the device's version, whether a landed eviction frees the device bytes.
DroppedSpill(a) == {a} \ job.retain
StillCurrent(a, version) == devVer[a] = version
FreesDevice(a) == a \notin fetchPending

CompleteFetch ==
  /\ pc = "events" /\ <<"fetch", 0>> \in due
  /\ LET a == Act(active["fetch"]).alias
         gone == DroppedSpill(a)
     IN  /\ devReady' = devReady \cup {a}
         /\ devVer' = [devVer EXCEPT ![a] = spillVer[a]]
         /\ fetchPending' = fetchPending \ {a}
         /\ spillAlloc' = spillAlloc \ gone
         /\ spillReady' = spillReady \ gone
         /\ spilled' = spilled - Bytes(job, gone)
  /\ Landed("fetch", 0)
  /\ UNCHANGED <<devAlloc, spillVer, evictPending, wbPending>>

CompleteEvict ==
  /\ pc = "events" /\ <<"fetch", 0>> \notin due /\ <<"evict", 0>> \in due
  /\ LET a == Act(active["evict"]).alias
         version == active["evict"].version
         departs == Act(active["evict"]).kind = "evict"
         frees == departs /\ FreesDevice(a)
     IN  /\ spillVer' = [spillVer EXCEPT ![a] = version]
         /\ spillReady' = IF StillCurrent(a, version) THEN spillReady \cup {a}
                          ELSE spillReady \ {a}
         /\ wbPending' = IF departs THEN wbPending ELSE wbPending \ {a}
         /\ evictPending' = IF departs THEN evictPending \ {a} ELSE evictPending
         /\ devReady' = IF departs THEN devReady \ {a} ELSE devReady
         /\ devAlloc' = IF frees THEN devAlloc \ {a} ELSE devAlloc
         /\ Landed("evict", IF frees THEN -job.size[a] ELSE 0)
  /\ UNCHANGED <<devVer, spillAlloc, fetchPending, spilled>>

CompleteTask ==
  /\ pc = "events" /\ due # {} /\ due \cap {<<l, 0>> : l \in Lanes} = {}
  /\ LET t == Min({e[2] : e \in due})
         written == Writes(job.tasks[t])
     IN  /\ due' = due \ {<<"task", t>>}
         /\ running' = running \ {t} /\ done' = done \cup {t}
         /\ work' = work - job.tasks[t].work
         /\ phys' = phys + TaskDelta(t, 2, -job.tasks[t].work)
         /\ devReady' = devReady \cup job.tasks[t].outputs
         /\ devVer' = [a \in Groups(job) |-> IF a \in written THEN devVer[a] + 1
                                             ELSE devVer[a]]
         /\ latest' = [a \in Groups(job) |-> IF a \in written THEN latest[a] + 1
                                             ELSE latest[a]]
         /\ spillReady' = spillReady \ written
  /\ pc' = "resubmit"
  /\ UNCHANGED <<job, scan, changed, devAlloc, spillAlloc, spillVer, fetchPending,
                 evictPending, wbPending, cursor, deferred, moved, queue, active,
                 spilled, outcome>>

EventsDone ==
  /\ pc = "events" /\ due = {}
  /\ pc' = IF PendingWork THEN "transfers" ELSE "final"
  /\ UNCHANGED <<job, scan, changed, aliases, progress, bytes, outcome, latest>>

-----------------------------------------------------------------------------
(* _deadlock, _check_final_residency *)

\* The first unlaunched task, in program order, that has a reason to report.
StuckTasks ==
  {t \in Unlaunched : job.tasks[t].deps \subseteq done
                      /\ (MissingInputs(t) # {} \/ ~Fits(StartDelta(t)))}

\* A lane's head has no destination and there is no room for one.
Unreserved(l, allocated, used, capacity) ==
  /\ queue[l] # <<>>
  /\ LET a == Act(Head(queue[l])).alias
     IN  a \notin allocated /\ used + job.size[a] > capacity

DeadlockKind ==
  IF Due("fetch") THEN "fetch-device-capacity"
  ELSE IF Due("evict") \/ Due("writeback") THEN "evict-spill-capacity"
  ELSE IF Unreserved("fetch", devAlloc, phys, job.devCap) THEN "fetch-device-capacity"
  ELSE IF Unreserved("evict", spillAlloc, spilled, job.spillCap)
       THEN "evict-spill-capacity"
  ELSE IF StuckTasks # {}
       THEN IF MissingInputs(Min(StuckTasks)) # {} THEN "task-input-deadlock"
            ELSE "task-device-capacity"
  ELSE IF \E l \in Lanes : queue[l] # <<>> THEN "transfer-deadlock"
  ELSE "dependency-deadlock"

Deadlock == pc = "time" /\ UnderWay = {} /\ Stop(DeadlockKind)

CheckFinalResidency ==
  /\ pc = "final"
  /\ Stop(IF job.finalDev \subseteq devReady /\ job.finalSpill \subseteq spillReady
          THEN "completed" ELSE "final-residency")

Halted == pc = "stopped" /\ UNCHANGED vars

-----------------------------------------------------------------------------
Step ==
  \/ TryStartTransfers \/ TryLaunchTasks
  \/ SubmitRelease \/ SubmitEvict \/ SubmitWriteBack \/ SubmitFetch \/ SubmitDone
  \/ AdvanceTime \/ CompleteFetch \/ CompleteEvict \/ CompleteTask \/ EventsDone
  \/ Deadlock \/ CheckFinalResidency

Next == Step \/ Halted

\* run() is one sequential loop: it always takes its next step.
Spec == Init /\ [][Next]_vars /\ WF_vars(Step)

-----------------------------------------------------------------------------
(* Properties *)

\* The byte counters the loop keeps by hand are the bytes of what is held:
\* spill bytes those of the groups with a spill reservation, physical bytes
\* (without an admission) those of the device reservations and of the running
\* tasks' workspace, and neither ever exceeds its capacity (_apply_physical_delta,
\* _release, _complete_transfer).
BytesExact ==
  pc # "stopped" =>
    /\ spilled = Bytes(job, spillAlloc) /\ spilled <= job.spillCap
    /\ phys <= job.devCap
    /\ work = Total([t \in TaskIds(job) |-> job.tasks[t].work], running)
    /\ job.initial = None => phys = Bytes(job, devAlloc) + work

\* The two AssertionErrors of _try_start_direction never fire: a copy that is
\* queued or under way has its destination reserved until it lands.
DestinationsReserved ==
  \A l \in Lanes :
    LET waiting == {queue[l][i] : i \in DOMAIN queue[l]} \cup ({active[l]} \ {None})
    IN  {Act(e).alias : e \in waiting} \subseteq
          (IF l = "fetch" THEN devAlloc ELSE spillAlloc)

\* What the static walk accepted is not lost at run time: the only reports are
\* shortages of room and actions that meet a copy still in flight.  It says
\* nothing of a run in which an action had to wait for room (deferred): such an
\* action is applied after tasks the walk applied it before.
WalkIsSound ==
  deferred = {} => outcome \notin {"task-input-deadlock", "transfer-deadlock",
                                   "dependency-deadlock", "final-residency"}

\* No task is launched while an action on something it touches, of a task that
\* ended, has still to be submitted.
OnTime ==
  pc = "launch" =>
    \A t \in running, i \in ActionIds(job) :
      Touches(job, t, Actions[i].alias) /\ Actions[i].trigger \in done => i < cursor

\* What a fetch leaves on the device is a current copy, and stays one: the
\* readable device copy of a group always is its latest version.
DeviceCopyCurrent == \A a \in devReady : devVer[a] = latest[a]

\* The simulator implements the contract: readable copies are versions, tasks
\* begin on the latest ones, a feasible result has its final residency current.
Contract == INSTANCE Residency WITH
  program <- job, begun <- running \cup done, executed <- done,
  device <- [a \in Groups(job) |-> IF a \in devReady THEN devVer[a] ELSE None],
  spill <- [a \in Groups(job) |-> IF a \in spillReady THEN spillVer[a] ELSE None],
  completed <- outcome = "completed"
KeepsContract == Contract!Spec

\* The replay ends, with a result or a report.
Terminates == <>(pc = "stopped")
=============================================================================
