-------------------------- MODULE SimulatorProofs ---------------------------
(***************************************************************************)
(* The reference simulator, for any program, schedule, capacities and      *)
(* admission: its byte counters are exact, a copy always has its           *)
(* destination, and, when no action waits behind a task that uses what it  *)
(* moves, the replay implements the contract of module Residency.          *)
(*                                                                         *)
(* Three things are asked of the problems, and TLC evaluates them on every *)
(* problem of the run: a group is fetched again only after it left and is  *)
(* moved only behind its producer (InTurn), no completion takes device     *)
(* bytes (Releases), and the tasks that touch a group are ordered against  *)
(* the triggers of its actions (Causal).                                   *)
(*                                                                         *)
(* The argument is about the pending flags.  A flag is set by the action   *)
(* that queues a copy and cleared by its landing, so the queued copies of  *)
(* a lane are of different groups, a group that is being written back is   *)
(* not being fetched, and what a release or an eviction finds ready has no *)
(* fetch under way.  Sums over sets of groups, which the counters are      *)
(* compared with, are reasoned about by a smallest counterexample: the     *)
(* subsets of a finite set are well founded.                               *)
(*                                                                         *)
(* What is built on the simulator follows: the placement that admission    *)
(* measures, and the pressure and the floor of the search.                 *)
(***************************************************************************)
EXTENDS FixedLayout, PressureFit, OperatorLemmas

(***************************************************************************)
(* The invariant.                                                          *)
(***************************************************************************)

\* A queued or active copy; the copies of a lane; what a copy moves and how.
Entry == [action : ActionIds(job), version : Nat]
Entries(l) == {queue[l][i] : i \in DOMAIN queue[l]} \cup ({active[l]} \ {None})
Alias(e) == Actions[e.action].alias
Kind(e) == Actions[e.action].kind

\* The kinds that take a group off the device.
DeparturesOf == {"evict", "release"}

\* The types of the state.
Shapes ==
  /\ job \in Problems
  /\ devAlloc \subseteq Groups(job) /\ devReady \subseteq Groups(job)
  /\ spillAlloc \subseteq Groups(job) /\ spillReady \subseteq spillAlloc
  /\ fetchPending \subseteq Groups(job) /\ evictPending \subseteq Groups(job)
  /\ wbPending \subseteq Groups(job)
  /\ devVer \in [Groups(job) -> Nat] /\ spillVer \in [Groups(job) -> Nat]
  /\ latest \in [Groups(job) -> Nat]
  /\ cursor \in Nat /\ 1 <= cursor /\ cursor <= Len(Actions) + 1
  /\ queue \in [Lanes -> Seq(Entry)] /\ active \in [Lanes -> Entry \cup {None}]
  /\ due \subseteq UnderWay

\* A task starts behind all it waits for, an action is submitted behind its trigger.
TasksInOrder ==
  /\ running \subseteq TaskIds(job) /\ done \subseteq TaskIds(job)
  /\ running \cap done = {}
  /\ \A t \in running \cup done : Awaits(job, t) \subseteq done
  /\ \A i \in ActionIds(job) : i < cursor => Actions[i].trigger \in done
  /\ pc = "final" => done = TaskIds(job)
  /\ pc # "stopped" => outcome # "completed"

\* A flag is raised by a submitted action; a group that is being fetched is readable
\* only while it is still leaving.
Pendings ==
  /\ \A a \in fetchPending \cup evictPending \cup wbPending :
       \E i \in ActionIds(job) : i < cursor /\ Actions[i].alias = a
  /\ fetchPending \cap devReady \subseteq evictPending
  /\ evictPending \cap wbPending = {}

\* The copies of a lane are of different groups.
OneCopy(l) ==
  /\ \A i, j \in DOMAIN queue[l] : i # j => Alias(queue[l][i]) # Alias(queue[l][j])
  /\ active[l] # None => \A i \in DOMAIN queue[l] : Alias(queue[l][i]) # Alias(active[l])

\* A fetch has its device bytes, and its group has not been sent away again.
FetchLane ==
  \A e \in Entries("fetch") :
    /\ e.action < cursor /\ Kind(e) = "fetch"
    /\ Alias(e) \in fetchPending /\ Alias(e) \in devAlloc
    /\ \A k \in ActionIds(job) :
         e.action < k /\ k < cursor /\ Actions[k].alias = Alias(e)
           => Actions[k].kind \notin DeparturesOf

\* A copy to the spill pool has its spill bytes and a readable source.
EvictLane ==
  \A e \in Entries("evict") :
    /\ e.action < cursor
    /\ \/ Kind(e) = "evict" /\ Alias(e) \in evictPending
       \/ Kind(e) = "writeback" /\ Alias(e) \in wbPending
    /\ Alias(e) \in spillAlloc /\ Alias(e) \in devAlloc /\ Alias(e) \in devReady

\* A group is on both lanes only when it leaves and comes back, the fetch waiting.
Crossing ==
  /\ \A e \in Entries("fetch"), f \in Entries("evict") :
       Alias(e) = Alias(f) => Kind(f) = "evict"
  /\ active["fetch"] # None =>
       /\ Alias(active["fetch"]) \in spillAlloc
       /\ \A f \in Entries("evict") : Alias(f) # Alias(active["fetch"])

\* The workspace of each task.
Works == [t \in TaskIds(job) |-> job.tasks[t].work]
Numbers == phys \in Int /\ work \in Nat /\ spilled \in Nat

\* The inductive invariant.
IInv ==
  /\ Shapes /\ TasksInOrder /\ Pendings /\ OneCopy("fetch") /\ OneCopy("evict")
  /\ FetchLane /\ EvictLane /\ Crossing /\ Numbers /\ BytesExact

\* While a task runs nothing moves what it touches, except write-backs that
\* were under way; copies are current.
Current ==
  /\ devVer = latest
  /\ \A a \in spillReady : spillVer[a] = latest[a]
  /\ active["fetch"] # None => Alias(active["fetch"]) \in spillReady
  /\ \A t \in running, a \in Groups(job) : Touches(job, t, a) =>
       /\ a \notin fetchPending \cup evictPending
       /\ \A i \in ActionIds(job) :
            cursor <= i /\ Actions[i].alias = a => Actions[i].trigger \notin done

(***************************************************************************)
(* Problems and the order of their tasks.                                  *)
(***************************************************************************)

\* A set of task numbers that is not empty has a least one, which Min is.
LEMMA LeastIsLeast ==
  ASSUME NEW n \in Nat, NEW S, S \subseteq 1..n, S # {}
  PROVE  Min(S) \in S /\ \A y \in S : Min(S) <= y
<1> DEFINE B == {1..x : x \in S}
<1>1. IsFiniteSet(1..n)
  BY FS_Interval
<1>2. B \subseteq SUBSET (1..n) /\ B # {}
  <2>1. \A x \in S : 1..x \subseteq 1..n
    OBVIOUS
  <2>2. PICK x \in S : TRUE
    OBVIOUS
  <2>3. 1..x \in B
    OBVIOUS
  <2>4. ASSUME NEW b \in B PROVE b \in SUBSET (1..n)
    <3>1. PICK y \in S : b = 1..y
      BY Zenon
    <3> QED BY <2>1, <3>1
  <2> QED BY <2>3, <2>4, Zenon
<1>3. PICK X \in B : \A Y \in B : Y \subseteq X => Y = X
  <2> DEFINE N == 1..n
  <2>1. IsFiniteSet(N) /\ B \subseteq SUBSET N /\ B # {}
    BY <1>1, <1>2
  <2> HIDE DEF B, N
  <2> QED BY <2>1, MinimalSubset
<1>4. PICK x \in S : X = 1..x
  OBVIOUS
<1>5. ASSUME NEW y \in S PROVE x <= y
  <2>1. CASE y < x
    <3>1. 1..y \subseteq X /\ 1..y \in B
      BY <1>4, <1>5, <2>1
    <3>2. 1..y = 1..x
      BY <1>3, <1>4, <3>1
    <3>3. x \in 1..x /\ x \notin 1..y
      BY <1>4, <1>5, <2>1
    <3> QED BY <3>2, <3>3
  <2> QED BY <1>5, <2>1
<1>6. \E z \in S : \A y \in S : z <= y
  BY <1>5
<1> QED BY <1>6 DEF Min

\* The types of a problem's fields.
LEMMA JobFacts ==
  ASSUME job \in Problems
  PROVE  /\ IsFiniteSet(Groups(job)) /\ job.size \in [Groups(job) -> Nat]
         /\ job.tasks \in Seq([inputs : SUBSET Groups(job), outputs : SUBSET Groups(job),
                               mutations : SUBSET Groups(job), deps : SUBSET Nat, lane : Nat,
                               work : Nat])
         /\ job.actions \in Seq([trigger : TaskIds(job), alias : Groups(job), kind : Kinds])
         /\ job.retain \subseteq Groups(job) /\ job.initDev \subseteq Groups(job)
         /\ job.initSpill \subseteq Groups(job)
         /\ job.finalDev \subseteq Groups(job) /\ job.finalSpill \subseteq Groups(job)
         /\ job.devCap \in Nat /\ job.spillCap \in Nat
BY ProblemsShaped DEF Shaped, FinalGroups

\* The types of its tasks and actions.
LEMMA JobTasks ==
  ASSUME job \in Problems
  PROVE  /\ Len(job.tasks) \in Nat /\ TaskIds(job) = 1..Len(job.tasks)
         /\ Len(job.actions) \in Nat /\ ActionIds(job) = 1..Len(job.actions)
         /\ IsFiniteSet(TaskIds(job))
         /\ \A t \in TaskIds(job) :
              /\ job.tasks[t].inputs \subseteq Groups(job)
              /\ job.tasks[t].outputs \subseteq Groups(job)
              /\ job.tasks[t].mutations \subseteq Groups(job)
              /\ job.tasks[t].work \in Nat
         /\ \A i \in ActionIds(job) :
              /\ job.actions[i].trigger \in TaskIds(job)
              /\ job.actions[i].alias \in Groups(job)
              /\ job.actions[i].kind \in Kinds
<1> DEFINE T == [inputs : SUBSET Groups(job), outputs : SUBSET Groups(job),
                 mutations : SUBSET Groups(job), deps : SUBSET Nat, lane : Nat, work : Nat]
           A == [trigger : TaskIds(job), alias : Groups(job), kind : Kinds]
<1>1. /\ Len(job.tasks) \in Nat /\ TaskIds(job) = 1..Len(job.tasks)
      /\ \A t \in TaskIds(job) :
              /\ job.tasks[t].inputs \subseteq Groups(job)
              /\ job.tasks[t].outputs \subseteq Groups(job)
              /\ job.tasks[t].mutations \subseteq Groups(job)
              /\ job.tasks[t].work \in Nat
  <2>1. job.tasks \in Seq(T)
    BY JobFacts
  <2>2. /\ Len(job.tasks) \in Nat /\ TaskIds(job) = 1..Len(job.tasks)
        /\ \A t \in TaskIds(job) : job.tasks[t] \in T
    <3> HIDE DEF T
    <3> QED BY <2>1 DEF TaskIds
  <2> QED BY <2>2
<1>2. /\ Len(job.actions) \in Nat /\ ActionIds(job) = 1..Len(job.actions)
      /\ \A i \in ActionIds(job) :
              /\ job.actions[i].trigger \in TaskIds(job)
              /\ job.actions[i].alias \in Groups(job)
              /\ job.actions[i].kind \in Kinds
  <2>1. job.actions \in Seq(A)
    BY JobFacts
  <2>2. /\ Len(job.actions) \in Nat /\ ActionIds(job) = 1..Len(job.actions)
        /\ \A i \in ActionIds(job) : job.actions[i] \in A
    <3> HIDE DEF A
    <3> QED BY <2>1 DEF ActionIds
  <2> QED BY <2>2
<1>3. IsFiniteSet(TaskIds(job))
  <2>1. \A n \in Nat : IsFiniteSet(1..n)
    BY FS_Interval
  <2> QED BY <1>1, <2>1
<1> QED BY <1>1, <1>2, <1>3

\* What ends before a task that has started has ended.
LEMMA EndedBefore ==
  ASSUME TasksInOrder, NEW s \in running \cup done
  PROVE  EndsBefore(job, s) \subseteq done
<1>1. done \in SUBSET TaskIds(job) /\ Awaits(job, s) \subseteq done
  BY DEF TasksInOrder
<1>2. \A u \in done : Awaits(job, u) \subseteq done
  BY DEF TasksInOrder
<1> QED BY <1>1, <1>2 DEF EndsBefore

\* The schedules move groups in turn.
InTurn == \A p \in Problems : MovesInTurn(p)

\* Once an action on a group has been submitted, the group's producer has ended.
LEMMA ProducersDone ==
  ASSUME InTurn, Shapes, TasksInOrder, NEW i \in ActionIds(job), i < cursor,
         NEW t \in TaskIds(job), Actions[i].alias \in job.tasks[t].outputs
  PROVE  t \in done
<1>1. Actions[i].trigger \in done
  BY DEF TasksInOrder
<1>2. Actions[i].trigger = t \/ t \in EndsBefore(job, Actions[i].trigger)
  BY DEF InTurn, MovesInTurn, Shapes, Actions
<1> QED BY <1>1, <1>2, EndedBefore

\* Between two fetches of a group it leaves the device.
LEMMA FetchesApart ==
  ASSUME InTurn, Shapes, NEW i \in ActionIds(job), NEW j \in ActionIds(job), i < j,
         Actions[i].kind = "fetch", Actions[j].kind = "fetch",
         Actions[i].alias = Actions[j].alias
  PROVE  \E k \in ActionIds(job) : /\ i < k /\ k < j
                                   /\ Actions[k].alias = Actions[i].alias
                                   /\ Actions[k].kind \in DeparturesOf
<1> DEFINE a == Actions[i].alias
           At(kinds) == {k \in ActionIds(job) : job.actions[k].alias = a /\ job.actions[k].kind \in kinds}
<1>1. a \in Groups(job)
  BY JobTasks DEF Shapes, Actions
<1>2. \A x, y \in At({"fetch"}) : x < y => \E k \in At({"evict", "release"}) : x < k /\ k < y
  <2>1. MovesInTurn(job)
    BY DEF InTurn, Shapes
  <2> HIDE DEF a
  <2> QED BY <1>1, <2>1, Zenon DEF MovesInTurn
<1>3. i \in At({"fetch"}) /\ j \in At({"fetch"})
  BY DEF Actions
<1>4. \E k \in At({"evict", "release"}) : i < k /\ k < j
  BY <1>2, <1>3
<1> QED BY <1>4 DEF DeparturesOf, Actions

\* The bytes of a set of groups are a natural number.
LEMMA BytesTyped ==
  ASSUME job \in Problems, NEW S \in SUBSET Groups(job)
  PROVE  Bytes(job, S) \in Nat /\ IsFiniteSet(S)
<1>1. IsFiniteSet(S) /\ \A a \in S : job.size[a] \in Nat
  BY JobFacts, FS_Subset
<1> QED BY <1>1, TotalType DEF Bytes

\* The bytes of two sets that share no group.
LEMMA BytesMore ==
  ASSUME job \in Problems, NEW S \in SUBSET Groups(job), NEW R \in SUBSET Groups(job),
         S \cap R = {}
  PROVE  Bytes(job, S \cup R) = Bytes(job, S) + Bytes(job, R)
<1>1. IsFiniteSet(S) /\ IsFiniteSet(R)
  BY BytesTyped
<1>2. \A a \in S \cup R : job.size[a] \in Nat
  BY JobFacts
<1> QED BY <1>1, <1>2, TotalUnion DEF Bytes

\* The bytes that are left when some of a set's groups go.
LEMMA BytesLess ==
  ASSUME job \in Problems, NEW S \in SUBSET Groups(job), NEW R \in SUBSET S
  PROVE  /\ Bytes(job, S \ R) = Bytes(job, S) - Bytes(job, R)
         /\ Bytes(job, S) \in Nat /\ Bytes(job, R) \in Nat /\ Bytes(job, S \ R) \in Nat
<1> DEFINE T == S \ R
<1>1. T \in SUBSET Groups(job) /\ R \in SUBSET Groups(job) /\ T \cap R = {} /\ T \cup R = S
  OBVIOUS
<1>2. Bytes(job, T \cup R) = Bytes(job, T) + Bytes(job, R)
  <2> HIDE DEF T
  <2> QED BY <1>1, BytesMore
<1>3. Bytes(job, S) \in Nat /\ Bytes(job, R) \in Nat /\ Bytes(job, T) \in Nat
  BY <1>1, BytesTyped
<1>4. Bytes(job, S) = Bytes(job, T) + Bytes(job, R)
  <2> HIDE DEF T
  <2> QED BY <1>1, <1>2
<1> QED BY <1>3, <1>4

\* The bytes of one group, and of none.
LEMMA BytesOne ==
  ASSUME job \in Problems, NEW a \in Groups(job)
  PROVE  Bytes(job, {a}) = job.size[a] /\ Bytes(job, {}) = 0 /\ job.size[a] \in Nat
<1>1. job.size[a] \in Nat
  BY JobFacts
<1>2. Bytes(job, {}) = 0
  BY TotalEmpty DEF Bytes
<1>3. Total(job.size, {} \cup {a}) = Total(job.size, {}) + job.size[a]
  BY <1>1, TotalAdd, FS_EmptySet
<1> QED BY <1>1, <1>2, <1>3 DEF Bytes

\* The workspace of the running tasks and one more.
LEMMA WorkMore ==
  ASSUME job \in Problems, NEW S \in SUBSET TaskIds(job), NEW t \in TaskIds(job), t \notin S
  PROVE  /\ Total(Works, S \cup {t}) = Total(Works, S) + job.tasks[t].work
         /\ Total(Works, S) \in Nat /\ job.tasks[t].work \in Nat
<1>1. /\ IsFiniteSet(S) /\ Works[t] = job.tasks[t].work /\ Works[t] \in Nat
      /\ \A s \in S : Works[s] \in Nat
  BY JobTasks, FS_Subset DEF Works
<1>2. Total(Works, S \cup {t}) = Total(Works, S) + Works[t] /\ Total(Works, S) \in Nat
  BY <1>1, TotalAdd, TotalType
<1> QED BY <1>1, <1>2

\* The workspace of the running tasks but one.
LEMMA WorkLess ==
  ASSUME job \in Problems, NEW S \in SUBSET TaskIds(job), NEW t \in S
  PROVE  /\ Total(Works, S \ {t}) = Total(Works, S) - job.tasks[t].work
         /\ Total(Works, S \ {t}) \in Nat
<1>1. (S \ {t}) \cup {t} = S /\ S \ {t} \in SUBSET TaskIds(job) /\ t \notin S \ {t} /\ t \in TaskIds(job)
  OBVIOUS
<1> DEFINE R == S \ {t}
<1>2. /\ Total(Works, R \cup {t}) = Total(Works, R) + job.tasks[t].work
      /\ Total(Works, R) \in Nat /\ job.tasks[t].work \in Nat
  <2>1. R \in SUBSET TaskIds(job) /\ t \notin R
    OBVIOUS
  <2> HIDE DEF R
  <2> QED BY <1>1, <2>1, WorkMore
<1>3. Total(Works, S) = Total(Works, R) + job.tasks[t].work
  <2>1. R \cup {t} = S
    BY <1>1
  <2> HIDE DEF R
  <2> QED BY <1>2, <2>1
<1> QED BY <1>2, <1>3

(***************************************************************************)
(* The start, and the steps that move nothing.                             *)
(***************************************************************************)

\* _initialize_memory: every counter is the bytes of what is resident.
LEMMA InitInv ==
  ASSUME Init
  PROVE  IInv
<1> DEFINE m == InitializeMemory(job)
<1>1. /\ job \in Problems
      /\ devAlloc = m.dev /\ devReady = m.dev /\ devVer = m.versions
      /\ spillAlloc = m.host /\ spillReady = m.host /\ spillVer = m.versions
      /\ latest = m.versions /\ phys = m.phys /\ spilled = m.spilled
      /\ outcome = m.outcome /\ pc = m.pc
      /\ fetchPending = {} /\ evictPending = {} /\ wbPending = {}
      /\ cursor = 1 /\ running = {} /\ done = {}
      /\ queue = Idle(<<>>) /\ active = Idle(None) /\ due = {} /\ work = 0
  BY DEF Init
<1>2. /\ Groups(job) = DOMAIN job.size /\ ZeroSize(job) \subseteq Groups(job)
  BY DEF Groups, ZeroSize
<1>3. /\ devAlloc = job.initDev \cup ZeroSize(job) /\ devReady = devAlloc
      /\ spillAlloc = (job.retain \cup job.initSpill) \ ZeroSize(job) /\ spillReady = spillAlloc
      /\ phys = (IF job.initial = None THEN Bytes(job, devAlloc) ELSE job.initial)
      /\ spilled = Bytes(job, spillAlloc)
      /\ latest = [a \in Groups(job) |-> 0] /\ devVer = latest /\ spillVer = latest
  BY <1>1 DEF InitializeMemory
<1>4. /\ devAlloc \subseteq Groups(job) /\ spillAlloc \subseteq Groups(job)
  BY <1>1, <1>2, <1>3, JobFacts
<1>6. Bytes(job, devAlloc) \in Nat /\ Bytes(job, spillAlloc) \in Nat
  BY <1>1, <1>4, BytesTyped
<1>61. phys \in Nat /\ job.devCap \in Nat /\ job.spillCap \in Nat
  <2>1. job.initial # None => job.initial \in Nat
    BY <1>1, ProblemsShaped DEF Shaped
  <2> QED BY <1>1, <1>3, <1>6, <2>1, JobFacts
<1>5. /\ pc # "stopped" => /\ phys <= job.devCap /\ spilled <= job.spillCap /\ outcome = None
      /\ pc = "final" => job.tasks = <<>>
  <2>1. m.phys = phys /\ m.spilled = spilled
    BY <1>1
  <2> DEFINE kind == IF phys > job.devCap THEN "initial-device-capacity"
                     ELSE IF spilled > job.spillCap THEN "initial-spill-capacity"
                     ELSE None
  <2>2. /\ m.outcome = kind
        /\ m.pc = IF kind # None THEN "stopped"
                  ELSE IF job.tasks # <<>> \/ job.actions # <<>> THEN "transfers" ELSE "final"
    BY <1>1, <1>3 DEF InitializeMemory
  <2>3. pc # "stopped" => kind = None
    BY <1>1, <2>2
  <2>4. pc = "final" => job.tasks = <<>>
    BY <1>1, <2>2
  <2>5. kind = None => ~(phys > job.devCap) /\ ~(spilled > job.spillCap)
    BY NoneAssumption DEF Reports
  <2> QED BY <1>1, <1>61, <1>6, <1>3, <2>2, <2>3, <2>4, <2>5
<1>7. \A l \in Lanes : queue[l] = <<>> /\ active[l] = None /\ Entries(l) = {}
  BY <1>1 DEF Idle, Entries
<1>8. Shapes
  <2>1. queue \in [Lanes -> Seq(Entry)] /\ active \in [Lanes -> Entry \cup {None}]
    BY <1>1 DEF Idle
  <2>2. cursor \in Nat /\ 1 <= cursor /\ cursor <= Len(Actions) + 1
    BY <1>1, JobTasks DEF Actions
  <2> QED BY <1>1, <1>3, <1>4, <2>1, <2>2 DEF Shapes
<1>9. TasksInOrder
  <2>1. pc = "final" => done = TaskIds(job)
    BY <1>1, <1>5 DEF TaskIds
  <2>2. \A i \in ActionIds(job) : i < cursor => Actions[i].trigger \in done
    BY <1>1, JobTasks
  <2> QED BY <1>1, <1>5, <2>1, <2>2, NoneAssumption DEF TasksInOrder, Reports
<1>10. Pendings
  BY <1>1 DEF Pendings
<1>11. OneCopy("fetch") /\ OneCopy("evict")
  BY <1>7 DEF OneCopy, Lanes
<1>12. FetchLane /\ EvictLane /\ Crossing
  BY <1>7 DEF FetchLane, EvictLane, Crossing, Lanes
<1>13. Numbers
  BY <1>1, <1>3, <1>6, <1>61 DEF Numbers
<1>14. BytesExact
  <2>1. Total(Works, running) = 0
    BY <1>1, TotalEmpty
  <2> QED BY <1>1, <1>3, <1>5, <1>6, <2>1 DEF BytesExact, Works
<1> QED BY <1>8, <1>9, <1>10, <1>11, <1>12, <1>13, <1>14 DEF IInv

\* All that the invariant is about but the events and the phase.
Moving == <<job, aliases, cursor, running, done, queue, active, bytes, latest>>

\* A step that moves no copy, task or byte.
LEMMA Quiet ==
  ASSUME IInv, UNCHANGED Moving, due' \subseteq UnderWay,
         pc' = "final" => done = TaskIds(job),
         pc' # "stopped" => pc # "stopped" /\ outcome' # "completed"
  PROVE  IInv'
<1> USE DEF Moving, aliases, bytes
<1>1. Shapes'
  BY DEF IInv, Shapes, Actions, Entry, UnderWay
<1>2. TasksInOrder'
  BY DEF IInv, TasksInOrder, Actions
<1>3. Pendings'
  BY DEF IInv, Pendings, Actions
<1>4. OneCopy("fetch")' /\ OneCopy("evict")'
  BY DEF IInv, OneCopy, Alias, Actions
<1>5. FetchLane' /\ EvictLane' /\ Crossing'
  BY DEF IInv, FetchLane, EvictLane, Crossing, Alias, Kind, Actions, Entries
<1>6. Numbers' /\ BytesExact'
  BY DEF IInv, Numbers, BytesExact
<1> QED BY <1>1, <1>2, <1>3, <1>4, <1>5, <1>6 DEF IInv

\* A report or a result changes nothing else.
LEMMA StopInv ==
  ASSUME IInv, NEW kind, Stop(kind)
  PROVE  IInv'
<1>1. UNCHANGED Moving /\ due' = due /\ pc' = "stopped"
  BY DEF Stop, Moving, progress
<1>2. due' \subseteq UnderWay
  BY <1>1 DEF IInv, Shapes
<1> QED BY <1>1, <1>2, Quiet

\* The cursor waits, the clock moves on, an event has been handled.
LEMMA Waits ==
  ASSUME IInv, SubmitDone \/ AdvanceTime \/ EventsDone
  PROVE  IInv'
<1>1. UNCHANGED Moving /\ due' \subseteq UnderWay /\ UNCHANGED outcome /\ pc # "stopped"
  BY DEF IInv, Shapes, SubmitDone, AdvanceTime, EventsDone, Moving, progress
<1>2. pc' = "final" => ~PendingWork
  BY DEF SubmitDone, AdvanceTime, EventsDone
<1>3. ~PendingWork => done = TaskIds(job)
  BY DEF PendingWork, Unlaunched, IInv, TasksInOrder
<1>4. outcome' # "completed"
  BY <1>1 DEF IInv, TasksInOrder
<1> QED BY <1>1, <1>2, <1>3, <1>4, Quiet

\* No task can be launched.
LEMMA LaunchesDone ==
  ASSUME IInv, pc = "launch", pc' = "submit",
         UNCHANGED <<job, scan, changed, aliases, progress, bytes, outcome, latest>>
  PROVE  IInv'
<1>1. UNCHANGED Moving /\ due' \subseteq UnderWay /\ UNCHANGED outcome
  BY DEF IInv, Shapes, Moving, progress
<1>2. outcome' # "completed"
  BY <1>1 DEF IInv, TasksInOrder
<1> QED BY <1>1, <1>2, Quiet

\* Nothing happens.
LEMMA Stutters ==
  ASSUME IInv, UNCHANGED vars
  PROVE  IInv'
<1>1. UNCHANGED Moving /\ due' \subseteq UnderWay /\ UNCHANGED <<outcome, pc>>
  BY DEF IInv, Shapes, Moving, progress, vars, loop
<1> QED BY <1>1, Quiet DEF IInv, TasksInOrder

(***************************************************************************)
(* Copies start.                                                           *)
(***************************************************************************)

\* One direction of _try_start_transfers: the copy at the head is the active one.
LEMMA LaneStarts ==
  ASSUME IInv, TryStartTransfers, NEW l \in Lanes
  PROVE  /\ queue'[l] \in Seq(Entry) /\ active'[l] \in Entry \cup {None}
         /\ Entries(l)' \subseteq Entries(l)
         /\ active[l] # None => active'[l] = active[l]
         /\ active'[l] # active[l] => Startable(l) /\ active'[l] = Head(queue[l])
         /\ OneCopy(l) => OneCopy(l)'
<1>1. queue[l] \in Seq(Entry) /\ active[l] \in Entry \cup {None} /\ job' = job
  BY DEF IInv, Shapes, TryStartTransfers
<1>2. CASE ~Startable(l)
  <2>1. active'[l] = active[l] /\ queue'[l] = queue[l]
    BY <1>2 DEF TryStartTransfers
  <2>2. Entries(l)' = Entries(l)
    BY <2>1 DEF Entries
  <2>3. OneCopy(l) => OneCopy(l)'
    BY <1>1, <2>1 DEF OneCopy, Alias, Actions
  <2> QED BY <1>1, <2>1, <2>2, <2>3
<1>3. CASE Startable(l)
  <2> DEFINE q == queue[l]
  <2>1. /\ q # <<>> /\ active[l] = None /\ active'[l] = Head(q) /\ queue'[l] = Tail(q)
    BY <1>3 DEF TryStartTransfers, Startable
  <2>2. /\ Head(q) \in Entry /\ Tail(q) \in Seq(Entry) /\ 1 \in DOMAIN q /\ Head(q) = q[1]
        /\ \A i \in DOMAIN Tail(q) : i + 1 \in DOMAIN q /\ i + 1 # 1 /\ Tail(q)[i] = q[i + 1]
    <3> HIDE DEF q
    <3>1. q \in Seq(Entry) /\ q # <<>>
      BY <1>1, <2>1 DEF q
    <3> QED BY <3>1
  <2>3. Entries(l)' \subseteq Entries(l)
    <3>1. ASSUME NEW e \in Entries(l)' PROVE e \in Entries(l)
      <4>1. CASE e = Head(q)
        BY <2>2, <4>1 DEF Entries
      <4>2. CASE e # Head(q)
        <5>1. PICK i \in DOMAIN Tail(q) : e = Tail(q)[i]
          BY <2>1, <4>2, <3>1 DEF Entries
        <5> QED BY <2>2, <5>1 DEF Entries
      <4> QED BY <4>1, <4>2
    <3> QED BY <3>1
  <2>4. ASSUME OneCopy(l) PROVE OneCopy(l)'
    <3>1. \A i, j \in DOMAIN q : i # j => Alias(q[i]) # Alias(q[j])
      BY <2>4 DEF OneCopy
    <3>2. \A i, j \in DOMAIN Tail(q) : i # j => Alias(Tail(q)[i]) # Alias(Tail(q)[j])
      <4>1. \A i, j \in DOMAIN Tail(q) : i # j => i + 1 # j + 1
        BY <2>1, <1>1
      <4> QED BY <2>2, <3>1, <4>1
    <3>3. \A i \in DOMAIN Tail(q) : Alias(Tail(q)[i]) # Alias(Head(q))
      BY <2>2, <3>1
    <3> DEFINE r == Tail(q)
               h == Head(q)
    <3>4. \A i, j \in DOMAIN r : i # j => Actions[r[i].action].alias # Actions[r[j].action].alias
      BY <3>2 DEF Alias
    <3>5. \A i \in DOMAIN r : Actions[r[i].action].alias # Actions[h.action].alias
      BY <3>3 DEF Alias
    <3>6. queue'[l] = r /\ active'[l] = h /\ Actions' = Actions
      BY <1>1, <2>1 DEF Actions
    <3> HIDE DEF r, h, q
    <3> QED BY <3>4, <3>5, <3>6 DEF OneCopy, Alias
  <2> QED BY <1>3, <2>1, <2>2, <2>3, <2>4
<1> QED BY <1>2, <1>3

\* _try_start_transfers: an active fetch has a ready source that nothing is writing.
LEMMA StartsInv ==
  ASSUME IInv, TryStartTransfers
  PROVE  IInv'
<1>1. /\ job' = job /\ cursor' = cursor /\ UNCHANGED aliases /\ UNCHANGED bytes
      /\ running' = running /\ done' = done /\ due' = due /\ latest' = latest
      /\ outcome' = outcome /\ pc = "transfers" /\ pc' = "launch"
      /\ queue' = [l \in Lanes |-> queue'[l]] /\ active' = [l \in Lanes |-> active'[l]]
  BY DEF TryStartTransfers
<1>2. Shapes'
  <2>1. queue' \in [Lanes -> Seq(Entry)] /\ active' \in [Lanes -> Entry \cup {None}]
    BY <1>1, LaneStarts
  <2>2. UnderWay \subseteq UnderWay'
    BY <1>1, LaneStarts DEF UnderWay
  <2> QED BY <1>1, <2>1, <2>2 DEF IInv, Shapes, aliases, Entry, Actions
<1>3. TasksInOrder'
  BY <1>1 DEF IInv, TasksInOrder, Actions
<1>4. Pendings'
  BY <1>1 DEF IInv, Pendings, Actions, aliases
<1>5. OneCopy("fetch")' /\ OneCopy("evict")'
  BY LaneStarts DEF IInv, Lanes
<1>6. Entries("fetch")' \subseteq Entries("fetch") /\ Entries("evict")' \subseteq Entries("evict")
  BY LaneStarts DEF Lanes
<1>7. FetchLane'
  BY <1>1, <1>6 DEF IInv, FetchLane, Alias, Kind, Actions, aliases
<1>8. EvictLane'
  BY <1>1, <1>6 DEF IInv, EvictLane, Alias, Kind, Actions, aliases
<1>9. Crossing'
  <2>1. \A e \in Entries("fetch")', f \in Entries("evict")' :
          Alias(e)' = Alias(f)' => Kind(f)' = "evict"
    BY <1>1, <1>6 DEF IInv, Crossing, Alias, Kind, Actions
  <2>2. ASSUME active'["fetch"] # None
        PROVE  /\ Alias(active'["fetch"]) \in spillAlloc
               /\ \A f \in Entries("evict") : Alias(f) # Alias(active'["fetch"])
    <3>1. CASE active'["fetch"] = active["fetch"]
      BY <2>2, <3>1 DEF IInv, Crossing
    <3>2. CASE active'["fetch"] # active["fetch"]
      <4> DEFINE e == Head(queue["fetch"])
      <4>1. Startable("fetch") /\ active'["fetch"] = e /\ "fetch" \in Lanes
        BY <3>2, LaneStarts DEF Lanes
      <4>2. Alias(e) \notin evictPending /\ Alias(e) \in spillReady
        BY <4>1 DEF Startable, SourceReady, Act, Alias
      <4>3. e \in Entries("fetch")
        <5>1. queue["fetch"] \in Seq(Entry) /\ queue["fetch"] # <<>>
          BY <4>1 DEF IInv, Shapes, Startable
        <5>2. 1 \in DOMAIN queue["fetch"] /\ e = queue["fetch"][1]
          BY <5>1
        <5> QED BY <5>2 DEF Entries
      <4>4. ASSUME NEW f \in Entries("evict"), Alias(f) = Alias(e) PROVE FALSE
        BY <4>2, <4>3, <4>4 DEF IInv, Crossing, EvictLane
      <4> QED BY <4>1, <4>2, <4>4 DEF IInv, Shapes
    <3> QED BY <3>1, <3>2
  <2> QED BY <1>1, <1>6, <2>1, <2>2 DEF Crossing, Alias, Actions, aliases
<1>10. Numbers' /\ BytesExact'
  BY <1>1 DEF IInv, Numbers, BytesExact, bytes, aliases
<1> QED BY <1>2, <1>3, <1>4, <1>5, <1>7, <1>8, <1>9, <1>10 DEF IInv

(***************************************************************************)
(* Memory deltas.                                                          *)
(***************************************************************************)

\* A memory delta is a number, and the code's default without an admission.
LEMMA DeltaIsInt ==
  ASSUME job \in Problems, NEW d \in Int, NEW part \in {1, 2}, NEW x
  PROVE  /\ TaskDelta(x, part, d) \in Int /\ ActionDelta(x, part, d) \in Int
         /\ job.initial = None => TaskDelta(x, part, d) = d /\ ActionDelta(x, part, d) = d
<1> DEFINE T == {job.taskDeltas[t] : t \in DOMAIN job.taskDeltas}
           A == {job.actionDeltas[i] : i \in DOMAIN job.actionDeltas}
<1>1. /\ job.initial = None => T \cup A = {} /\ job.unlisted = None
      /\ \A y \in T \cup A : y \in Int \X Int
      /\ job.unlisted # None => job.unlisted \in Int
  BY ProblemsShaped, Zenon DEF Shaped
<1>2. TaskDelta(x, part, d) \in Int
  <2>1. x \in DOMAIN job.taskDeltas => job.taskDeltas[x] \in Int \X Int
    BY <1>1
  <2> QED BY <1>1, <2>1 DEF TaskDelta, Listed
<1>3. ActionDelta(x, part, d) \in Int
  <2>1. x \in DOMAIN job.actionDeltas => job.actionDeltas[x] \in Int \X Int
    BY <1>1
  <2> QED BY <1>1, <2>1 DEF ActionDelta, Listed
<1>4. ASSUME job.initial = None PROVE x \notin DOMAIN job.taskDeltas /\ x \notin DOMAIN job.actionDeltas
  <2>1. T = {} /\ A = {}
    BY <1>1, <1>4
  <2> QED BY <2>1
<1> QED BY <1>1, <1>2, <1>3, <1>4 DEF TaskDelta, ActionDelta, Listed

\* A completion takes no device bytes.
LEMMA EndDeltas ==
  ASSUME job \in Problems, GivesBack(job), NEW d \in Int, d <= 0, NEW x
  PROVE  TaskDelta(x, 2, d) <= 0 /\ ActionDelta(x, 2, d) <= 0
BY DEF GivesBack, TaskDelta, ActionDelta, Listed

(***************************************************************************)
(* Tasks start and end.                                                    *)
(***************************************************************************)

\* Nothing moves what a task has still to produce.
LEMMA OutputsUntouched ==
  ASSUME InTurn, IInv, NEW t \in TaskIds(job), t \notin done
  PROVE  /\ job.tasks[t].outputs \cap (fetchPending \cup evictPending \cup wbPending) = {}
         /\ \A l \in Lanes : \A e \in Entries(l) : Alias(e) \notin job.tasks[t].outputs
<1>1. Shapes /\ TasksInOrder /\ Pendings /\ FetchLane /\ EvictLane
  BY DEF IInv
<1>2. job.tasks[t].outputs \cap (fetchPending \cup evictPending \cup wbPending) = {}
  <2> SUFFICES ASSUME NEW a \in fetchPending \cup evictPending \cup wbPending,
                      a \in job.tasks[t].outputs
               PROVE  FALSE
    OBVIOUS
  <2>1. PICK i \in ActionIds(job) : i < cursor /\ Actions[i].alias = a
    BY <1>1 DEF Pendings
  <2> QED BY <1>1, <2>1, ProducersDone
<1>3. \A e \in Entries("fetch") : Alias(e) \in fetchPending
  BY <1>1 DEF FetchLane
<1>4. \A e \in Entries("evict") : Alias(e) \in evictPending \cup wbPending
  BY <1>1 DEF EvictLane
<1> QED BY <1>2, <1>3, <1>4 DEF Lanes

\* _try_launch_tasks, one task: its outputs and workspace are charged.
LEMMA LaunchInv ==
  ASSUME InTurn, IInv, pc = "launch", NEW t \in TaskIds(job), CanLaunch(t), LaunchTask(t)
  PROVE  IInv'
<1> DEFINE outs == job.tasks[t].outputs
<1>1. /\ running' = running \cup {t} /\ done' = done
      /\ devAlloc' = devAlloc \cup outs /\ devReady' = devReady \ outs
      /\ fetchPending' = fetchPending \ outs /\ evictPending' = evictPending \ outs
      /\ wbPending' = wbPending \ outs /\ spillReady' = spillReady \ outs
      /\ work' = work + job.tasks[t].work /\ phys' = phys + StartDelta(t)
      /\ UNCHANGED <<job, pc, devVer, spillAlloc, spillVer, cursor, queue, active, due,
                     spilled, outcome, latest>>
  BY DEF LaunchTask
<1>2. /\ Shapes /\ TasksInOrder /\ Pendings /\ OneCopy("fetch") /\ OneCopy("evict")
      /\ FetchLane /\ EvictLane /\ Crossing /\ Numbers /\ BytesExact /\ job \in Problems
  BY DEF IInv, Shapes
<1>3. t \notin running \cup done
  BY DEF CanLaunch, Unlaunched
<1>4. /\ outs \cap (fetchPending \cup evictPending \cup wbPending) = {}
      /\ \A l \in Lanes : \A e \in Entries(l) : Alias(e) \notin outs
  <2> HIDE DEF outs
  <2> QED BY <1>3, OutputsUntouched DEF outs
<1>5. fetchPending' = fetchPending /\ evictPending' = evictPending /\ wbPending' = wbPending
  <2> HIDE DEF outs
  <2> QED BY <1>1, <1>4
<1>6. outs \subseteq Groups(job)
  BY <1>2, JobTasks
<1>7. Shapes'
  <2>1. UnderWay \subseteq UnderWay'
    BY <1>1 DEF UnderWay
  <2>2. devAlloc' \subseteq Groups(job) /\ devReady' \subseteq Groups(job) /\ spillReady' \subseteq spillAlloc'
    <3> HIDE DEF outs
    <3> QED BY <1>1, <1>2, <1>6 DEF Shapes
  <2> QED BY <1>1, <1>2, <1>5, <2>1, <2>2 DEF Shapes, Actions, Entry
<1>8. TasksInOrder'
  <2>1. Awaits(job, t) \subseteq done
    <3> SUFFICES ASSUME NEW s \in Awaits(job, t) PROVE s \in done
      OBVIOUS
    <3>1. s \in 1..(t - 1) /\ (s \in job.tasks[t].deps \/ job.tasks[s].lane = job.tasks[t].lane)
      BY DEF Awaits
    <3>2. s \in TaskIds(job) /\ ~(t <= s)
      BY <1>2, <3>1, JobTasks
    <3>3. CASE s \in job.tasks[t].deps
      BY <3>3 DEF CanLaunch
    <3>4. CASE job.tasks[s].lane = job.tasks[t].lane
      <4>1. s \notin Unlaunched
        BY <3>2, <3>4 DEF CanLaunch, FirstUnlaunchedOnLane
      <4>2. s \notin running
        BY <3>4 DEF CanLaunch
      <4> QED BY <3>2, <4>1, <4>2 DEF Unlaunched
    <3> QED BY <3>1, <3>3, <3>4
  <2> QED BY <1>1, <1>2, <1>3, <2>1 DEF TasksInOrder, Actions
<1>9. Pendings'
  <2> HIDE DEF outs
  <2> QED BY <1>1, <1>2, <1>5 DEF Pendings, Actions
<1>10. OneCopy("fetch")' /\ OneCopy("evict")'
  BY <1>1, <1>2 DEF OneCopy, Alias, Actions
<1>11. FetchLane' /\ EvictLane' /\ Crossing'
  <2> HIDE DEF outs
  <2>1. Entries("fetch")' = Entries("fetch") /\ Entries("evict")' = Entries("evict")
    BY <1>1 DEF Entries
  <2>2. FetchLane' 
    BY <1>1, <1>2, <1>5, <2>1 DEF FetchLane, Alias, Kind, Actions
  <2>3. \A e \in Entries("evict") : Alias(e) \in devAlloc' /\ Alias(e) \in devReady'
    BY <1>1, <1>2, <1>4 DEF EvictLane, Lanes
  <2>4. EvictLane'
    BY <1>1, <1>2, <1>5, <2>1, <2>3 DEF EvictLane, Alias, Kind, Actions
  <2>5. Crossing'
    BY <1>1, <1>2, <2>1 DEF Crossing, Alias, Kind, Actions
  <2> QED BY <2>2, <2>4, <2>5
<1>12. Numbers' /\ BytesExact'
  <2> DEFINE new == outs \ devAlloc
             ws == job.tasks[t].work
             dflt == Bytes(job, new) + ws
  <2>1. /\ Bytes(job, new) \in Nat /\ ws \in Nat /\ job.devCap \in Nat /\ dflt \in Int
        /\ Bytes(job, devAlloc) \in Nat
    <3>1. new \in SUBSET Groups(job) /\ devAlloc \in SUBSET Groups(job)
      BY <1>2, <1>6 DEF Shapes
    <3>2. ws \in Nat /\ job.devCap \in Nat
      BY <1>2, JobTasks, JobFacts
    <3> HIDE DEF new, ws
    <3>3. Bytes(job, new) \in Nat /\ Bytes(job, devAlloc) \in Nat
      BY <1>2, <3>1, BytesTyped
    <3> QED BY <3>2, <3>3
  <2>2. StartDelta(t) = TaskDelta(t, 1, dflt)
    BY DEF StartDelta, NewOutputs
  <2>3. StartDelta(t) \in Int /\ (job.initial = None => StartDelta(t) = dflt)
    <3> HIDE DEF dflt
    <3> QED BY <1>2, <2>1, <2>2, DeltaIsInt
  <2>4. Fits(StartDelta(t)) /\ phys \in Int /\ work \in Nat /\ spilled \in Nat
    BY <1>2 DEF CanLaunch, Numbers
  <2>5. phys' <= job.devCap /\ phys' \in Int
    BY <1>1, <2>1, <2>3, <2>4 DEF Fits
  <2>6. Bytes(job, devAlloc') = Bytes(job, devAlloc) + Bytes(job, new)
    <3>1. new \in SUBSET Groups(job) /\ devAlloc \in SUBSET Groups(job) /\ devAlloc \cap new = {}
          /\ devAlloc' = devAlloc \cup new
      BY <1>1, <1>2, <1>6 DEF Shapes
    <3> HIDE DEF new, outs
    <3> QED BY <1>2, <3>1, BytesMore
  <2>7. pc # "stopped" /\ pc' # "stopped"
    BY <1>1
  <2>8. work' = Total(Works, running') /\ work' \in Nat
    <3>1. work = Total(Works, running) /\ running \in SUBSET TaskIds(job) /\ t \notin running
      BY <1>2, <1>3, <2>7 DEF BytesExact, Works, TasksInOrder
    <3>2. Total(Works, running \cup {t}) = Total(Works, running) + ws /\ Total(Works, running) \in Nat
      BY <1>2, <3>1, WorkMore
    <3> HIDE DEF ws
    <3> QED BY <1>1, <2>1, <3>1, <3>2 DEF ws
  <2>9. job'.initial = None => phys' = Bytes(job, devAlloc') + work'
    <3>1. job.initial = None => phys = Bytes(job, devAlloc) + work
      BY <1>2, <2>7 DEF BytesExact
    <3>2. phys' = phys + StartDelta(t) /\ work' = work + ws /\ job' = job
      BY <1>1
    <3> HIDE DEF ws, new
    <3> QED BY <2>1, <2>3, <2>4, <2>6, <3>1, <3>2
  <2> QED BY <1>1, <1>2, <2>4, <2>5, <2>7, <2>8, <2>9 DEF Numbers, BytesExact, Works
<1> QED BY <1>7, <1>8, <1>9, <1>10, <1>11, <1>12 DEF IInv

\* What the loop launches is a task that can start.
LEMMA NextAble ==
  ASSUME IInv, {t \in TaskIds(job) : t >= scan /\ CanLaunch(t)} # {},
         LaunchTask(Min({t \in TaskIds(job) : t >= scan /\ CanLaunch(t)}))
  PROVE  \E m \in TaskIds(job) : CanLaunch(m) /\ LaunchTask(m)
<1> DEFINE able == {t \in TaskIds(job) : t >= scan /\ CanLaunch(t)}
<1>1. able \subseteq 1..Len(job.tasks) /\ Len(job.tasks) \in Nat
  BY JobTasks DEF IInv, Shapes
<1>2. Min(able) \in able
  <2> HIDE DEF able
  <2>1. able # {}
    BY DEF able
  <2> QED BY <1>1, <2>1, LeastIsLeast
<1>3. PICK m \in able : m = Min(able)
  BY <1>2
<1>4. m \in TaskIds(job) /\ CanLaunch(m)
  OBVIOUS
<1>5. LaunchTask(m)
  BY <1>3
<1> QED BY <1>4, <1>5

\* _try_launch_tasks.
LEMMA LaunchesInv ==
  ASSUME InTurn, IInv, TryLaunchTasks
  PROVE  IInv'
<1> DEFINE able == {t \in TaskIds(job) : t >= scan /\ CanLaunch(t)}
<1>1. CASE able # {} /\ LaunchTask(Min(able))
  <2>1. PICK m \in TaskIds(job) : CanLaunch(m) /\ LaunchTask(m)
    BY <1>1, NextAble
  <2>2. pc = "launch"
    BY DEF TryLaunchTasks
  <2> QED BY <2>1, <2>2, LaunchInv
<1>2. CASE ~(able # {} /\ LaunchTask(Min(able)))
  <2>1. /\ pc = "launch" /\ pc' = "submit"
        /\ UNCHANGED <<job, scan, changed, aliases, progress, bytes, outcome, latest>>
    BY <1>2 DEF TryLaunchTasks
  <2> QED BY <2>1, LaunchesDone
<1> QED BY <1>1, <1>2

(***************************************************************************)
(* Actions are submitted.                                                  *)
(***************************************************************************)

\* What _enqueue_transfer appends.
NewEntry == [action |-> cursor, version |-> devVer[Here.alias]]

\* What every submitted action has in common.
LEMMA SubmittedFacts ==
  ASSUME IInv, NEW kind, Submitting(kind), Fits(TriggerDelta), Submitted
  PROVE  /\ cursor \in ActionIds(job) /\ Here.alias \in Groups(job) /\ Here.kind = kind
         /\ cursor' = cursor + 1 /\ cursor' \in Nat /\ 1 <= cursor' /\ cursor' <= Len(Actions) + 1
         /\ NewEntry \in Entry /\ Alias(NewEntry) = Here.alias /\ Kind(NewEntry) = kind
         /\ pc # "stopped" /\ pc' = pc /\ TasksInOrder' /\ UnderWay' = UnderWay
         /\ phys' \in Int /\ phys' <= job.devCap /\ phys' = phys + TriggerDelta
         /\ work' \in Nat /\ work' = Total(Works, running')
<1>1. /\ Shapes /\ TasksInOrder /\ Numbers /\ BytesExact /\ job \in Problems
  BY DEF IInv, Shapes
<1>2. /\ cursor' = cursor + 1 /\ phys' = phys + TriggerDelta
      /\ UNCHANGED <<job, pc, devVer, running, done, active, due, work, outcome, latest>>
  BY DEF Submitted
<1>3. pc \in {"submit", "resubmit"} /\ cursor <= Len(Actions) /\ Here.trigger \in done
      /\ Here.kind = kind
  BY DEF Submitting, Due
<1>4. cursor \in ActionIds(job) /\ Len(Actions) \in Nat /\ cursor \in Nat
  BY <1>1, <1>3, JobTasks DEF Shapes, Actions
<1>5. Here.alias \in Groups(job)
  BY <1>1, <1>4, JobTasks DEF Here, Actions
<1>6. NewEntry \in Entry /\ Alias(NewEntry) = Here.alias /\ Kind(NewEntry) = kind
  BY <1>1, <1>3, <1>4, <1>5 DEF NewEntry, Entry, Alias, Kind, Here, Shapes
<1>7. TasksInOrder'
  <2>1. \A i \in ActionIds(job) : i < cursor + 1 => i < cursor \/ i = cursor
    BY <1>1, <1>4, JobTasks
  <2> QED BY <1>1, <1>2, <1>3, <2>1 DEF TasksInOrder, Actions, Here
<1>8. phys' \in Int /\ phys' <= job.devCap
  <2> DEFINE dflt == CASE Here.kind = "release" -> -job.size[Here.alias]
                       [] Here.kind = "fetch" /\ Here.alias \notin devAlloc -> job.size[Here.alias]
                       [] OTHER -> 0
  <2>1. dflt \in Int
    <3>1. job.size[Here.alias] \in Nat
      BY <1>1, <1>5, JobFacts
    <3> QED BY <3>1
  <2>2. TriggerDelta \in Int
    <3>1. TriggerDelta = ActionDelta(cursor, 1, dflt)
      BY DEF TriggerDelta
    <3> HIDE DEF dflt
    <3> QED BY <1>1, <2>1, <3>1, DeltaIsInt
  <2>3. job.devCap \in Nat /\ phys \in Int
    BY <1>1, JobFacts DEF Numbers
  <2> QED BY <1>2, <2>2, <2>3 DEF Fits
<1>9. work' \in Nat /\ work' = Total(Works, running')
  BY <1>1, <1>2, <1>3 DEF Numbers, BytesExact, Works
<1>10. UnderWay' = UnderWay
  BY <1>2 DEF UnderWay
<1> QED BY <1>1, <1>2, <1>3, <1>4, <1>5, <1>6, <1>7, <1>8, <1>9, <1>10 DEF Shapes

\* The bytes a trigger moves without an admission.
LEMMA DefaultDelta ==
  ASSUME job \in Problems, job.initial = None, Here.alias \in Groups(job)
  PROVE  TriggerDelta = CASE Here.kind = "release" -> -job.size[Here.alias]
                          [] Here.kind = "fetch" /\ Here.alias \notin devAlloc -> job.size[Here.alias]
                          [] OTHER -> 0
<1> DEFINE dflt == CASE Here.kind = "release" -> -job.size[Here.alias]
                     [] Here.kind = "fetch" /\ Here.alias \notin devAlloc -> job.size[Here.alias]
                     [] OTHER -> 0
<1>1. dflt \in Int
  <2>1. job.size[Here.alias] \in Nat
    BY JobFacts
  <2> QED BY <2>1
<1>2. TriggerDelta = ActionDelta(cursor, 1, dflt)
  BY DEF TriggerDelta
<1> HIDE DEF dflt
<1>3. TriggerDelta = dflt
  BY <1>1, <1>2, DeltaIsInt
<1> QED BY <1>3 DEF dflt

\* _enqueue_transfer: the lane has one copy more.
LEMMA Enqueued ==
  ASSUME IInv, NewEntry \in Entry, Alias(NewEntry) = Here.alias,
         NEW l \in Lanes, Enqueue(l), active' = active, job' = job
  PROVE  /\ queue' \in [Lanes -> Seq(Entry)]
         /\ Entries(l)' = Entries(l) \cup {NewEntry}
         /\ \A m \in Lanes : m # l => Entries(m)' = Entries(m) /\ (OneCopy(m) => OneCopy(m)')
         /\ OneCopy(l) /\ (\A x \in Entries(l) : Alias(x) # Here.alias) => OneCopy(l)'
<1> DEFINE q == queue[l]
           r == Append(q, NewEntry)
<1>1. queue \in [Lanes -> Seq(Entry)] /\ queue' = [queue EXCEPT ![l] = r]
  BY DEF IInv, Shapes, Enqueue, NewEntry
<1>2. q \in Seq(Entry) /\ queue'[l] = r /\ \A m \in Lanes : m # l => queue'[m] = queue[m]
  <2> HIDE DEF r
  <2> QED BY <1>1
<1>3. /\ r \in Seq(Entry) /\ DOMAIN r = DOMAIN q \cup {Len(q) + 1} /\ Len(q) + 1 \notin DOMAIN q
      /\ r[Len(q) + 1] = NewEntry /\ \A i \in DOMAIN q : r[i] = q[i]
  <2> HIDE DEF q
  <2> QED BY <1>2
<1>4. queue' \in [Lanes -> Seq(Entry)]
  <2> HIDE DEF r
  <2> QED BY <1>1, <1>3
<1>5. Entries(l)' = Entries(l) \cup {NewEntry}
  <2> HIDE DEF r
  <2>1. {r[i] : i \in DOMAIN r} = {q[i] : i \in DOMAIN q} \cup {NewEntry}
    BY <1>3
  <2>2. queue[l] = q /\ queue'[l] = r /\ active'[l] = active[l]
    BY <1>2
  <2> HIDE DEF q
  <2>3. Entries(l)' = {r[i] : i \in DOMAIN r} \cup ({active[l]} \ {None})
    BY <2>2 DEF Entries
  <2>4. Entries(l) = {q[i] : i \in DOMAIN q} \cup ({active[l]} \ {None})
    BY <2>2 DEF Entries
  <2> QED BY <2>1, <2>3, <2>4
<1>6. ASSUME NEW m \in Lanes, m # l
      PROVE  Entries(m)' = Entries(m) /\ (OneCopy(m) => OneCopy(m)')
  BY <1>2, <1>6 DEF Entries, OneCopy, Alias, Actions
<1>7. ASSUME OneCopy(l), \A x \in Entries(l) : Alias(x) # Here.alias
      PROVE  OneCopy(l)'
  <2> HIDE DEF r
  <2>1. \A i \in DOMAIN q : Actions[q[i].action].alias # Actions[NewEntry.action].alias
    BY <1>7 DEF Entries, Alias
  <2>2. active[l] # None => Actions[NewEntry.action].alias # Actions[active[l].action].alias
    BY <1>7 DEF Entries, Alias
  <2>3. \A i, j \in DOMAIN q : i # j => Actions[q[i].action].alias # Actions[q[j].action].alias
    BY <1>7 DEF OneCopy, Alias
  <2>4. active[l] # None => \A i \in DOMAIN q : Actions[q[i].action].alias # Actions[active[l].action].alias
    BY <1>7 DEF OneCopy, Alias
  <2>5. \A i, j \in DOMAIN r : i # j => Actions[r[i].action].alias # Actions[r[j].action].alias
    BY <1>3, <2>1, <2>3
  <2>6. active[l] # None => \A i \in DOMAIN r : Actions[r[i].action].alias # Actions[active[l].action].alias
    BY <1>3, <2>2, <2>4
  <2>7. Actions' = Actions /\ active'[l] = active[l] /\ queue'[l] = r
    BY <1>2 DEF Actions
  <2> QED BY <2>5, <2>6, <2>7 DEF OneCopy, Alias
<1> QED BY <1>4, <1>5, <1>6, <1>7

\* The facts of the entries that are there already outlive a submission that
\* does not touch their groups.
LEMMA FetchLaneStays ==
  ASSUME IInv, cursor \in ActionIds(job), cursor' = cursor + 1, job' = job,
         fetchPending \subseteq fetchPending', fetchPending \cap devAlloc \subseteq devAlloc',
         Here.kind \in DeparturesOf => Here.alias \notin fetchPending,
         NEW e \in Entries("fetch")
  PROVE  /\ e.action < cursor' /\ Kind(e)' = "fetch"
         /\ Alias(e)' \in fetchPending' /\ Alias(e)' \in devAlloc'
         /\ \A k \in ActionIds(job') :
              e.action < k /\ k < cursor' /\ Actions'[k].alias = Alias(e)'
                => Actions'[k].kind \notin DeparturesOf
<1>1. /\ e.action < cursor /\ Kind(e) = "fetch" /\ Alias(e) \in fetchPending /\ Alias(e) \in devAlloc
      /\ \A k \in ActionIds(job) :
           e.action < k /\ k < cursor /\ Actions[k].alias = Alias(e)
             => Actions[k].kind \notin DeparturesOf
  BY DEF IInv, FetchLane
<1>2. Alias(e)' = Alias(e) /\ Kind(e)' = Kind(e) /\ Actions' = Actions
  BY DEF Alias, Kind, Actions
<1>3. e.action \in Nat /\ cursor \in Nat
  <2>1. e \in Entry
    <3>1. queue["fetch"] \in Seq(Entry) /\ active["fetch"] \in Entry \cup {None}
      BY DEF IInv, Shapes, Lanes
    <3>2. \A i \in DOMAIN queue["fetch"] : queue["fetch"][i] \in Entry
      BY <3>1
    <3> QED BY <3>1, <3>2 DEF Entries
  <2> QED BY <2>1, JobTasks DEF IInv, Shapes, Entry
<1>4. \A k \in ActionIds(job) : k < cursor + 1 => k < cursor \/ k = cursor
  BY JobTasks DEF IInv, Shapes
<1>5. Actions[cursor].alias = Alias(e) => Actions[cursor].kind \notin DeparturesOf
  BY <1>1 DEF Here
<1> QED BY <1>1, <1>2, <1>3, <1>4, <1>5

\* _release: the group has no copy queued, and its bytes go.
LEMMA ReleaseInv ==
  ASSUME IInv, SubmitRelease
  PROVE  IInv'
<1> DEFINE a == Here.alias
           gone == (spillAlloc \cap {a}) \ job.retain
<1>1. CASE ReleaseConflicts # None /\ Stop(ReleaseConflicts)
  BY <1>1, StopInv
<1>2. CASE ~(ReleaseConflicts # None /\ Stop(ReleaseConflicts))
  <2>1. /\ Submitting("release") /\ Fits(TriggerDelta) /\ Submitted
        /\ ReleaseConflicts = None /\ a \notin wbPending
        /\ devAlloc' = devAlloc \ {a} /\ devReady' = devReady \ {a}
        /\ spillAlloc' = spillAlloc \ gone /\ spillReady' = spillReady \ gone
        /\ spilled' = spilled - Bytes(job, gone)
        /\ UNCHANGED <<queue, fetchPending, evictPending, wbPending>>
    BY <1>2 DEF SubmitRelease
  <2>2. /\ cursor \in ActionIds(job) /\ a \in Groups(job) /\ Here.kind = "release"
        /\ cursor' = cursor + 1 /\ cursor' \in Nat /\ 1 <= cursor' /\ cursor' <= Len(Actions) + 1
        /\ pc # "stopped" /\ pc' = pc /\ TasksInOrder' /\ UnderWay' = UnderWay
        /\ phys' \in Int /\ phys' <= job.devCap /\ phys' = phys + TriggerDelta
        /\ work' \in Nat /\ work' = Total(Works, running')
    BY <2>1, SubmittedFacts
  <2>3. /\ UNCHANGED <<job, pc, devVer, spillVer, running, done, active, due, work, outcome, latest>>
    BY <2>1 DEF Submitted
  <2>4. /\ Shapes /\ Pendings /\ OneCopy("fetch") /\ OneCopy("evict") /\ FetchLane /\ EvictLane
        /\ Crossing /\ Numbers /\ BytesExact /\ job \in Problems
    BY DEF IInv, Shapes
  <2>5. a \in devAlloc /\ a \in devReady /\ a \notin fetchPending \cup evictPending \cup wbPending
    <3>2. a \in devAlloc \cap devReady
      BY <2>1, NoneAssumption DEF ReleaseConflicts, Reports
    <3>3. a \notin fetchPending \cup evictPending
      BY <2>1, <3>2, NoneAssumption DEF ReleaseConflicts, Reports
    <3> QED BY <2>1, <3>2, <3>3
  <2> HIDE DEF a, gone
  <2>6. Entries("fetch")' = Entries("fetch") /\ Entries("evict")' = Entries("evict")
    BY <2>1, <2>3 DEF Entries
  <2>7. Shapes'
    BY <2>1, <2>2, <2>3, <2>4 DEF Shapes, Actions, Entry
  <2>8. Pendings'
    <3>1. \A i \in ActionIds(job) : i < cursor => i < cursor + 1
      BY <2>2, JobTasks, <2>4
    <3> QED BY <2>1, <2>2, <2>3, <2>4, <3>1 DEF Pendings, Actions
  <2>9. OneCopy("fetch")' /\ OneCopy("evict")'
    BY <2>1, <2>3, <2>4 DEF OneCopy, Alias, Actions
  <2>10. FetchLane'
    <3>1. fetchPending \cap devAlloc \subseteq devAlloc'
      BY <2>1, <2>5
    <3>2. \A e \in Entries("fetch") :
            /\ e.action < cursor' /\ Kind(e)' = "fetch"
            /\ Alias(e)' \in fetchPending' /\ Alias(e)' \in devAlloc'
            /\ \A k \in ActionIds(job') :
                 e.action < k /\ k < cursor' /\ Actions'[k].alias = Alias(e)'
                   => Actions'[k].kind \notin DeparturesOf
      BY <2>1, <2>2, <2>3, <2>5, <3>1, FetchLaneStays DEF a
    <3> QED BY <2>6, <3>2 DEF FetchLane
  <2>11. EvictLane'
    <3>1. \A e \in Entries("evict") : Alias(e) # a
      BY <2>4, <2>5 DEF EvictLane
    <3>2. gone \subseteq {a}
      BY DEF gone
    <3>3. \A e \in Entries("evict") : e.action < cursor + 1
      <4>1. \A e \in Entries("evict") : e.action \in Nat
        <5>1. queue["evict"] \in Seq(Entry) /\ active["evict"] \in Entry \cup {None}
          BY <2>4 DEF Shapes, Lanes
        <5>2. \A i \in DOMAIN queue["evict"] : queue["evict"][i] \in Entry
          BY <5>1
        <5> QED BY <5>1, <5>2, JobTasks, <2>4 DEF Entries, Entry
      <4> QED BY <2>4, <4>1 DEF EvictLane, Shapes
    <3> QED BY <2>1, <2>2, <2>3, <2>4, <2>6, <3>1, <3>2, <3>3 DEF EvictLane, Alias, Kind, Actions
  <2>12. Crossing'
    <3>1. active["fetch"] # None => Alias(active["fetch"]) # a
      BY <2>4, <2>5 DEF FetchLane, Entries
    <3>2. gone \subseteq {a}
      BY DEF gone
    <3> QED BY <2>1, <2>3, <2>4, <2>6, <3>1, <3>2 DEF Crossing, Alias, Kind, Actions
  <2>13. Numbers' /\ BytesExact'
    <3>1. /\ Bytes(job, spillAlloc \ gone) = Bytes(job, spillAlloc) - Bytes(job, gone)
          /\ Bytes(job, spillAlloc \ gone) \in Nat /\ Bytes(job, spillAlloc) \in Nat
          /\ Bytes(job, gone) \in Nat
      <4>1. spillAlloc \in SUBSET Groups(job) /\ gone \in SUBSET spillAlloc
        BY <2>4 DEF Shapes, gone
      <4> QED BY <2>4, <4>1, BytesLess
    <3>2. Bytes(job, devAlloc \ {a}) = Bytes(job, devAlloc) - job.size[a]
      <4>1. devAlloc \in SUBSET Groups(job) /\ {a} \in SUBSET devAlloc
        BY <2>4, <2>5 DEF Shapes
      <4> QED BY <2>2, <2>4, <4>1, BytesLess, BytesOne
    <3>3. job.initial = None => TriggerDelta = -job.size[a]
      BY <2>2, <2>4, DefaultDelta DEF a
    <3>4. spilled = Bytes(job, spillAlloc) /\ spilled <= job.spillCap
          /\ (job.initial = None => phys = Bytes(job, devAlloc) + work) /\ work \in Nat
      BY <2>2, <2>4 DEF BytesExact, Numbers
    <3>5. spilled' = Bytes(job, spillAlloc') /\ spilled' <= job.spillCap /\ spilled' \in Nat
      BY <2>1, <2>4, <3>1, <3>4, JobFacts
    <3>6. job.initial = None => phys' = Bytes(job, devAlloc') + work'
      <4>1. Bytes(job, devAlloc) \in Nat /\ job.size[a] \in Nat
        BY <2>2, <2>4, BytesTyped, JobFacts DEF Shapes
      <4> QED BY <2>1, <2>2, <2>3, <3>2, <3>3, <3>4, <4>1
    <3> QED BY <2>2, <2>3, <3>5, <3>6 DEF Numbers, BytesExact, Works
  <2> QED BY <2>2, <2>7, <2>8, <2>9, <2>10, <2>11, <2>12, <2>13 DEF IInv
<1> QED BY <1>1, <1>2

\* The type of a queued or active copy.
LEMMA EntriesTyped ==
  ASSUME IInv, NEW l \in Lanes, NEW e \in Entries(l)
  PROVE  e \in Entry /\ e.action \in Nat
<1>1. queue[l] \in Seq(Entry) /\ active[l] \in Entry \cup {None} /\ job \in Problems
  BY DEF IInv, Shapes
<1>2. \A i \in DOMAIN queue[l] : queue[l][i] \in Entry
  BY <1>1
<1>3. e \in Entry
  BY <1>1, <1>2 DEF Entries
<1> QED BY <1>1, <1>3, JobTasks DEF Entry

\* The same for the copies to the spill pool.
LEMMA EvictLaneStays ==
  ASSUME IInv, cursor' = cursor + 1, job' = job,
         evictPending \subseteq evictPending', wbPending \subseteq wbPending',
         spillAlloc \subseteq spillAlloc', devAlloc \subseteq devAlloc',
         devReady \cap devAlloc \subseteq devReady',
         NEW e \in Entries("evict")
  PROVE  /\ e.action < cursor'
         /\ \/ Kind(e)' = "evict" /\ Alias(e)' \in evictPending'
            \/ Kind(e)' = "writeback" /\ Alias(e)' \in wbPending'
         /\ Alias(e)' \in spillAlloc' /\ Alias(e)' \in devAlloc' /\ Alias(e)' \in devReady'
<1>1. /\ e.action < cursor
      /\ \/ Kind(e) = "evict" /\ Alias(e) \in evictPending
         \/ Kind(e) = "writeback" /\ Alias(e) \in wbPending
      /\ Alias(e) \in spillAlloc /\ Alias(e) \in devAlloc /\ Alias(e) \in devReady
  BY DEF IInv, EvictLane
<1>2. Alias(e)' = Alias(e) /\ Kind(e)' = Kind(e)
  BY DEF Alias, Kind, Actions
<1>3. e.action \in Nat /\ cursor \in Nat
  BY EntriesTyped DEF Lanes, IInv, Shapes
<1> QED BY <1>1, <1>2, <1>3

\* A flag names a group that a submitted action moves.
LEMMA PendingsStay ==
  ASSUME IInv, cursor \in ActionIds(job), cursor' = cursor + 1, job' = job,
         fetchPending' \cup evictPending' \cup wbPending'
           \subseteq fetchPending \cup evictPending \cup wbPending \cup {Here.alias}
  PROVE  \A a \in fetchPending' \cup evictPending' \cup wbPending' :
           \E i \in ActionIds(job') : i < cursor' /\ Actions'[i].alias = a
<1>1. \A i \in ActionIds(job) : i < cursor => i < cursor + 1
  BY JobTasks DEF IInv, Shapes
<1>2. cursor < cursor + 1 /\ Actions[cursor].alias = Here.alias
  BY JobTasks DEF IInv, Shapes, Here
<1>3. \A a \in fetchPending \cup evictPending \cup wbPending :
        \E i \in ActionIds(job) : i < cursor + 1 /\ Actions[i].alias = a
  BY <1>1 DEF IInv, Pendings
<1>4. \E i \in ActionIds(job) : i < cursor + 1 /\ Actions[i].alias = Here.alias
  BY <1>2
<1>5. \A a \in fetchPending \cup evictPending \cup wbPending \cup {Here.alias} :
        \E i \in ActionIds(job) : i < cursor + 1 /\ Actions[i].alias = a
  BY <1>3, <1>4
<1>6. Actions' = Actions
  BY DEF Actions
<1> QED BY <1>5, <1>6

\* An eviction or a write-back is queued: the group is not being fetched, and its
\* spill bytes are charged once.
LEMMA CopyQueued ==
  ASSUME IInv, NEW kind \in {"evict", "writeback"}, Submitting(kind), Fits(TriggerDelta),
         ~NoSource, ReserveSpill, Enqueue("evict"), Submitted,
         evictPending' = IF kind = "evict" THEN evictPending \cup {Here.alias} ELSE evictPending,
         wbPending' = IF kind = "evict" THEN wbPending ELSE wbPending \cup {Here.alias},
         UNCHANGED <<devAlloc, devReady, fetchPending>>
  PROVE  IInv'
<1> DEFINE a == Here.alias
<1>1. /\ cursor \in ActionIds(job) /\ a \in Groups(job) /\ Here.kind = kind
      /\ cursor' = cursor + 1 /\ cursor' \in Nat /\ 1 <= cursor' /\ cursor' <= Len(Actions) + 1
      /\ NewEntry \in Entry /\ Alias(NewEntry) = a /\ Kind(NewEntry) = kind
      /\ pc # "stopped" /\ pc' = pc /\ TasksInOrder' /\ UnderWay' = UnderWay
      /\ phys' \in Int /\ phys' <= job.devCap /\ phys' = phys + TriggerDelta
      /\ work' \in Nat /\ work' = Total(Works, running')
  BY SubmittedFacts
<1>2. UNCHANGED <<job, pc, devVer, spillVer, running, done, active, due, work, outcome, latest>>
  BY DEF Submitted
<1>3. /\ Shapes /\ Pendings /\ OneCopy("fetch") /\ OneCopy("evict") /\ FetchLane /\ EvictLane
      /\ Crossing /\ Numbers /\ BytesExact /\ job \in Problems
  BY DEF IInv, Shapes
<1>4. /\ a \in devAlloc /\ a \in devReady /\ a \notin evictPending \cup wbPending
      /\ a \notin fetchPending
  <2>1. a \in devAlloc /\ a \in devReady /\ a \notin evictPending \cup wbPending
    BY DEF NoSource
  <2> QED BY <1>3, <2>1 DEF Pendings
<1>5. /\ a \in spillAlloc \/ spilled + job.size[a] <= job.spillCap
      /\ spillAlloc' = spillAlloc \cup {a}
      /\ spillReady' = (IF a \in spillAlloc THEN spillReady ELSE spillReady \ {a})
      /\ spilled' = spilled + Bytes(job, {a} \ spillAlloc)
  BY DEF ReserveSpill, SpillCharge
<1>6. /\ queue' \in [Lanes -> Seq(Entry)]
      /\ Entries("evict")' = Entries("evict") \cup {NewEntry}
      /\ Entries("fetch")' = Entries("fetch") /\ OneCopy("fetch")'
      /\ (\A x \in Entries("evict") : Alias(x) # Here.alias) => OneCopy("evict")'
  <2>1. /\ "evict" \in Lanes /\ "fetch" \in Lanes /\ "fetch" # "evict"
    BY DEF Lanes
  <2> QED BY <1>1, <1>2, <1>3, <2>1, Enqueued
<1>7. (\A x \in Entries("evict") : Alias(x) # a) /\ (\A x \in Entries("fetch") : Alias(x) # a)
  BY <1>3, <1>4 DEF EvictLane, FetchLane
<1>8. PICK n : n = NewEntry
  OBVIOUS
<1>9. /\ n \in Entry /\ Alias(n) = a /\ Kind(n) = kind /\ n.action = cursor
      /\ Entries("evict")' = Entries("evict") \cup {n}
  BY <1>1, <1>6, <1>8 DEF NewEntry
<1> HIDE DEF a
<1>10. Alias(n)' = a /\ Kind(n)' = kind /\ Actions' = Actions
  BY <1>2, <1>9 DEF Alias, Kind, Actions
<1>11. Shapes'
  <2>1. spillAlloc' \subseteq Groups(job) /\ spillReady' \subseteq spillAlloc'
    BY <1>1, <1>3, <1>5 DEF Shapes
  <2>2. evictPending' \subseteq Groups(job) /\ wbPending' \subseteq Groups(job)
    BY <1>1, <1>3 DEF Shapes, a
  <2> QED BY <1>1, <1>2, <1>3, <1>6, <2>1, <2>2 DEF Shapes, Actions, Entry
<1>12. Pendings'
  <2>1. \A x \in fetchPending' \cup evictPending' \cup wbPending' :
          \E i \in ActionIds(job') : i < cursor' /\ Actions'[i].alias = x
    BY <1>1, <1>2, PendingsStay
  <2>2. fetchPending' \cap devReady' \subseteq evictPending' /\ evictPending' \cap wbPending' = {}
    BY <1>3, <1>4 DEF Pendings, a
  <2> QED BY <2>1, <2>2 DEF Pendings
<1>13. OneCopy("fetch")' /\ OneCopy("evict")'
  BY <1>6, <1>7 DEF a
<1>14. FetchLane'
  <2>1. \A e \in Entries("fetch") :
          /\ e.action < cursor' /\ Kind(e)' = "fetch"
          /\ Alias(e)' \in fetchPending' /\ Alias(e)' \in devAlloc'
          /\ \A k \in ActionIds(job') :
               e.action < k /\ k < cursor' /\ Actions'[k].alias = Alias(e)'
                 => Actions'[k].kind \notin DeparturesOf
    BY <1>1, <1>2, <1>4, FetchLaneStays DEF a
  <2> QED BY <1>6, <2>1 DEF FetchLane
<1>15. EvictLane'
  <2>1. \A e \in Entries("evict") :
          /\ e.action < cursor'
          /\ \/ Kind(e)' = "evict" /\ Alias(e)' \in evictPending'
             \/ Kind(e)' = "writeback" /\ Alias(e)' \in wbPending'
          /\ Alias(e)' \in spillAlloc' /\ Alias(e)' \in devAlloc' /\ Alias(e)' \in devReady'
    BY <1>1, <1>2, <1>5, EvictLaneStays
  <2>2. /\ n.action < cursor'
        /\ \/ Kind(n)' = "evict" /\ Alias(n)' \in evictPending'
           \/ Kind(n)' = "writeback" /\ Alias(n)' \in wbPending'
        /\ Alias(n)' \in spillAlloc' /\ Alias(n)' \in devAlloc' /\ Alias(n)' \in devReady'
    <3>1. cursor < cursor + 1
      BY <1>3 DEF Shapes
    <3> QED BY <1>1, <1>4, <1>5, <1>9, <1>10, <3>1 DEF a
  <2> QED BY <1>9, <2>1, <2>2 DEF EvictLane
<1>16. Crossing'
  <2>1. \A e \in Entries("fetch"), f \in Entries("evict") : Alias(e) = Alias(f) => Kind(f) = "evict"
    BY <1>3 DEF Crossing
  <2>2. \A e \in Entries("fetch"), f \in Entries("evict") \cup {n} :
          Alias(e) = Alias(f) => Kind(f) = "evict"
    BY <1>7, <1>9, <2>1
  <2>3. active["fetch"] # None =>
          /\ Alias(active["fetch"]) \in spillAlloc'
          /\ \A f \in Entries("evict") \cup {n} : Alias(f) # Alias(active["fetch"])
    BY <1>3, <1>5, <1>7, <1>9 DEF Crossing, Entries
  <2> QED BY <1>2, <1>6, <1>9, <1>10, <2>2, <2>3 DEF Crossing, Alias, Kind
<1>17. Numbers' /\ BytesExact'
  <2>1. spilled = Bytes(job, spillAlloc) /\ spilled <= job.spillCap
        /\ (job.initial = None => phys = Bytes(job, devAlloc) + work) /\ work \in Nat
        /\ spilled \in Nat /\ phys \in Int /\ job.spillCap \in Nat
    BY <1>1, <1>3, JobFacts DEF BytesExact, Numbers
  <2>2. spilled' = Bytes(job, spillAlloc') /\ spilled' \in Nat /\ spilled' <= job.spillCap
    <3>1. spillAlloc \in SUBSET Groups(job) /\ spillAlloc' \in SUBSET Groups(job)
      BY <1>1, <1>3, <1>5 DEF Shapes
    <3>2. Bytes(job, spillAlloc') \in Nat
      BY <1>3, <3>1, BytesTyped
    <3>3. Bytes(job, {a}) = job.size[a] /\ Bytes(job, {}) = 0 /\ job.size[a] \in Nat
      BY <1>1, <1>3, BytesOne
    <3>4. CASE a \in spillAlloc
      <4>1. spillAlloc' = spillAlloc /\ {a} \ spillAlloc = {}
        BY <1>5, <3>4
      <4>2. spilled' = spilled + Bytes(job, {})
        BY <1>5, <4>1
      <4>3. spilled' = spilled
        BY <2>1, <3>3, <4>2
      <4> QED BY <2>1, <4>1, <4>3
    <3>5. CASE a \notin spillAlloc
      <4>1. {a} \ spillAlloc = {a} /\ {a} \in SUBSET Groups(job) /\ spillAlloc \cap {a} = {}
        BY <1>1, <3>5
      <4>2. Bytes(job, spillAlloc \cup {a}) = Bytes(job, spillAlloc) + Bytes(job, {a})
        BY <1>3, <3>1, <4>1, BytesMore
      <4>3. spilled' = spilled + Bytes(job, {a}) /\ spillAlloc' = spillAlloc \cup {a}
        BY <1>5, <4>1
      <4>4. spilled + job.size[a] <= job.spillCap
        BY <1>5, <3>5
      <4> QED BY <2>1, <3>2, <3>3, <4>2, <4>3, <4>4
    <3> QED BY <3>4, <3>5
  <2>3. job.initial = None => phys' = Bytes(job, devAlloc') + work'
    <3>1. job.initial = None => TriggerDelta = 0
      BY <1>1, <1>3, DefaultDelta DEF a
    <3> QED BY <1>1, <1>2, <2>1, <3>1
  <2> QED BY <1>1, <1>2, <2>2, <2>3 DEF Numbers, BytesExact, Works
<1> QED BY <1>1, <1>11, <1>12, <1>13, <1>14, <1>15, <1>16, <1>17 DEF IInv

\* _submit_ready_actions, an eviction.
LEMMA EvictInv ==
  ASSUME IInv, SubmitEvict
  PROVE  IInv'
<1>1. CASE NoSource /\ Stop("invalid-evict")
  BY <1>1, StopInv
<1>2. CASE ~(NoSource /\ Stop("invalid-evict"))
  <2>1. /\ Submitting("evict") /\ Fits(TriggerDelta) /\ ~NoSource /\ ReserveSpill
        /\ Enqueue("evict") /\ Submitted
        /\ evictPending' = evictPending \cup {Here.alias} /\ wbPending' = wbPending
        /\ UNCHANGED <<devAlloc, devReady, fetchPending>>
    BY <1>2 DEF SubmitEvict
  <2> QED BY <2>1, CopyQueued
<1> QED BY <1>1, <1>2

\* _submit_ready_actions, a write-back: with a current spill copy there is nothing to do.
LEMMA WriteBackInv ==
  ASSUME IInv, SubmitWriteBack
  PROVE  IInv'
<1>1. CASE NoSource /\ Stop("invalid-write-back")
  BY <1>1, StopInv
<1>2. CASE /\ ~NoSource /\ Here.alias \notin spillReady /\ ReserveSpill /\ Enqueue("evict")
           /\ wbPending' = wbPending \cup {Here.alias} /\ Submitted
           /\ UNCHANGED <<devAlloc, devReady, fetchPending, evictPending>>
  <2>1. Submitting("writeback") /\ Fits(TriggerDelta)
    BY DEF SubmitWriteBack
  <2>2. "writeback" \in {"evict", "writeback"} /\ "writeback" # "evict"
    OBVIOUS
  <2> QED BY <1>2, <2>1, <2>2, CopyQueued
<1>3. CASE /\ Submitted
           /\ UNCHANGED <<queue, devAlloc, devReady, spillAlloc, spillReady,
                          fetchPending, evictPending, wbPending, spilled>>
  <2>1. Submitting("writeback") /\ Fits(TriggerDelta)
    BY DEF SubmitWriteBack
  <2>2. /\ cursor \in ActionIds(job) /\ Here.alias \in Groups(job) /\ Here.kind = "writeback"
        /\ cursor' = cursor + 1 /\ cursor' \in Nat /\ 1 <= cursor' /\ cursor' <= Len(Actions) + 1
        /\ pc # "stopped" /\ pc' = pc /\ TasksInOrder' /\ UnderWay' = UnderWay
        /\ phys' \in Int /\ phys' <= job.devCap /\ phys' = phys + TriggerDelta
        /\ work' \in Nat /\ work' = Total(Works, running')
    BY <1>3, <2>1, SubmittedFacts
  <2>3. UNCHANGED <<job, pc, devVer, spillVer, running, done, active, due, work, outcome, latest>>
    BY <1>3 DEF Submitted
  <2>4. /\ Shapes /\ Pendings /\ OneCopy("fetch") /\ OneCopy("evict") /\ Crossing
        /\ Numbers /\ BytesExact /\ job \in Problems
    BY DEF IInv, Shapes
  <2>5. Entries("fetch")' = Entries("fetch") /\ Entries("evict")' = Entries("evict")
    BY <1>3, <2>3 DEF Entries
  <2>6. Shapes'
    BY <1>3, <2>2, <2>3, <2>4 DEF Shapes, Actions, Entry
  <2>7. Pendings'
    <3>1. \A x \in fetchPending' \cup evictPending' \cup wbPending' :
            \E i \in ActionIds(job') : i < cursor' /\ Actions'[i].alias = x
      BY <1>3, <2>2, <2>3, PendingsStay
    <3> QED BY <1>3, <2>4, <3>1 DEF Pendings
  <2>8. OneCopy("fetch")' /\ OneCopy("evict")' /\ Crossing'
    BY <1>3, <2>3, <2>4, <2>5 DEF OneCopy, Crossing, Alias, Kind, Actions
  <2>9. FetchLane'
    <3>1. Here.kind \notin DeparturesOf
      BY <2>2 DEF DeparturesOf
    <3>2. \A e \in Entries("fetch") :
            /\ e.action < cursor' /\ Kind(e)' = "fetch"
            /\ Alias(e)' \in fetchPending' /\ Alias(e)' \in devAlloc'
            /\ \A k \in ActionIds(job') :
                 e.action < k /\ k < cursor' /\ Actions'[k].alias = Alias(e)'
                   => Actions'[k].kind \notin DeparturesOf
      BY <1>3, <2>2, <2>3, <3>1, FetchLaneStays
    <3> QED BY <2>5, <3>2 DEF FetchLane
  <2>10. EvictLane'
    <3>1. \A e \in Entries("evict") :
            /\ e.action < cursor'
            /\ \/ Kind(e)' = "evict" /\ Alias(e)' \in evictPending'
               \/ Kind(e)' = "writeback" /\ Alias(e)' \in wbPending'
            /\ Alias(e)' \in spillAlloc' /\ Alias(e)' \in devAlloc' /\ Alias(e)' \in devReady'
      BY <1>3, <2>2, <2>3, EvictLaneStays
    <3> QED BY <2>5, <3>1 DEF EvictLane
  <2>11. Numbers' /\ BytesExact'
    <3>1. job.initial = None => TriggerDelta = 0
      BY <2>2, <2>4, DefaultDelta
    <3>2. Numbers' /\ (pc' # "stopped" => spilled' = Bytes(job', spillAlloc') /\ spilled' <= job'.spillCap)
      BY <1>3, <2>2, <2>3, <2>4 DEF Numbers, BytesExact
    <3>3. job.initial = None => phys' = Bytes(job, devAlloc') + work'
      BY <1>3, <2>2, <2>3, <2>4, <3>1 DEF Numbers, BytesExact
    <3> QED BY <2>2, <2>3, <3>2, <3>3 DEF BytesExact, Works
  <2> QED BY <2>2, <2>6, <2>7, <2>8, <2>9, <2>10, <2>11 DEF IInv
<1> QED BY <1>1, <1>2, <1>3 DEF SubmitWriteBack

\* _submit_ready_actions, a fetch: no other fetch of the group is queued.
LEMMA FetchInv ==
  ASSUME InTurn, IInv, SubmitFetch
  PROVE  IInv'
<1> DEFINE a == Here.alias
<1>1. CASE FetchRefused /\ Stop("invalid-fetch")
  BY <1>1, StopInv
<1>2. CASE ~(FetchRefused /\ Stop("invalid-fetch"))
  <2>1. /\ Submitting("fetch") /\ Fits(TriggerDelta) /\ ~FetchRefused /\ Enqueue("fetch") /\ Submitted
        /\ devAlloc' = devAlloc \cup {a}
        /\ devReady' = (IF a \in devAlloc THEN devReady ELSE devReady \ {a})
        /\ fetchPending' = fetchPending \cup {a}
        /\ UNCHANGED <<spillAlloc, spillReady, evictPending, wbPending, spilled>>
    BY <1>2 DEF SubmitFetch
  <2>2. /\ cursor \in ActionIds(job) /\ a \in Groups(job) /\ Here.kind = "fetch"
        /\ cursor' = cursor + 1 /\ cursor' \in Nat /\ 1 <= cursor' /\ cursor' <= Len(Actions) + 1
        /\ NewEntry \in Entry /\ Alias(NewEntry) = a /\ Kind(NewEntry) = "fetch"
        /\ pc # "stopped" /\ pc' = pc /\ TasksInOrder' /\ UnderWay' = UnderWay
        /\ phys' \in Int /\ phys' <= job.devCap /\ phys' = phys + TriggerDelta
        /\ work' \in Nat /\ work' = Total(Works, running')
    BY <2>1, SubmittedFacts
  <2>3. UNCHANGED <<job, pc, devVer, spillVer, running, done, active, due, work, outcome, latest>>
    BY <2>1 DEF Submitted
  <2>4. /\ Shapes /\ TasksInOrder /\ Pendings /\ OneCopy("fetch") /\ OneCopy("evict") /\ FetchLane
        /\ EvictLane /\ Crossing /\ Numbers /\ BytesExact /\ job \in Problems
    BY DEF IInv, Shapes
  <2>5. /\ a \in devAlloc => a \in evictPending
        /\ a \in spillReady \cup evictPending
    BY <2>1 DEF FetchRefused
  <2>6. /\ queue' \in [Lanes -> Seq(Entry)]
        /\ Entries("fetch")' = Entries("fetch") \cup {NewEntry}
        /\ Entries("evict")' = Entries("evict") /\ OneCopy("evict")'
        /\ (\A x \in Entries("fetch") : Alias(x) # a) => OneCopy("fetch")'
    <3>1. "evict" \in Lanes /\ "fetch" \in Lanes /\ "fetch" # "evict"
      BY DEF Lanes
    <3> QED BY <2>1, <2>2, <2>3, <2>4, <3>1, Enqueued
  <2>7. ASSUME NEW x \in Entries("fetch"), Alias(x) = a PROVE FALSE
    <3>1. x \in Entry /\ x.action < cursor /\ Kind(x) = "fetch"
      BY <2>4, EntriesTyped DEF FetchLane, Lanes
    <3>2. x.action \in ActionIds(job)
      BY <3>1 DEF Entry
    <3>3. PICK k \in ActionIds(job) : /\ x.action < k /\ k < cursor
                                      /\ Actions[k].alias = Actions[x.action].alias
                                      /\ Actions[k].kind \in DeparturesOf
      BY <2>2, <2>4, <2>7, <3>1, <3>2, FetchesApart DEF Kind, Alias, Here
    <3> QED BY <2>4, <3>3 DEF FetchLane, Alias
  <2>8. PICK n : n = NewEntry
    OBVIOUS
  <2>9. /\ n \in Entry /\ Alias(n) = a /\ Kind(n) = "fetch" /\ n.action = cursor
        /\ Entries("fetch")' = Entries("fetch") \cup {n}
    BY <2>2, <2>6, <2>8 DEF NewEntry
  <2> HIDE DEF a
  <2>10. Alias(n)' = a /\ Kind(n)' = "fetch" /\ Actions' = Actions
    BY <2>3, <2>9 DEF Alias, Kind, Actions
  <2>11. Shapes'
    BY <2>1, <2>2, <2>3, <2>4, <2>6 DEF Shapes, Actions, Entry
  <2>12. Pendings'
    <3>1. \A x \in fetchPending' \cup evictPending' \cup wbPending' :
            \E i \in ActionIds(job') : i < cursor' /\ Actions'[i].alias = x
      BY <2>1, <2>2, <2>3, PendingsStay DEF a
    <3>2. fetchPending' \cap devReady' \subseteq evictPending'
      BY <2>1, <2>4, <2>5 DEF Pendings
    <3> QED BY <2>1, <2>4, <3>1, <3>2 DEF Pendings
  <2>13. OneCopy("fetch")' /\ OneCopy("evict")'
    BY <2>6, <2>7
  <2>14. FetchLane'
    <3>1. \A e \in Entries("fetch") :
            /\ e.action < cursor' /\ Kind(e)' = "fetch"
            /\ Alias(e)' \in fetchPending' /\ Alias(e)' \in devAlloc'
            /\ \A k \in ActionIds(job') :
                 e.action < k /\ k < cursor' /\ Actions'[k].alias = Alias(e)'
                   => Actions'[k].kind \notin DeparturesOf
      <4>1. Here.kind \notin DeparturesOf
        BY <2>2 DEF DeparturesOf
      <4> QED BY <2>1, <2>2, <2>3, <4>1, FetchLaneStays
    <3>2. /\ n.action < cursor' /\ Kind(n)' = "fetch"
          /\ Alias(n)' \in fetchPending' /\ Alias(n)' \in devAlloc'
          /\ \A k \in ActionIds(job') : ~(n.action < k /\ k < cursor')
      <4>1. cursor < cursor + 1 /\ \A k \in ActionIds(job) : ~(cursor < k /\ k < cursor + 1)
        BY <2>4, JobTasks DEF Shapes
      <4> QED BY <2>1, <2>2, <2>3, <2>9, <2>10, <4>1
    <3> QED BY <2>9, <3>1, <3>2 DEF FetchLane
  <2>15. EvictLane'
    <3>1. devReady \cap devAlloc \subseteq devReady' /\ devAlloc \subseteq devAlloc'
      BY <2>1
    <3>2. \A e \in Entries("evict") :
            /\ e.action < cursor'
            /\ \/ Kind(e)' = "evict" /\ Alias(e)' \in evictPending'
               \/ Kind(e)' = "writeback" /\ Alias(e)' \in wbPending'
            /\ Alias(e)' \in spillAlloc' /\ Alias(e)' \in devAlloc' /\ Alias(e)' \in devReady'
      BY <2>1, <2>2, <2>3, <3>1, EvictLaneStays
    <3> QED BY <2>6, <3>2 DEF EvictLane
  <2>16. Crossing'
    <3>1. \A f \in Entries("evict") : Alias(f) = a => Kind(f) = "evict"
      BY <2>4, <2>5 DEF EvictLane, Pendings
    <3>2. \A e \in Entries("fetch") \cup {n}, f \in Entries("evict") :
            Alias(e) = Alias(f) => Kind(f) = "evict"
      BY <2>4, <2>9, <3>1 DEF Crossing
    <3> QED BY <2>1, <2>3, <2>4, <2>6, <2>9, <2>10, <3>2 DEF Crossing, Alias, Kind
  <2>17. Numbers' /\ BytesExact'
    <3>1. /\ spilled = Bytes(job, spillAlloc) /\ spilled <= job.spillCap /\ spilled \in Nat
          /\ (job.initial = None => phys = Bytes(job, devAlloc) + work) /\ work \in Nat
          /\ phys \in Int
      BY <2>2, <2>4 DEF BytesExact, Numbers
    <3>2. /\ Bytes(job, devAlloc) \in Nat /\ job.size[a] \in Nat
          /\ a \notin devAlloc => Bytes(job, devAlloc \cup {a}) = Bytes(job, devAlloc) + job.size[a]
      <4>1. devAlloc \in SUBSET Groups(job) /\ {a} \in SUBSET Groups(job)
        BY <2>2, <2>4 DEF Shapes
      <4>2. a \notin devAlloc => Bytes(job, devAlloc \cup {a}) = Bytes(job, devAlloc) + Bytes(job, {a})
        <5>1. a \notin devAlloc => devAlloc \cap {a} = {}
          OBVIOUS
        <5> QED BY <2>4, <4>1, <5>1, BytesMore
      <4> QED BY <2>2, <2>4, <4>1, <4>2, BytesTyped, BytesOne
    <3>3. job.initial = None => TriggerDelta = IF a \notin devAlloc THEN job.size[a] ELSE 0
      BY <2>2, <2>4, DefaultDelta DEF a
    <3>4. ASSUME job.initial = None PROVE phys' = Bytes(job, devAlloc') + work'
      <4>1. CASE a \in devAlloc
        <5>1. devAlloc' = devAlloc
          BY <2>1, <4>1
        <5> QED BY <2>2, <2>3, <3>1, <3>2, <3>3, <3>4, <4>1, <5>1
      <4>2. CASE a \notin devAlloc
        BY <2>1, <2>2, <2>3, <3>1, <3>2, <3>3, <3>4, <4>2
      <4> QED BY <4>1, <4>2
    <3> QED BY <2>1, <2>2, <2>3, <3>1, <3>4 DEF Numbers, BytesExact, Works
  <2> QED BY <2>2, <2>11, <2>12, <2>13, <2>14, <2>15, <2>16, <2>17 DEF IInv
<1> QED BY <1>1, <1>2

(***************************************************************************)
(* Copies land.                                                            *)
(***************************************************************************)

\* The admissions give back.
Releases == \A p \in Problems : GivesBack(p)

\* What every landing has in common: the lane is free and its other copies stay.
LEMMA LandedFacts ==
  ASSUME Releases, IInv, NEW l \in Lanes, <<l, 0>> \in due, NEW d \in Int, d <= 0, Landed(l, d)
  PROVE  /\ active[l] \in Entries(l) /\ active[l] \in Entry /\ active[l] # None
         /\ Entries(l)' \subseteq Entries(l)
         /\ \A m \in Lanes : m # l => Entries(m)' = Entries(m) /\ active'[m] = active[m]
         /\ \A e \in Entries(l)' : Alias(e) # Alias(active[l])
         /\ active'[l] = None /\ active' \in [Lanes -> Entry \cup {None}]
         /\ OneCopy("fetch")' /\ OneCopy("evict")' /\ due' \subseteq UnderWay'
         /\ phys' \in Int /\ phys' <= phys /\ (job.initial = None => phys' = phys + d)
<1>1. /\ job \in Problems /\ queue[l] \in Seq(Entry) /\ active \in [Lanes -> Entry \cup {None}]
      /\ due \subseteq UnderWay /\ OneCopy("fetch") /\ OneCopy("evict") /\ phys \in Int
  BY DEF IInv, Shapes, Numbers
<1>2. /\ due' = due \ {<<l, 0>>} /\ active' = [active EXCEPT ![l] = None]
      /\ phys' = phys + ActionDelta(active[l].action, 2, d)
      /\ queue' = queue /\ job' = job /\ running' = running
  BY DEF Landed, loop
<1>3. active[l] # None
  <2>1. <<l, 0>> \in UnderWay /\ l # "task"
    BY <1>1 DEF Lanes
  <2>2. PICK m \in Lanes : <<l, 0>> = <<m, 0>> /\ active[m] # None
    BY <2>1 DEF UnderWay
  <2> QED BY <2>2
<1>4. active'[l] = None /\ \A m \in Lanes : m # l => active'[m] = active[m]
  BY <1>1, <1>2
<1>5. active[l] \in Entries(l) /\ active[l] \in Entry
  BY <1>1, <1>3 DEF Entries
<1>6. \A m \in Lanes : m # l => Entries(m)' = Entries(m)
  BY <1>2, <1>4 DEF Entries
<1>7. Entries(l)' = {queue[l][i] : i \in DOMAIN queue[l]}
  BY <1>2, <1>4 DEF Entries
<1>8. \A e \in Entries(l)' : Alias(e) # Alias(active[l])
  BY <1>1, <1>3, <1>7 DEF OneCopy, Lanes
<1>9. OneCopy("fetch")' /\ OneCopy("evict")'
  <2>1. \A m \in Lanes : OneCopy(m) => OneCopy(m)'
    <3> SUFFICES ASSUME NEW m \in Lanes, OneCopy(m) PROVE OneCopy(m)'
      OBVIOUS
    <3>1. active'[m] = active[m] \/ active'[m] = None
      BY <1>4
    <3> QED BY <1>2, <3>1 DEF OneCopy, Alias, Actions
  <2> QED BY <1>1, <2>1 DEF Lanes
<1>10. due' \subseteq UnderWay'
  <2> SUFFICES ASSUME NEW e \in due, e # <<l, 0>> PROVE e \in UnderWay'
    BY <1>2
  <2>1. CASE \E t \in running : e = <<"task", t>>
    BY <1>2, <2>1 DEF UnderWay
  <2>2. CASE \E m \in Lanes : active[m] # None /\ e = <<m, 0>>
    <3>1. PICK m \in Lanes : active[m] # None /\ e = <<m, 0>>
      BY <2>2
    <3>2. active'[m] # None
      BY <1>4, <3>1
    <3> QED BY <3>1, <3>2 DEF UnderWay
  <2> QED BY <1>1, <2>1, <2>2 DEF UnderWay
<1>11. phys' \in Int /\ phys' <= phys /\ (job.initial = None => phys' = phys + d)
  <2>1. GivesBack(job)
    BY <1>1 DEF Releases
  <2> DEFINE x == ActionDelta(active[l].action, 2, d)
  <2>2. x \in Int /\ x <= 0 /\ (job.initial = None => x = d)
    BY <1>1, <2>1, DeltaIsInt, EndDeltas
  <2>3. phys' = phys + x
    BY <1>2
  <2> HIDE DEF x
  <2> QED BY <1>1, <2>2, <2>3
<1>12. Entries(l)' \subseteq Entries(l)
  BY <1>7 DEF Entries
<1>13. active' \in [Lanes -> Entry \cup {None}]
  BY <1>1, <1>2
<1> QED BY <1>3, <1>4, <1>5, <1>6, <1>8, <1>9, <1>10, <1>11, <1>12, <1>13

\* _complete_transfer, a fetch: the spill copy of a group that is not retained goes.
LEMMA FetchLandsInv ==
  ASSUME Releases, IInv, CompleteFetch
  PROVE  IInv'
<1> DEFINE x == active["fetch"]
           a == Alias(x)
           gone == DroppedSpill(a)
<1>1. /\ pc = "events" /\ <<"fetch", 0>> \in due /\ Landed("fetch", 0)
      /\ devReady' = devReady \cup {a} /\ devVer' = [devVer EXCEPT ![a] = spillVer[a]]
      /\ fetchPending' = fetchPending \ {a}
      /\ spillAlloc' = spillAlloc \ gone /\ spillReady' = spillReady \ gone
      /\ spilled' = spilled - Bytes(job, gone)
      /\ UNCHANGED <<devAlloc, spillVer, evictPending, wbPending>>
  BY DEF CompleteFetch, Act, Alias
<1>2. UNCHANGED <<job, pc, cursor, running, done, queue, work, outcome, latest>>
  BY <1>1 DEF Landed, loop
<1>3. /\ Shapes /\ TasksInOrder /\ Pendings /\ FetchLane /\ EvictLane /\ Crossing /\ Numbers
      /\ BytesExact /\ job \in Problems
  BY DEF IInv, Shapes
<1>4. /\ x \in Entries("fetch") /\ x \in Entry /\ x # None
      /\ Entries("fetch")' \subseteq Entries("fetch") /\ Entries("evict")' = Entries("evict")
      /\ \A e \in Entries("fetch")' : Alias(e) # a
      /\ active'["fetch"] = None /\ active' \in [Lanes -> Entry \cup {None}]
      /\ OneCopy("fetch")' /\ OneCopy("evict")' /\ due' \subseteq UnderWay'
      /\ phys' \in Int /\ phys' <= phys /\ (job.initial = None => phys' = phys + 0)
  <2>1. "fetch" \in Lanes /\ "evict" \in Lanes /\ "evict" # "fetch"
    BY DEF Lanes
  <2> QED BY <1>1, <2>1, LandedFacts
<1>5. /\ a \in fetchPending /\ a \in devAlloc /\ a \in spillAlloc /\ a \in Groups(job)
      /\ \A f \in Entries("evict") : Alias(f) # a
  BY <1>3, <1>4 DEF FetchLane, Crossing, Shapes
<1>6. gone \subseteq {a} /\ gone \subseteq spillAlloc
  BY <1>5 DEF DroppedSpill
<1> HIDE DEF a, gone, x
<1>7. Shapes'
  <2>1. devVer' \in [Groups(job) -> Nat]
    BY <1>1, <1>3, <1>5 DEF Shapes
  <2> QED BY <1>1, <1>2, <1>3, <1>4, <1>5, <2>1 DEF Shapes, Actions, Entry
<1>8. TasksInOrder'
  BY <1>2, <1>3 DEF TasksInOrder, Actions
<1>9. Pendings'
  BY <1>1, <1>2, <1>3 DEF Pendings, Actions
<1>10. FetchLane'
  BY <1>1, <1>2, <1>3, <1>4 DEF FetchLane, Alias, Kind, Actions
<1>11. EvictLane'
  BY <1>1, <1>2, <1>3, <1>4, <1>5, <1>6 DEF EvictLane, Alias, Kind, Actions
<1>12. Crossing'
  BY <1>2, <1>3, <1>4 DEF Crossing, Alias, Kind, Actions
<1>13. Numbers' /\ BytesExact'
  <2>1. /\ spilled = Bytes(job, spillAlloc) /\ spilled <= job.spillCap /\ phys <= job.devCap
        /\ work = Total(Works, running) /\ work \in Nat
        /\ (job.initial = None => phys = Bytes(job, devAlloc) + work)
        /\ phys \in Int /\ job.spillCap \in Nat /\ job.devCap \in Nat
    BY <1>1, <1>3, JobFacts DEF BytesExact, Numbers, Works
  <2>2. /\ Bytes(job, spillAlloc \ gone) = Bytes(job, spillAlloc) - Bytes(job, gone)
        /\ Bytes(job, spillAlloc) \in Nat /\ Bytes(job, gone) \in Nat
        /\ Bytes(job, spillAlloc \ gone) \in Nat
    BY <1>3, <1>6, BytesLess DEF Shapes
  <2>3. spilled' = Bytes(job, spillAlloc') /\ spilled' \in Nat /\ spilled' <= job.spillCap
    BY <1>1, <2>1, <2>2
  <2>4. phys' <= job.devCap /\ (job.initial = None => phys' = Bytes(job, devAlloc') + work')
    BY <1>1, <1>2, <1>4, <2>1
  <2> QED BY <1>1, <1>2, <1>4, <2>1, <2>3, <2>4 DEF Numbers, BytesExact, Works
<1> QED BY <1>4, <1>7, <1>8, <1>9, <1>10, <1>11, <1>12, <1>13 DEF IInv

\* _complete_transfer, the other lane: the device bytes go unless a fetch waits for them.
LEMMA EvictLandsInv ==
  ASSUME Releases, IInv, CompleteEvict
  PROVE  IInv'
<1> DEFINE x == active["evict"]
           a == Alias(x)
           departs == Kind(x) = "evict"
           frees == departs /\ a \notin fetchPending
           d == IF frees THEN -job.size[a] ELSE 0
<1>1. /\ pc = "events" /\ <<"evict", 0>> \in due
      /\ Landed("evict", d)
      /\ spillVer' = [spillVer EXCEPT ![a] = x.version]
      /\ spillReady' \subseteq spillReady \cup {a}
      /\ wbPending' = (IF departs THEN wbPending ELSE wbPending \ {a})
      /\ evictPending' = (IF departs THEN evictPending \ {a} ELSE evictPending)
      /\ devReady' = (IF departs THEN devReady \ {a} ELSE devReady)
      /\ devAlloc' = (IF frees THEN devAlloc \ {a} ELSE devAlloc)
      /\ UNCHANGED <<devVer, spillAlloc, fetchPending, spilled>>
  BY DEF CompleteEvict, Act, Alias, Kind, FreesDevice
<1>2. UNCHANGED <<job, pc, cursor, running, done, queue, work, outcome, latest>>
  BY <1>1 DEF Landed, loop
<1>3. /\ Shapes /\ TasksInOrder /\ Pendings /\ FetchLane /\ EvictLane /\ Crossing /\ Numbers
      /\ BytesExact /\ job \in Problems
  BY DEF IInv, Shapes
<1>4. a \in Groups(job) /\ job.size[a] \in Nat /\ d \in Int /\ d <= 0
  <2>1. x \in Entries("evict")
    <3>1. active["evict"] # None
      <4>1. <<"evict", 0>> \in UnderWay
        BY <1>1, <1>3 DEF Shapes
      <4>2. PICK m \in Lanes : <<"evict", 0>> = <<m, 0>> /\ active[m] # None
        BY <4>1 DEF UnderWay
      <4> QED BY <4>2
    <3> QED BY <3>1 DEF Entries
  <2>2. a \in Groups(job)
    BY <1>3, <2>1 DEF EvictLane, Shapes
  <2>3. job.size[a] \in Nat
    BY <1>3, <2>2, JobFacts
  <2> HIDE DEF a
  <2> QED BY <2>2, <2>3
<1>5. /\ x \in Entries("evict") /\ x \in Entry /\ x # None
      /\ Entries("evict")' \subseteq Entries("evict") /\ Entries("fetch")' = Entries("fetch")
      /\ active'["fetch"] = active["fetch"]
      /\ \A e \in Entries("evict")' : Alias(e) # a
      /\ active' \in [Lanes -> Entry \cup {None}]
      /\ OneCopy("fetch")' /\ OneCopy("evict")' /\ due' \subseteq UnderWay'
      /\ phys' \in Int /\ phys' <= phys /\ (job.initial = None => phys' = phys + d)
  <2>1. "fetch" \in Lanes /\ "evict" \in Lanes /\ "evict" # "fetch"
    BY DEF Lanes
  <2> HIDE DEF d
  <2> QED BY <1>1, <1>4, <2>1, LandedFacts
<1>6. /\ a \in spillAlloc /\ a \in devAlloc /\ a \in devReady
      /\ x.version \in Nat
  BY <1>3, <1>5 DEF EvictLane, Entry
<1> HIDE DEF a, d, x
<1>7. Shapes'
  <2>1. spillVer' \in [Groups(job) -> Nat]
    BY <1>1, <1>3, <1>4, <1>6 DEF Shapes
  <2>2. /\ devAlloc' \subseteq devAlloc /\ devReady' \subseteq devReady
        /\ evictPending' \subseteq evictPending /\ wbPending' \subseteq wbPending
        /\ spillReady' \subseteq spillAlloc
    BY <1>1, <1>3, <1>6 DEF Shapes
  <2> QED BY <1>1, <1>2, <1>3, <1>5, <2>1, <2>2 DEF Shapes, Actions, Entry
<1>8. TasksInOrder'
  BY <1>2, <1>3 DEF TasksInOrder, Actions
<1>9. Pendings'
  <2>1. /\ evictPending' \subseteq evictPending /\ wbPending' \subseteq wbPending
        /\ fetchPending' \cap devReady' \subseteq evictPending'
    BY <1>1, <1>3 DEF Pendings
  <2> QED BY <1>1, <1>2, <1>3, <2>1 DEF Pendings, Actions
<1>10. FetchLane'
  <2>1. \A e \in Entries("fetch") : Alias(e) \in devAlloc'
    BY <1>1, <1>3 DEF FetchLane
  <2> QED BY <1>1, <1>2, <1>3, <1>5, <2>1 DEF FetchLane, Alias, Kind, Actions
<1>11. EvictLane'
  <2>1. \A e \in Entries("evict")' :
          /\ e.action < cursor
          /\ \/ Kind(e) = "evict" /\ Alias(e) \in evictPending'
             \/ Kind(e) = "writeback" /\ Alias(e) \in wbPending'
          /\ Alias(e) \in spillAlloc /\ Alias(e) \in devAlloc' /\ Alias(e) \in devReady'
    <3> SUFFICES ASSUME NEW e \in Entries("evict")'
                 PROVE  /\ e.action < cursor
                        /\ \/ Kind(e) = "evict" /\ Alias(e) \in evictPending'
                           \/ Kind(e) = "writeback" /\ Alias(e) \in wbPending'
                        /\ Alias(e) \in spillAlloc /\ Alias(e) \in devAlloc' /\ Alias(e) \in devReady'
      OBVIOUS
    <3>1. Alias(e) # a /\ e \in Entries("evict")
      BY <1>5
    <3> HIDE DEF departs
    <3> QED BY <1>1, <1>3, <3>1 DEF EvictLane
  <2> QED BY <1>1, <1>2, <2>1 DEF EvictLane, Alias, Kind, Actions
<1>12. Crossing'
  BY <1>1, <1>2, <1>3, <1>5 DEF Crossing, Alias, Kind, Actions
<1>13. Numbers' /\ BytesExact'
  <2>1. /\ spilled = Bytes(job, spillAlloc) /\ spilled <= job.spillCap /\ phys <= job.devCap
        /\ work = Total(Works, running) /\ work \in Nat
        /\ (job.initial = None => phys = Bytes(job, devAlloc) + work)
        /\ phys \in Int /\ job.spillCap \in Nat /\ job.devCap \in Nat /\ spilled \in Nat
    BY <1>1, <1>3, JobFacts DEF BytesExact, Numbers, Works
  <2>2. /\ Bytes(job, devAlloc \ {a}) = Bytes(job, devAlloc) - job.size[a]
        /\ Bytes(job, devAlloc) \in Nat
    <3>1. devAlloc \in SUBSET Groups(job) /\ {a} \in SUBSET devAlloc
      BY <1>3, <1>6 DEF Shapes
    <3> QED BY <1>3, <1>4, <3>1, BytesLess, BytesOne
  <2>3. ASSUME job.initial = None PROVE phys' = Bytes(job, devAlloc') + work
    <3>1. CASE frees
      <4>1. devAlloc' = devAlloc \ {a} /\ d = -job.size[a]
        BY <1>1, <3>1 DEF d
      <4> QED BY <1>4, <1>5, <2>1, <2>2, <2>3, <4>1
    <3>2. CASE ~frees
      <4>1. devAlloc' = devAlloc /\ d = 0
        BY <1>1, <3>2 DEF d
      <4> QED BY <1>5, <2>1, <2>2, <2>3, <4>1
    <3> QED BY <3>1, <3>2
  <2>4. phys' <= job.devCap
    BY <1>5, <2>1
  <2> QED BY <1>1, <1>2, <1>5, <2>1, <2>3, <2>4 DEF Numbers, BytesExact, Works
<1> QED BY <1>5, <1>7, <1>8, <1>9, <1>10, <1>11, <1>12, <1>13 DEF IInv

(***************************************************************************)
(* Tasks end; the whole loop.                                              *)
(***************************************************************************)

\* With no copy due, the least task that is due is a running one.
LEMMA EarliestEnds ==
  ASSUME IInv, due # {}, due \cap {<<l, 0>> : l \in Lanes} = {}
  PROVE  /\ Min({e[2] : e \in due}) \in running /\ Min({e[2] : e \in due}) \in TaskIds(job)
         /\ Min({e[2] : e \in due}) \notin done
<1> DEFINE ids == {e[2] : e \in due}
<1>1. \A e \in due : \E s \in running : e = <<"task", s>>
  BY DEF IInv, Shapes, UnderWay
<1>2. ids \subseteq running /\ ids # {}
  BY <1>1
<1>3. running \subseteq 1..Len(job.tasks) /\ Len(job.tasks) \in Nat
  BY JobTasks DEF IInv, Shapes, TasksInOrder
<1> HIDE DEF ids
<1>4. Min(ids) \in ids
  BY <1>2, <1>3, LeastIsLeast
<1>5. Min(ids) \in running /\ Min(ids) \in TaskIds(job) /\ Min(ids) \notin done
  BY <1>2, <1>4 DEF IInv, TasksInOrder
<1> QED BY <1>5 DEF ids

\* _complete_task: the workspace is given back.
LEMMA TaskEndsInv ==
  ASSUME Releases, InTurn, IInv, CompleteTask
  PROVE  IInv'
<1> DEFINE t == Min({e[2] : e \in due})
           written == Writes(job.tasks[t])
           ws == job.tasks[t].work
<1>1. /\ pc = "events" /\ due # {} /\ due \cap {<<l, 0>> : l \in Lanes} = {}
      /\ due' = due \ {<<"task", t>>} /\ running' = running \ {t} /\ done' = done \cup {t}
      /\ work' = work - ws /\ phys' = phys + TaskDelta(t, 2, -ws)
      /\ devReady' = devReady \cup job.tasks[t].outputs
      /\ devVer' = [a \in Groups(job) |-> IF a \in written THEN devVer[a] + 1 ELSE devVer[a]]
      /\ latest' = [a \in Groups(job) |-> IF a \in written THEN latest[a] + 1 ELSE latest[a]]
      /\ spillReady' = spillReady \ written /\ pc' = "resubmit"
      /\ UNCHANGED <<job, devAlloc, spillAlloc, spillVer, fetchPending, evictPending, wbPending,
                     cursor, queue, active, spilled, outcome>>
  BY DEF CompleteTask
<1>2. /\ Shapes /\ TasksInOrder /\ Pendings /\ OneCopy("fetch") /\ OneCopy("evict") /\ FetchLane
      /\ EvictLane /\ Crossing /\ Numbers /\ BytesExact /\ job \in Problems
  BY DEF IInv, Shapes
<1>3. t \in running /\ t \in TaskIds(job) /\ t \notin done
  BY <1>1, EarliestEnds
<1>4. job.tasks[t].outputs \cap (fetchPending \cup evictPending \cup wbPending) = {}
  <2> HIDE DEF t
  <2> QED BY <1>3, OutputsUntouched
<1> HIDE DEF t
<1>5. job.tasks[t].outputs \subseteq Groups(job) /\ ws \in Nat
  BY <1>2, <1>3, JobTasks
<1>6. Shapes'
  <2>1. devVer' \in [Groups(job) -> Nat] /\ latest' \in [Groups(job) -> Nat]
    <3> HIDE DEF written
    <3> QED BY <1>1, <1>2 DEF Shapes
  <2>2. due' \subseteq UnderWay'
    <3> SUFFICES ASSUME NEW e \in due, e # <<"task", t>> PROVE e \in UnderWay'
      BY <1>1
    <3>1. PICK s \in running : e = <<"task", s>>
      BY <1>1, <1>2 DEF Shapes, UnderWay
    <3>2. s # t
      BY <3>1
    <3> QED BY <1>1, <3>1, <3>2 DEF UnderWay
  <2>3. devReady' \subseteq Groups(job) /\ spillReady' \subseteq spillAlloc
    BY <1>1, <1>2, <1>5 DEF Shapes
  <2> QED BY <1>1, <1>2, <2>1, <2>2, <2>3 DEF Shapes, Actions, Entry
<1>7. TasksInOrder'
  BY <1>1, <1>2, <1>3 DEF TasksInOrder, Actions
<1>8. Pendings'
  <2>1. fetchPending' \cap devReady' \subseteq evictPending'
    BY <1>1, <1>2, <1>4 DEF Pendings
  <2> QED BY <1>1, <1>2, <2>1 DEF Pendings, Actions
<1>9. OneCopy("fetch")' /\ OneCopy("evict")'
  BY <1>1, <1>2 DEF OneCopy, Alias, Actions
<1>10. FetchLane' /\ EvictLane' /\ Crossing'
  <2>1. Entries("fetch")' = Entries("fetch") /\ Entries("evict")' = Entries("evict")
    BY <1>1 DEF Entries
  <2>2. FetchLane'
    BY <1>1, <1>2, <2>1 DEF FetchLane, Alias, Kind, Actions
  <2>3. \A e \in Entries("evict") : Alias(e) \in devReady'
    BY <1>1, <1>2 DEF EvictLane
  <2>4. EvictLane'
    BY <1>1, <1>2, <2>1, <2>3 DEF EvictLane, Alias, Kind, Actions
  <2>5. Crossing'
    BY <1>1, <1>2, <2>1 DEF Crossing, Alias, Kind, Actions
  <2> QED BY <2>2, <2>4, <2>5
<1>11. Numbers' /\ BytesExact'
  <2>1. /\ spilled = Bytes(job, spillAlloc) /\ spilled <= job.spillCap /\ phys <= job.devCap
        /\ work = Total(Works, running) /\ work \in Nat
        /\ (job.initial = None => phys = Bytes(job, devAlloc) + work)
        /\ phys \in Int /\ job.devCap \in Nat /\ spilled \in Nat
    BY <1>1, <1>2, JobFacts DEF BytesExact, Numbers, Works
  <2>2. Total(Works, running \ {t}) = Total(Works, running) - ws /\ Total(Works, running \ {t}) \in Nat
    <3>1. running \in SUBSET TaskIds(job)
      BY <1>2 DEF TasksInOrder
    <3> QED BY <1>2, <1>3, <3>1, WorkLess
  <2>3. work' = Total(Works, running') /\ work' \in Nat
    BY <1>1, <2>1, <2>2
  <2> DEFINE y == TaskDelta(t, 2, -ws)
  <2>4. y \in Int /\ y <= 0 /\ (job.initial = None => y = -ws)
    <3>1. -ws \in Int /\ -ws <= 0 /\ GivesBack(job)
      BY <1>2, <1>5 DEF Releases
    <3> HIDE DEF ws
    <3> QED BY <1>2, <3>1, DeltaIsInt, EndDeltas
  <2>5. phys' = phys + y
    BY <1>1
  <2>6. Bytes(job, devAlloc) \in Nat
    BY <1>2, BytesTyped DEF Shapes
  <2> HIDE DEF y, ws
  <2>7. phys' \in Int /\ phys' <= job.devCap
    BY <2>1, <2>4, <2>5
  <2>8. job.initial = None => phys' = Bytes(job, devAlloc') + work'
    <3>1. work' = work - ws /\ devAlloc' = devAlloc
      BY <1>1 DEF ws
    <3> QED BY <1>5, <2>1, <2>4, <2>5, <2>6, <3>1
  <2> QED BY <1>1, <2>1, <2>3, <2>7, <2>8 DEF Numbers, BytesExact, Works
<1> QED BY <1>6, <1>7, <1>8, <1>9, <1>10, <1>11 DEF IInv

\* Every step of run().
LEMMA NextInv ==
  ASSUME Releases, InTurn, IInv, [Next]_vars
  PROVE  IInv'
<1>1. CASE TryStartTransfers
  BY <1>1, StartsInv
<1>2. CASE TryLaunchTasks
  BY <1>2, LaunchesInv
<1>3. CASE SubmitRelease
  BY <1>3, ReleaseInv
<1>4. CASE SubmitEvict
  BY <1>4, EvictInv
<1>5. CASE SubmitWriteBack
  BY <1>5, WriteBackInv
<1>6. CASE SubmitFetch
  BY <1>6, FetchInv
<1>7. CASE SubmitDone \/ AdvanceTime \/ EventsDone
  BY <1>7, Waits
<1>8. CASE CompleteFetch
  BY <1>8, FetchLandsInv
<1>9. CASE CompleteEvict
  BY <1>9, EvictLandsInv
<1>10. CASE CompleteTask
  BY <1>10, TaskEndsInv
<1>11. CASE Deadlock \/ CheckFinalResidency
  BY <1>11, StopInv DEF Deadlock, CheckFinalResidency
<1>12. CASE Halted \/ UNCHANGED vars
  BY <1>12, Stutters DEF Halted
<1> QED BY <1>1, <1>2, <1>3, <1>4, <1>5, <1>6, <1>7, <1>8, <1>9, <1>10, <1>11, <1>12 DEF Next, Step

\* Every reachable state of a replay satisfies the inductive invariant: each step of
\* run() keeps its flags, lanes and counters.
THEOREM Invariance ==
  ASSUME Releases, InTurn
  PROVE  Spec => []IInv
<1>1. Init => IInv
  BY InitInv
<1>2. IInv /\ [Next]_vars => IInv'
  BY NextInv
<1> QED BY <1>1, <1>2, PTL DEF Spec

\* _apply_physical_delta, _release, _complete_transfer: the byte counters kept by hand are
\* the bytes of what is held, and stay within both capacities.
THEOREM SimulatorBytesExact ==
  ASSUME Releases, InTurn
  PROVE  Spec => []BytesExact
<1>1. IInv => BytesExact
  BY DEF IInv
<1> QED BY <1>1, Invariance, PTL

\* _try_start_direction: its assertions that the destination is allocated never fail.
THEOREM SimulatorDestinationsReserved ==
  ASSUME Releases, InTurn
  PROVE  Spec => []DestinationsReserved
<1>1. IInv => DestinationsReserved
  <2> SUFFICES ASSUME IInv PROVE DestinationsReserved
    OBVIOUS
  <2>1. \A e \in Entries("fetch") : Alias(e) \in devAlloc
    BY DEF IInv, FetchLane
  <2>2. \A e \in Entries("evict") : Alias(e) \in spillAlloc
    BY DEF IInv, EvictLane
  <2> QED BY <2>1, <2>2 DEF DestinationsReserved, Lanes, Entries, Act, Alias
<1> QED BY <1>1, Invariance, PTL

(***************************************************************************)
(* Copies are current.                                                     *)
(***************************************************************************)

\* The schedules are ordered by cause.
Causal == \A p \in Problems : CausallyOrdered(p)

\* At the start every copy is current.
LEMMA InitCurrent ==
  ASSUME Init
  PROVE  Current
<1>1. devVer = latest /\ spillVer = latest /\ running = {}
  BY DEF Init, InitializeMemory
<1>2. active["fetch"] = None
  BY DEF Init, Idle, Lanes
<1> QED BY <1>1, <1>2 DEF Current

\* What a submission may change, and what it may not touch.
\* A submitted action touches nothing that a running task touches.
LEMMA MovesCurrent ==
  ASSUME IInv, Current, NEW kind, Submitting(kind), Fits(TriggerDelta), Submitted,
         spillReady' \subseteq spillReady,
         spillReady \ {Here.alias} \subseteq spillReady',
         Here.alias \in fetchPending => spillReady' = spillReady,
         fetchPending' \cup evictPending' \subseteq fetchPending \cup evictPending \cup {Here.alias}
  PROVE  Current'
<1> DEFINE a == Here.alias
<1>1. /\ cursor \in ActionIds(job) /\ a \in Groups(job) /\ cursor' = cursor + 1
  BY SubmittedFacts
<1>2. UNCHANGED <<job, devVer, spillVer, running, done, active, latest>>
  BY DEF Submitted
<1>3. a = Actions[cursor].alias /\ Actions[cursor].trigger \in done
  BY DEF Here, Submitting, Due
<1>4. cursor \in Nat /\ cursor <= cursor /\ \A i \in ActionIds(job) : cursor + 1 <= i => cursor <= i
  BY JobTasks DEF IInv, Shapes
<1>5. \A t \in running : ~Touches(job, t, a)
  BY <1>1, <1>3, <1>4 DEF Current
<1>6. active["fetch"] # None => Alias(active["fetch"]) \in spillReady'
  <2>1. active["fetch"] # None => Alias(active["fetch"]) \in spillReady /\ Alias(active["fetch"]) \in fetchPending
    BY DEF Current, IInv, FetchLane, Entries
  <2> QED BY <2>1
<1> HIDE DEF a
<1>7. \A t \in running, b \in Groups(job) : Touches(job, t, b) =>
       /\ b \notin fetchPending' \cup evictPending'
       /\ \A i \in ActionIds(job) :
            cursor' <= i /\ Actions[i].alias = b => Actions[i].trigger \notin done
  <2> SUFFICES ASSUME NEW t \in running, NEW b \in Groups(job), Touches(job, t, b)
               PROVE  /\ b \notin fetchPending' \cup evictPending'
                      /\ \A i \in ActionIds(job) :
                           cursor' <= i /\ Actions[i].alias = b => Actions[i].trigger \notin done
    OBVIOUS
  <2>1. b # a
    BY <1>5
  <2> QED BY <1>1, <1>4, <2>1 DEF Current, a
<1>8. (\A b \in spillReady : spillVer[b] = latest[b]) /\ devVer = latest
  BY DEF Current
<1> QED BY <1>2, <1>6, <1>7, <1>8 DEF Current, Alias, Actions

\* _submit_ready_actions.
LEMMA SubmitsCurrent ==
  ASSUME IInv, Current, SubmitRelease \/ SubmitEvict \/ SubmitWriteBack \/ SubmitFetch
  PROVE  Current'
<1> DEFINE a == Here.alias
<1>1. ASSUME NEW kind, Stop(kind) PROVE Current'
  BY <1>1 DEF Stop, Current, aliases, progress, Alias, Actions
<1>2. CASE SubmitRelease /\ ~ \E kind : Stop(kind)
  <2>1. /\ Submitting("release") /\ Fits(TriggerDelta) /\ Submitted /\ ReleaseConflicts = None
        /\ spillReady' = spillReady \ ((spillAlloc \cap {a}) \ job.retain)
        /\ UNCHANGED <<fetchPending, evictPending>>
    BY <1>2 DEF SubmitRelease
  <2>2. a \notin fetchPending
    <3>1. a \in devAlloc \cap devReady
      BY <2>1, NoneAssumption DEF ReleaseConflicts, Reports
    <3> QED BY <2>1, <3>1, NoneAssumption DEF ReleaseConflicts, Reports
  <2> QED BY <2>1, <2>2, MovesCurrent
<1>3. CASE (SubmitEvict \/ SubmitWriteBack) /\ ~ \E kind : Stop(kind)
  <2>1. PICK kind \in {"evict", "writeback"} : Submitting(kind)
    BY <1>3 DEF SubmitEvict, SubmitWriteBack
  <2>2. /\ Fits(TriggerDelta) /\ Submitted /\ ~NoSource /\ fetchPending' = fetchPending
        /\ evictPending' \subseteq evictPending \cup {a}
        /\ spillReady' \subseteq spillReady /\ spillReady \ {a} \subseteq spillReady'
    BY <1>3 DEF SubmitEvict, SubmitWriteBack, ReserveSpill
  <2>3. a \notin fetchPending
    BY <2>2 DEF NoSource, IInv, Pendings
  <2> QED BY <2>1, <2>2, <2>3, MovesCurrent
<1>4. CASE SubmitFetch /\ ~ \E kind : Stop(kind)
  <2>1. /\ Submitting("fetch") /\ Fits(TriggerDelta) /\ Submitted
        /\ fetchPending' = fetchPending \cup {a} /\ UNCHANGED <<spillReady, evictPending>>
    BY <1>4 DEF SubmitFetch
  <2> QED BY <2>1, MovesCurrent
<1> QED BY <1>1, <1>2, <1>3, <1>4

\* A step that moves no copy and no task.
LEMMA QuietCurrent ==
  ASSUME IInv, Current, UNCHANGED <<job, aliases, cursor, running, done, latest>>,
         active'["fetch"] = active["fetch"]
  PROVE  Current'
BY DEF Current, aliases, Alias, Actions

\* _try_start_transfers: a fetch starts from a ready copy.
LEMMA StartsCurrent ==
  ASSUME IInv, Current, TryStartTransfers
  PROVE  Current'
<1>1. UNCHANGED <<job, aliases, cursor, running, done, latest>>
  BY DEF TryStartTransfers
<1>2. CASE active'["fetch"] = active["fetch"]
  BY <1>1, <1>2, QuietCurrent
<1>3. CASE active'["fetch"] # active["fetch"]
  <2>1. Startable("fetch") /\ active'["fetch"] = Head(queue["fetch"])
    BY <1>3, LaneStarts DEF Lanes
  <2>2. Actions[active'["fetch"].action].alias \in spillReady
    BY <2>1 DEF Startable, SourceReady, Act
  <2> QED BY <1>1, <2>2 DEF Current, aliases, Alias, Actions
<1> QED BY <1>2, <1>3

\* _try_launch_tasks: nothing is moving what the task touches, and by OnTime nothing
\* that could is waiting.
LEMMA LaunchCurrent ==
  ASSUME InTurn, IInv, Current, OnTime', pc = "launch", NEW t \in TaskIds(job), CanLaunch(t),
         LaunchTask(t)
  PROVE  Current'
<1> DEFINE outs == job.tasks[t].outputs
<1>1. /\ running' = running \cup {t} /\ spillReady' = spillReady \ outs
      /\ fetchPending' = fetchPending \ outs /\ evictPending' = evictPending \ outs
      /\ UNCHANGED <<job, pc, devVer, spillVer, cursor, done, active, latest>>
  BY DEF LaunchTask
<1>2. t \notin done /\ t \notin running
  BY DEF CanLaunch, Unlaunched
<1>3. /\ outs \cap (fetchPending \cup evictPending \cup wbPending) = {}
      /\ \A e \in Entries("fetch") : Alias(e) \notin outs
  BY <1>2, OutputsUntouched DEF Lanes
<1>4. \A b \in Groups(job) : Touches(job, t, b) => b \notin fetchPending \cup evictPending
  BY <1>3 DEF Touches, CanLaunch, MissingInputs
<1>5. cursor \in Nat /\ \A i \in ActionIds(job) : i < cursor => ~(cursor <= i)
  BY JobTasks DEF IInv, Shapes
<1>6. \A i \in ActionIds(job) :
        Touches(job, t, Actions[i].alias) /\ Actions[i].trigger \in done => i < cursor
  BY <1>1 DEF OnTime, Actions
<1>7. active["fetch"] # None => Alias(active["fetch"]) \in spillReady'
  BY <1>1, <1>3 DEF Current, Entries
<1> HIDE DEF outs
<1>8. \A s \in running', b \in Groups(job) : Touches(job, s, b) =>
       /\ b \notin fetchPending' \cup evictPending'
       /\ \A i \in ActionIds(job) :
            cursor <= i /\ Actions[i].alias = b => Actions[i].trigger \notin done
  BY <1>1, <1>4, <1>5, <1>6 DEF Current
<1> QED BY <1>1, <1>7, <1>8 DEF Current, Alias, Actions

\* _complete_transfer: a copy that was overtaken by a write is not ready.
LEMMA LandsCurrent ==
  ASSUME Releases, IInv, Current, CompleteFetch \/ CompleteEvict
  PROVE  Current'
<1>1. CASE CompleteFetch
  <2> DEFINE x == active["fetch"]
             a == Alias(x)
  <2>1. /\ <<"fetch", 0>> \in due /\ Landed("fetch", 0)
        /\ devVer' = [devVer EXCEPT ![a] = spillVer[a]]
        /\ fetchPending' \subseteq fetchPending /\ spillReady' \subseteq spillReady
        /\ UNCHANGED <<spillVer, evictPending>>
    BY <1>1 DEF CompleteFetch, Act, Alias
  <2>2. UNCHANGED <<job, cursor, running, done, latest>>
    BY <2>1 DEF Landed, loop
  <2>3. x # None /\ active'["fetch"] = None
    BY <2>1, LandedFacts DEF Lanes
  <2>4. a \in spillReady /\ spillVer[a] = latest[a] /\ devVer = latest /\ latest \in [Groups(job) -> Nat]
    BY <2>3 DEF Current, IInv, Shapes
  <2> HIDE DEF a, x
  <2>5. devVer' = latest'
    BY <2>1, <2>2, <2>4
  <2> QED BY <2>1, <2>2, <2>3, <2>5 DEF Current, Actions
<1>2. CASE CompleteEvict
  <2> DEFINE x == active["evict"]
             a == Alias(x)
             d == IF Kind(x) = "evict" /\ a \notin fetchPending THEN -job.size[a] ELSE 0
  <2>1. /\ <<"evict", 0>> \in due /\ Landed("evict", d)
        /\ spillVer' = [spillVer EXCEPT ![a] = x.version]
        /\ spillReady' = (IF devVer[a] = x.version THEN spillReady \cup {a} ELSE spillReady \ {a})
        /\ evictPending' \subseteq evictPending
        /\ UNCHANGED <<devVer, fetchPending>>
    BY <1>2 DEF CompleteEvict, Act, Alias, Kind, StillCurrent, FreesDevice
  <2>2. UNCHANGED <<job, cursor, running, done, latest>>
    BY <2>1 DEF Landed, loop
  <2>3. active'["fetch"] = active["fetch"] /\ x \in Entries("evict")
    <3>1. Landed("evict", d) => active' = [active EXCEPT !["evict"] = None]
      BY DEF Landed
    <3>2. active["evict"] # None
      <4>1. <<"evict", 0>> \in UnderWay
        BY <2>1 DEF IInv, Shapes
      <4>2. PICK m \in Lanes : <<"evict", 0>> = <<m, 0>> /\ active[m] # None
        BY <4>1 DEF UnderWay
      <4> QED BY <4>2
    <3> HIDE DEF d
    <3> QED BY <2>1, <3>1, <3>2 DEF Lanes, IInv, Shapes, Entries
  <2>4. active["fetch"] # None => Alias(active["fetch"]) \in spillReady /\ Alias(active["fetch"]) # a
    BY <2>3 DEF Current, IInv, Crossing
  <2>5. /\ devVer = latest /\ (\A b \in spillReady : spillVer[b] = latest[b])
        /\ spillVer \in [Groups(job) -> Nat] /\ spillReady \subseteq Groups(job) /\ a \in Groups(job)
    BY <2>3 DEF Current, IInv, Shapes, EvictLane
  <2> HIDE DEF a, x, d
  <2>6. \A b \in spillReady' : spillVer'[b] = latest[b]
    BY <2>1, <2>5
  <2>7. active'["fetch"] # None => Alias(active["fetch"]) \in spillReady'
    BY <2>1, <2>3, <2>4
  <2> QED BY <2>1, <2>2, <2>3, <2>5, <2>6, <2>7 DEF Current, Alias, Actions
<1> QED BY <1>1, <1>2

\* _complete_task: what the task wrote is not being fetched, and no action that its
\* end makes due is on something that another running task touches.
LEMMA EndsCurrent ==
  ASSUME Causal, IInv, Current, CompleteTask
  PROVE  Current'
<1> DEFINE t == Min({e[2] : e \in due})
           written == Writes(job.tasks[t])
<1>1. /\ pc = "events" /\ due # {} /\ due \cap {<<l, 0>> : l \in Lanes} = {}
      /\ running' = running \ {t} /\ done' = done \cup {t}
      /\ devVer' = [a \in Groups(job) |-> IF a \in written THEN devVer[a] + 1 ELSE devVer[a]]
      /\ latest' = [a \in Groups(job) |-> IF a \in written THEN latest[a] + 1 ELSE latest[a]]
      /\ spillReady' = spillReady \ written
      /\ UNCHANGED <<job, spillVer, fetchPending, evictPending, wbPending, cursor, active>>
  BY DEF CompleteTask
<1>2. Shapes /\ TasksInOrder /\ job \in Problems
  BY DEF IInv, Shapes
<1>3. t \in running /\ t \in TaskIds(job) /\ t \notin done
  BY <1>1, EarliestEnds
<1> HIDE DEF t
<1>4. written \subseteq Groups(job) /\ \A a \in written : Touches(job, t, a)
  <2>1. job.tasks[t].mutations \subseteq job.tasks[t].inputs
    BY <1>2, <1>3, ProblemsChecked DEF ProgramChecked
  <2> QED BY <1>2, <1>3, <2>1, JobTasks DEF Writes, Touches
<1> HIDE DEF written
<1>5. devVer' = latest'
  BY <1>1 DEF Current
<1>6. \A a \in spillReady' : spillVer'[a] = latest'[a]
  BY <1>1, <1>2 DEF Current, Shapes
<1>7. active["fetch"] # None => Alias(active["fetch"]) \in spillReady'
  <2> SUFFICES ASSUME active["fetch"] # None PROVE Alias(active["fetch"]) \in spillReady'
    OBVIOUS
  <2>1. Alias(active["fetch"]) \in fetchPending /\ Alias(active["fetch"]) \in spillReady
    BY DEF IInv, FetchLane, Entries, Current
  <2>2. Alias(active["fetch"]) \notin written
    BY <1>2, <1>3, <1>4, <2>1 DEF Current, Shapes
  <2> QED BY <1>1, <2>1, <2>2
<1>8. ASSUME NEW s \in running', NEW b \in Groups(job), Touches(job, s, b)
      PROVE  /\ b \notin fetchPending \cup evictPending
             /\ \A i \in ActionIds(job) :
                  cursor <= i /\ Actions[i].alias = b => Actions[i].trigger \notin done'
  <2>1. s \in running /\ s # t /\ s \in TaskIds(job) /\ s \notin done
    BY <1>1, <1>2 DEF TasksInOrder
  <2>2. b \notin fetchPending \cup evictPending
    BY <1>8, <2>1 DEF Current
  <2>3. ASSUME NEW i \in ActionIds(job), cursor <= i, Actions[i].alias = b
        PROVE  Actions[i].trigger \notin done'
    <3>1. Actions[i].trigger \notin done
      BY <1>8, <2>1, <2>3 DEF Current
    <3>2. Actions[i].trigger # t
      <4> SUFFICES ASSUME Actions[i].trigger = t PROVE FALSE
        OBVIOUS
      <4>1. t = s \/ t \in EndsBefore(job, s) \/ s \in EndsBefore(job, t)
        BY <1>2, <1>8, <2>1, <2>3 DEF Causal, CausallyOrdered, Actions
      <4>2. EndsBefore(job, s) \subseteq done /\ EndsBefore(job, t) \subseteq done
        BY <1>2, <1>3, <2>1, EndedBefore
      <4> QED BY <1>3, <2>1, <4>1, <4>2
    <3> QED BY <1>1, <3>1, <3>2
  <2> QED BY <2>2, <2>3
<1> QED BY <1>1, <1>5, <1>6, <1>7, <1>8 DEF Current, Alias, Actions

\* Every step of run() keeps the copies current, if tasks are launched on time.
LEMMA NextCurrent ==
  ASSUME Releases, InTurn, Causal, IInv, Current, OnTime', [Next]_vars
  PROVE  Current'
<1>1. CASE TryStartTransfers
  BY <1>1, StartsCurrent
<1>2. CASE TryLaunchTasks
  <2> DEFINE able == {t \in TaskIds(job) : t >= scan /\ CanLaunch(t)}
  <2>1. CASE able # {} /\ LaunchTask(Min(able))
    <3>1. PICK m \in TaskIds(job) : CanLaunch(m) /\ LaunchTask(m)
      BY <2>1, NextAble
    <3>2. pc = "launch"
      BY <1>2 DEF TryLaunchTasks
    <3> QED BY <3>1, <3>2, LaunchCurrent
  <2>2. CASE ~(able # {} /\ LaunchTask(Min(able)))
    <3>1. UNCHANGED <<job, scan, changed, aliases, progress, bytes, outcome, latest>>
      BY <1>2, <2>2 DEF TryLaunchTasks
    <3> QED BY <3>1, QuietCurrent DEF progress
  <2> QED BY <2>1, <2>2
<1>3. CASE SubmitRelease \/ SubmitEvict \/ SubmitWriteBack \/ SubmitFetch
  BY <1>3, SubmitsCurrent
<1>4. CASE SubmitDone \/ AdvanceTime \/ EventsDone
  <2>1. UNCHANGED <<job, aliases, cursor, running, done, latest, active>>
    BY <1>4 DEF SubmitDone, AdvanceTime, EventsDone, progress
  <2> QED BY <2>1, QuietCurrent
<1>5. CASE CompleteFetch \/ CompleteEvict
  BY <1>5, LandsCurrent
<1>6. CASE CompleteTask
  BY <1>6, EndsCurrent
<1>7. CASE Deadlock \/ CheckFinalResidency \/ Halted \/ UNCHANGED vars
  <2>1. UNCHANGED <<job, aliases, cursor, running, done, latest, active>>
    BY <1>7 DEF Deadlock, CheckFinalResidency, Stop, Halted, progress, vars, loop
  <2> QED BY <2>1, QuietCurrent
<1> QED BY <1>1, <1>2, <1>3, <1>4, <1>5, <1>6, <1>7 DEF Next, Step

\* When tasks are launched on time, every ready copy is the latest version and nothing
\* moves what a running task touches.
THEOREM CopiesCurrent ==
  ASSUME Releases, InTurn, Causal
  PROVE  Spec /\ []OnTime => []Current
<1>1. Init => Current
  BY InitCurrent
<1>2. IInv /\ Current /\ OnTime' /\ [Next]_vars => Current'
  BY NextCurrent
<1> QED BY <1>1, <1>2, Invariance, PTL DEF Spec

(***************************************************************************)
(* The contract.                                                           *)
(***************************************************************************)

\* The readable copies, as the contract sees them.
Device == [a \in Groups(job) |-> IF a \in devReady THEN devVer[a] ELSE None]
Spill == [a \in Groups(job) |-> IF a \in spillReady THEN spillVer[a] ELSE None]

\* The start is one of the contract's.
LEMMA InitContract ==
  ASSUME Init
  PROVE  Contract!Init
<1>1. /\ running = {} /\ done = {} /\ latest = [a \in Groups(job) |-> 0]
      /\ devVer = latest /\ spillVer = latest
  BY DEF Init, InitializeMemory
<1>2. outcome # "completed"
  BY NoneAssumption DEF Init, InitializeMemory, Reports
<1> QED BY <1>1, <1>2 DEF Contract!Init, Contract!Copies

\* The copies of one group move and nothing else does.
LEMMA MovesOne ==
  ASSUME NEW a \in Groups(job), latest \in [Groups(job) -> Nat],
         UNCHANGED <<job, running, done, latest, outcome>>,
         Device'[a] \in {Device[a], Spill[a], None},
         Spill'[a] \in {Spill[a], Device[a], None},
         \A b \in Groups(job) \ {a} : Device'[b] = Device[b] /\ Spill'[b] = Spill[b]
  PROVE  Contract!Next
<1>1. Contract!Copies = Groups(job)
  BY DEF Contract!Copies
<1>2. Contract!Transfer(a)
  BY <1>1 DEF Contract!Transfer, Device, Spill
<1> QED BY <1>1, <1>2 DEF Contract!Next

\* A step that moves no copy and no task is none of the contract's.
LEMMA MovesNone ==
  ASSUME UNCHANGED <<job, running \cup done, done, latest, devReady, devVer, spillReady, spillVer>>,
         (outcome' = "completed") = (outcome = "completed")
  PROVE  UNCHANGED Contract!vars
BY DEF Contract!vars

\* A report of something infeasible is none of the contract's steps.
LEMMA StopContract ==
  ASSUME NEW kind, kind # "completed", outcome # "completed", Stop(kind)
  PROVE  UNCHANGED Contract!vars
BY MovesNone DEF Stop, aliases, progress

\* A launch is Begin.
LEMMA LaunchContract ==
  ASSUME InTurn, IInv, Current, NEW t \in TaskIds(job), CanLaunch(t), LaunchTask(t)
  PROVE  Contract!Next
<1> DEFINE outs == job.tasks[t].outputs
           ins == job.tasks[t].inputs
<1>1. /\ running' = running \cup {t} /\ spillReady' = spillReady \ outs
      /\ devReady' = devReady \ outs
      /\ UNCHANGED <<job, devVer, spillVer, done, latest, outcome>>
  BY DEF LaunchTask
<1>2. t \notin running \cup done /\ ins \subseteq devReady
  BY DEF CanLaunch, Unlaunched, MissingInputs
<1>3. ins \subseteq Groups(job) /\ latest \in [Groups(job) -> Nat] /\ devVer = latest
  BY JobTasks DEF IInv, Shapes, Current
<1>4. Contract!Copies = Groups(job)
  BY <1>3 DEF Contract!Copies
<1>5. \A a \in ins : Device[a] = latest[a]
  BY <1>2, <1>3 DEF Device
<1>6. \A a \in Groups(job) : IF a \in outs THEN Device'[a] = None /\ Spill'[a] = None
                             ELSE Device'[a] = Device[a] /\ Spill'[a] = Spill[a]
  BY <1>1 DEF Device, Spill
<1>7. (running \cup done)' = (running \cup done) \cup {t}
  BY <1>1
<1>8. Contract!Begin(t)
  BY <1>1, <1>2, <1>4, <1>5, <1>6, <1>7 DEF Contract!Begin, Contract!Current, Device, Spill
<1> QED BY <1>8 DEF Contract!Next, TaskIds

\* A submitted action is a Transfer that can only drop copies.
LEMMA SubmitsContract ==
  ASSUME IInv, Current, NEW kind, Submitting(kind), Fits(TriggerDelta), Submitted,
         devReady' \in {devReady, devReady \ {Here.alias}},
         spillReady' \in {spillReady, spillReady \ {Here.alias}}
  PROVE  Contract!Next
<1> DEFINE a == Here.alias
<1>1. a \in Groups(job) /\ latest \in [Groups(job) -> Nat]
  BY SubmittedFacts DEF IInv, Shapes
<1>2. UNCHANGED <<job, devVer, spillVer, running, done, latest, outcome>>
  BY DEF Submitted
<1> HIDE DEF a
<1>3. /\ Device'[a] \in {Device[a], Spill[a], None} /\ Spill'[a] \in {Spill[a], Device[a], None}
      /\ \A b \in Groups(job) \ {a} : Device'[b] = Device[b] /\ Spill'[b] = Spill[b]
  BY <1>1, <1>2 DEF Device, Spill, a
<1> QED BY <1>1, <1>2, <1>3, MovesOne

\* _submit_ready_actions.
LEMMA ActionsContract ==
  ASSUME IInv, Current, SubmitRelease \/ SubmitEvict \/ SubmitWriteBack \/ SubmitFetch
  PROVE  Contract!Next \/ UNCHANGED Contract!vars
<1> DEFINE kinds == {ReleaseConflicts, "invalid-evict", "invalid-write-back", "invalid-fetch"}
<1>1. outcome # "completed" /\ pc # "stopped"
  BY DEF IInv, TasksInOrder, SubmitRelease, SubmitEvict, SubmitWriteBack, SubmitFetch, Submitting
<1>2. CASE \E kind \in kinds : Stop(kind)
  <2>1. ReleaseConflicts # "completed"
    BY NoneAssumption DEF ReleaseConflicts, Reports
  <2> QED BY <1>1, <1>2, <2>1, StopContract
<1>3. CASE /\ SubmitRelease
           /\ ~ \E kind \in kinds : Stop(kind)
  <2>1. /\ Submitting("release") /\ Fits(TriggerDelta) /\ Submitted
        /\ devReady' = devReady \ {Here.alias}
        /\ spillReady' = spillReady \ ((spillAlloc \cap {Here.alias}) \ job.retain)
    BY <1>3 DEF SubmitRelease
  <2>2. spillReady' \in {spillReady, spillReady \ {Here.alias}}
    BY <2>1
  <2> QED BY <2>1, <2>2, SubmitsContract
<1>4. CASE /\ SubmitEvict \/ SubmitWriteBack
           /\ ~ \E kind \in kinds : Stop(kind)
  <2>1. PICK kind \in {"evict", "writeback"} : Submitting(kind)
    BY <1>4 DEF SubmitEvict, SubmitWriteBack
  <2>2. /\ Fits(TriggerDelta) /\ Submitted /\ devReady' = devReady
        /\ spillReady' \in {spillReady, spillReady \ {Here.alias}}
    BY <1>4 DEF SubmitEvict, SubmitWriteBack, ReserveSpill
  <2> QED BY <2>1, <2>2, SubmitsContract
<1>5. CASE /\ SubmitFetch
           /\ ~ \E kind \in kinds : Stop(kind)
  <2>1. /\ Submitting("fetch") /\ Fits(TriggerDelta) /\ Submitted
        /\ devReady' \in {devReady, devReady \ {Here.alias}} /\ spillReady' = spillReady
    BY <1>5 DEF SubmitFetch
  <2> QED BY <2>1, SubmitsContract
<1> QED BY <1>2, <1>3, <1>4, <1>5

\* A landing copy is a Transfer from the other side.
LEMMA LandsContract ==
  ASSUME Releases, IInv, Current, CompleteFetch \/ CompleteEvict
  PROVE  Contract!Next
<1>1. CASE CompleteFetch
  <2> DEFINE x == active["fetch"]
             a == Alias(x)
  <2>1. /\ <<"fetch", 0>> \in due /\ Landed("fetch", 0)
        /\ devReady' = devReady \cup {a} /\ devVer' = [devVer EXCEPT ![a] = spillVer[a]]
        /\ spillReady' = spillReady \ DroppedSpill(a)
        /\ UNCHANGED spillVer
    BY <1>1 DEF CompleteFetch, Act, Alias
  <2>2. UNCHANGED <<job, running, done, latest, outcome>>
    BY <2>1 DEF Landed, loop
  <2>3. x # None
    BY <2>1, LandedFacts DEF Lanes
  <2>4. a \in spillReady /\ a \in Groups(job) /\ devVer \in [Groups(job) -> Nat]
        /\ latest \in [Groups(job) -> Nat]
    BY <2>3 DEF Current, IInv, Shapes
  <2>5. DroppedSpill(a) \subseteq {a}
    BY DEF DroppedSpill
  <2> HIDE DEF a, x
  <2>6. Device'[a] = Spill[a]
    BY <2>1, <2>2, <2>4 DEF Device, Spill
  <2>7. Spill'[a] \in {Spill[a], None}
    BY <2>1, <2>2, <2>4 DEF Spill
  <2>8. \A b \in Groups(job) \ {a} : Device'[b] = Device[b] /\ Spill'[b] = Spill[b]
    BY <2>1, <2>2, <2>4, <2>5 DEF Device, Spill
  <2> QED BY <2>2, <2>4, <2>6, <2>7, <2>8, MovesOne
<1>2. CASE CompleteEvict
  <2> DEFINE x == active["evict"]
             a == Alias(x)
             d == IF Kind(x) = "evict" /\ a \notin fetchPending THEN -job.size[a] ELSE 0
  <2>1. /\ <<"evict", 0>> \in due /\ Landed("evict", d)
        /\ spillVer' = [spillVer EXCEPT ![a] = x.version]
        /\ spillReady' = (IF devVer[a] = x.version THEN spillReady \cup {a} ELSE spillReady \ {a})
        /\ devReady' \in {devReady, devReady \ {a}}
        /\ UNCHANGED devVer
    BY <1>2 DEF CompleteEvict, Act, Alias, Kind, StillCurrent, FreesDevice
  <2>2. UNCHANGED <<job, running, done, latest, outcome>>
    BY <2>1 DEF Landed, loop
  <2>3. x \in Entries("evict")
    <3>1. active["evict"] # None
      <4>1. <<"evict", 0>> \in UnderWay
        BY <2>1 DEF IInv, Shapes
      <4>2. PICK m \in Lanes : <<"evict", 0>> = <<m, 0>> /\ active[m] # None
        BY <4>1 DEF UnderWay
      <4> QED BY <4>2
    <3> QED BY <3>1 DEF Entries
  <2>4. a \in devReady /\ a \in Groups(job) /\ spillVer \in [Groups(job) -> Nat]
        /\ latest \in [Groups(job) -> Nat]
    BY <2>3 DEF IInv, EvictLane, Shapes
  <2> HIDE DEF a, x, d
  <2>5. Spill'[a] \in {Device[a], None}
    BY <2>1, <2>2, <2>4 DEF Device, Spill
  <2>6. Device'[a] \in {Device[a], None}
    BY <2>1, <2>2, <2>4 DEF Device
  <2>7. \A b \in Groups(job) \ {a} : Device'[b] = Device[b] /\ Spill'[b] = Spill[b]
    BY <2>1, <2>2, <2>4 DEF Device, Spill
  <2> QED BY <2>2, <2>4, <2>5, <2>6, <2>7, MovesOne
<1> QED BY <1>1, <1>2

\* The end of a task is Finish.
LEMMA EndsContract ==
  ASSUME IInv, Current, CompleteTask
  PROVE  Contract!Next
<1> DEFINE t == Min({e[2] : e \in due})
           written == Writes(job.tasks[t])
<1>1. /\ pc = "events" /\ due # {} /\ due \cap {<<l, 0>> : l \in Lanes} = {}
      /\ running' = running \ {t} /\ done' = done \cup {t}
      /\ devReady' = devReady \cup job.tasks[t].outputs
      /\ devVer' = [a \in Groups(job) |-> IF a \in written THEN devVer[a] + 1 ELSE devVer[a]]
      /\ latest' = [a \in Groups(job) |-> IF a \in written THEN latest[a] + 1 ELSE latest[a]]
      /\ spillReady' = spillReady \ written
      /\ UNCHANGED <<job, spillVer, outcome>>
  BY DEF CompleteTask
<1>2. t \in running /\ t \in TaskIds(job) /\ t \notin done
  BY <1>1, EarliestEnds
<1> HIDE DEF t
<1>3. latest \in [Groups(job) -> Nat] /\ devVer = latest
  BY DEF IInv, Shapes, Current
<1>4. Contract!Copies = Groups(job)
  BY <1>3 DEF Contract!Copies
<1>5. (running \cup done)' = running \cup done
  BY <1>1, <1>2
<1>6. job.tasks[t].outputs \cup job.tasks[t].mutations = written
  BY DEF Writes
<1> DEFINE n == [a \in Groups(job) |-> latest[a] + 1]
<1>7. latest' = [a \in Groups(job) |-> IF a \in written THEN n[a] ELSE latest[a]]
  <2> HIDE DEF written
  <2>1. \A a \in Groups(job) : n[a] = latest[a] + 1
    OBVIOUS
  <2> HIDE DEF n
  <2> QED BY <1>1, <2>1
<1>8. \A a \in Groups(job) :
        IF a \in written THEN Device'[a] \in {None, latest'[a]} /\ Spill'[a] = None
        ELSE Device'[a] = Device[a] /\ Spill'[a] = Spill[a]
  <2>1. job.tasks[t].outputs \subseteq written
    BY <1>6
  <2> HIDE DEF written
  <2> QED BY <1>1, <1>3, <2>1 DEF Device, Spill
<1>9. n = [a \in Contract!Copies |-> latest[a] + 1]
  BY <1>4
<1> HIDE DEF n, written
<1>10. Contract!Finish(t, [a \in Contract!Copies |-> latest[a] + 1])
  BY <1>1, <1>2, <1>4, <1>5, <1>6, <1>7, <1>8, <1>9 DEF Contract!Finish, Device, Spill
<1>11. t \in DOMAIN job.tasks
  BY <1>2 DEF TaskIds
<1> QED BY <1>10, <1>11 DEF Contract!Next

\* _check_final_residency is Complete, when it completes.
LEMMA FinalContract ==
  ASSUME IInv, Current, CheckFinalResidency
  PROVE  Contract!Next \/ UNCHANGED Contract!vars
<1>1. outcome # "completed" /\ done = TaskIds(job) /\ job \in Problems
  BY DEF IInv, TasksInOrder, Shapes, CheckFinalResidency
<1>2. CASE job.finalDev \subseteq devReady /\ job.finalSpill \subseteq spillReady
  <2>1. outcome' = "completed" /\ UNCHANGED <<job, running, done, latest, devReady, devVer, spillReady, spillVer>>
    BY <1>2 DEF CheckFinalResidency, Stop, aliases, progress
  <2>2. \A a \in job.finalDev : Device[a] = latest[a]
    BY <1>1, <1>2, JobFacts DEF Device, Current
  <2>3. \A a \in job.finalSpill : Spill[a] = latest[a]
    BY <1>1, <1>2, JobFacts DEF Spill, Current
  <2>4. Contract!Complete
    BY <1>1, <2>1, <2>2, <2>3 DEF Contract!Complete, Contract!Current, Device, Spill, TaskIds
  <2> QED BY <2>4 DEF Contract!Next
<1>3. CASE ~(job.finalDev \subseteq devReady /\ job.finalSpill \subseteq spillReady)
  BY <1>1, <1>3, StopContract DEF CheckFinalResidency
<1> QED BY <1>2, <1>3

\* Every step is one of the contract's or none.
LEMMA NextContract ==
  ASSUME Releases, InTurn, IInv, Current, [Next]_vars
  PROVE  [Contract!Next]_Contract!vars
<1>1. CASE TryStartTransfers \/ SubmitDone \/ AdvanceTime \/ EventsDone \/ Halted \/ UNCHANGED vars
  <2>1. UNCHANGED <<job, running \cup done, done, latest, devReady, devVer, spillReady, spillVer, outcome>>
    BY <1>1 DEF TryStartTransfers, SubmitDone, AdvanceTime, EventsDone, Halted, vars, loop,
                aliases, progress
  <2> QED BY <2>1, MovesNone
<1>2. CASE TryLaunchTasks
  <2> DEFINE able == {t \in TaskIds(job) : t >= scan /\ CanLaunch(t)}
  <2>1. CASE able # {} /\ LaunchTask(Min(able))
    <3>1. PICK m \in TaskIds(job) : CanLaunch(m) /\ LaunchTask(m)
      BY <2>1, NextAble
    <3> QED BY <3>1, LaunchContract
  <2>2. CASE ~(able # {} /\ LaunchTask(Min(able)))
    <3>1. UNCHANGED <<job, running \cup done, done, latest, devReady, devVer, spillReady, spillVer, outcome>>
      BY <1>2, <2>2 DEF TryLaunchTasks, aliases, progress
    <3> QED BY <3>1, MovesNone
  <2> QED BY <2>1, <2>2
<1>3. CASE SubmitRelease \/ SubmitEvict \/ SubmitWriteBack \/ SubmitFetch
  BY <1>3, ActionsContract
<1>4. CASE CompleteFetch \/ CompleteEvict
  BY <1>4, LandsContract
<1>5. CASE CompleteTask
  BY <1>5, EndsContract
<1>6. CASE CheckFinalResidency
  BY <1>6, FinalContract
<1>7. CASE Deadlock
  <2>1. outcome # "completed" /\ DeadlockKind # "completed"
    BY <1>7 DEF IInv, TasksInOrder, Deadlock, DeadlockKind
  <2> QED BY <1>7, <2>1, StopContract DEF Deadlock
<1> QED BY <1>1, <1>2, <1>3, <1>4, <1>5, <1>6, <1>7 DEF Next, Step

\* The simulator implements the contract of simulation.md on every replay in which no
\* task is launched past a waiting action on what it touches.
THEOREM SimulatorKeepsContract ==
  ASSUME Releases, InTurn, Causal
  PROVE  Spec /\ []OnTime => KeepsContract
<1>1. Init => Contract!Init
  BY InitContract
<1>2. IInv /\ Current /\ [Next]_vars => [Contract!Next]_Contract!vars
  BY NextContract
<1> QED BY <1>1, <1>2, Invariance, CopiesCurrent, PTL DEF Spec, KeepsContract, Contract!Spec

\* On such a replay a ready device copy always is the latest version (a fetch, which sets
\* device_version to spill_version, never brings back an old one).
THEOREM SimulatorDeviceCopyCurrent ==
  ASSUME Releases, InTurn, Causal
  PROVE  Spec /\ []OnTime => []DeviceCopyCurrent
<1>1. Current => DeviceCopyCurrent
  BY DEF Current, DeviceCopyCurrent
<1> QED BY <1>1, CopiesCurrent, PTL

(***************************************************************************)
(* The replay into leases.  Its loops run over sequences ("step", "free",  *)
(* "action", "task") and over sets; each is a fold whose table of results  *)
(* exists, so what one round keeps the loop keeps.                         *)
(***************************************************************************)

\* A lease: what it holds, when it begins and what ends it.
Purposes == {"initial", "workspace", "output", "replacement", "fetch"}
Enders(p) == {None} \cup ({"task"} \X TaskIds(p)) \cup ({"action"} \X ActionIds(p))
LeaseFields(p) ==
  [bytes : Nat \ {0}, purpose : Purposes, task : TaskIds(p) \cup {None},
   alias : Groups(p) \cup {None}, action : ActionIds(p) \cup {None},
   start : Nat, end : Nat \cup {None}, by : Enders(p)]
LeaseOf(p) == {x \in LeaseFields(p) : x.purpose # "initial" => x.task \in TaskIds(p)}

\* The replay's state, of which placement relies on the leases.
ReplayShaped(p, r) ==
  r \in [ops : Nat, leases : Seq(LeaseOf(p)), active : {r.active}, reads : {r.reads},
         sources : {r.sources}, slots : {r.slots}, freed : {r.freed}, ok : {r.ok}]

\* One round of each loop; l says which loop, of what problem and task, over what
\* sequence and from where.
ReplayRound(l, x, r) ==
  LET p == l.p
      t == l.t
      q == l.q
      kind == l.kind
  IN
  CASE kind = "step" -> AllocationStep(p, t, r, q[x])
    [] kind = "free" -> Retire(r, q[x], <<"task", t>>)
    [] kind = "action" -> ReplayAction(p, r, q[x])
    [] kind = "task" -> (IF r.ok THEN ReplayTask(p, r, q[x]) ELSE r)
    [] kind = "initial" ->
         (LET g == Acquire(r, p.size[x], "initial", None, x, None)
          IN  Activate(g, x, Len(g.leases)))
    [] kind = "handoff" ->
         (IF x.from \notin DOMAIN r.active \/ x.to \in DOMAIN r.active
          THEN [r EXCEPT !.ok = FALSE]
          ELSE Deactivate(Activate(r, x.to, r.active[x.from]), x.from))
    [] kind = "replace" ->
         Activate(Retire(r, r.active[x], <<"task", t>>), x, OutputLease(p, t, r, x))
    [] kind = "output" ->
         (IF x \in DOMAIN r.active THEN [r EXCEPT !.ok = FALSE]
          ELSE Activate(r, x, OutputLease(p, t, r, x)))

NextOf(l, s) == IF l.kind \in {"step", "free", "action", "task"} THEN Max(s) ELSE Pick(s)

\* f is the table of a loop's results, for the part of S already met.
Looped(l, S, f) ==
  f = [s \in SUBSET S |->
         IF s = {} THEN l.base
         ELSE ReplayRound(l, NextOf(l, s), f[s \ {NextOf(l, s)}])]
Loopable(l, S) ==
  IsFiniteSet(S) /\ \A s \in SUBSET S : s # {} => NextOf(l, s) \in s

\* Two tables agree wherever both are defined.
LEMMA LoopUnique ==
  ASSUME NEW l, NEW S, Loopable(l, S),
         NEW T, T \subseteq S, NEW U, U \subseteq T, NEW g, NEW h,
         Looped(l, T, g), Looped(l, U, h)
  PROVE  \A s \in SUBSET U : g[s] = h[s]
<1> DEFINE B == {s \in SUBSET U : g[s] # h[s]}
           Round(x, r) == ReplayRound(l, x, r)
<1> SUFFICES ASSUME B # {} PROVE FALSE
  OBVIOUS
<1>1. IsFiniteSet(U)
  BY FS_Subset DEF Loopable
<1>2. PICK s \in B : \A y \in B : y \subseteq s => y = s
  <2> HIDE DEF B
  <2>1. B \subseteq SUBSET U
    BY DEF B
  <2> QED BY <1>1, <2>1, MinimalSubset
<1>3. s # {} /\ s \in SUBSET T /\ s \in SUBSET U /\ s \in SUBSET S
  BY DEF Looped
<1> DEFINE x == NextOf(l, s)
           y == s \ {x}
<1>4. x \in s
  BY <1>3 DEF Loopable
<1>5. y \notin B
  BY <1>2, <1>4
<1>6. g[y] = h[y]
  BY <1>5
<1>7. g[s] = Round(x, g[y]) /\ h[s] = Round(x, h[y])
  <2> HIDE DEF B
  <2> QED BY <1>3 DEF Looped
<1> HIDE DEF Round, x, y
<1> QED BY <1>2, <1>6, <1>7

\* Every loop has a table.
LEMMA LoopExists ==
  ASSUME NEW l, NEW S, Loopable(l, S)
  PROVE  \E g : Looped(l, S, g)
<1> DEFINE Is(T, g) == Looped(l, T, g)
           B == {T \in SUBSET S : ~ \E g : Is(T, g)}
<1> SUFFICES ASSUME B # {} PROVE FALSE
  OBVIOUS
<1>1. PICK T \in B : \A y \in B : y \subseteq T => y = T
  <2>1. B \subseteq SUBSET S
    OBVIOUS
  <2> HIDE DEF B
  <2> QED BY <2>1, MinimalSubset DEF Loopable
<1> DEFINE G(s) == CHOOSE g : Is(s, g)
           Round(x, r) == ReplayRound(l, x, r)
           X(s) == NextOf(l, s)
           F(s) == IF s = {} THEN l.base ELSE Round(X(s), G(s \ {X(s)})[s \ {X(s)}])
           f == [s \in SUBSET T |-> F(s)]
<1>2. T \in SUBSET S
  OBVIOUS
<1>3. \A s \in SUBSET T : s # T => Is(s, G(s))
  <2> SUFFICES ASSUME NEW s \in SUBSET T, s # T PROVE Is(s, G(s))
    OBVIOUS
  <2>1. \E g : Is(s, g)
    BY <1>1
  <2> HIDE DEF Is
  <2> QED BY <2>1
<1>4. \A s \in SUBSET T : s # {} => X(s) \in s
  BY <1>2 DEF Loopable
<1>5. ASSUME NEW T_ \in SUBSET S, NEW g, Is(T_, g), NEW s \in SUBSET T_
      PROVE  g[s] = IF s = {} THEN l.base ELSE Round(X(s), g[s \ {X(s)}])
  BY <1>5 DEF Looped
<1>6. ASSUME NEW u \in SUBSET T, u # T PROVE F(u) = G(u)[u]
  <2>1. Is(u, G(u)) /\ u \in SUBSET S
    BY <1>2, <1>3, <1>6
  <2>2. CASE u = {}
    <3> HIDE DEF G, Is
    <3>1. G(u)[u] = l.base
      BY <1>5, <2>1, <2>2
    <3> QED BY <2>2, <3>1
  <2>3. CASE u # {}
    <3> DEFINE v == u \ {X(u)}
    <3>1. X(u) \in u
      BY <1>4, <2>3
    <3>2. Is(v, G(v)) /\ v \in SUBSET u
      BY <1>3, <1>6, <3>1
    <3>3. \A w \in SUBSET v : G(u)[w] = G(v)[w]
      <4> HIDE DEF G, v
      <4> QED BY <2>1, <3>2, LoopUnique
    <3>4. G(u)[u] = Round(X(u), G(u)[v])
      <4> DEFINE g == G(u)
      <4>1. Looped(l, u, g)
        BY <2>1
      <4> HIDE DEF g
      <4>2. g[u] = Round(X(u), g[u \ {X(u)}])
        BY <2>3, <4>1 DEF Looped
      <4> QED BY <4>2 DEF g
    <3> HIDE DEF G, X
    <3>5. G(u)[v] = G(v)[v]
      BY <3>3
    <3> HIDE DEF Is
    <3> HIDE DEF Round
    <3> QED BY <2>3, <3>4, <3>5
  <2> QED BY <2>2, <2>3
<1>7. ASSUME NEW s \in SUBSET T
      PROVE  F(s) = IF s = {} THEN l.base ELSE Round(X(s), f[s \ {X(s)}])
  <2>1. CASE s = {}
    BY <2>1
  <2>2. CASE s # {}
    <3> DEFINE u == s \ {X(s)}
    <3>1. X(s) \in s
      BY <1>4, <2>2
    <3>2. u \in SUBSET T /\ u # T
      BY <1>7, <3>1
    <3>3. F(u) = G(u)[u]
      BY <1>6, <3>2
    <3>4. f[u] = F(u)
      BY <3>2
    <3> HIDE DEF G, Round, X
    <3> QED BY <2>2, <3>3, <3>4
  <2> QED BY <2>1, <2>2
<1>8. Is(T, f)
  <2> HIDE DEF F
  <2> QED BY <1>7 DEF Looped
<1> QED
  <2> HIDE DEF F, f, Is
  <2> QED BY <1>1, <1>8

\* What every round keeps the loop keeps.
LEMMA LoopKeeps ==
  ASSUME NEW p, NEW l, NEW S, Loopable(l, S),
         NEW f, Looped(l, S, f), ReplayShaped(p, l.base),
         \A x \in S : \A r : ReplayShaped(p, r) => ReplayShaped(p, ReplayRound(l, x, r))
  PROVE  ReplayShaped(p, f[S])
<1> DEFINE B == {s \in SUBSET S : ~ReplayShaped(p, f[s])}
<1> SUFFICES ASSUME B # {} PROVE FALSE
  OBVIOUS
<1>1. PICK s \in B : \A y \in B : y \subseteq s => y = s
  <2>1. B \subseteq SUBSET S
    OBVIOUS
  <2> HIDE DEF B
  <2> QED BY <2>1, MinimalSubset DEF Loopable
<1> DEFINE x == NextOf(l, s)
           y == s \ {x}
<1>2. s \in SUBSET S /\ ~ReplayShaped(p, f[s])
  OBVIOUS
<1>3. s # {}
  <2>1. f[{}] = l.base
    BY DEF Looped
  <2> QED BY <1>2, <2>1
<1>4. x \in s
  BY <1>2, <1>3 DEF Loopable
<1>5. ReplayShaped(p, f[y])
  <2>1. y \notin B
    BY <1>1, <1>4
  <2> QED BY <1>2, <2>1
<1>6. f[s] = ReplayRound(l, x, f[y])
  <2> HIDE DEF B
  <2> QED BY <1>2, <1>3 DEF Looped
<1> HIDE DEF x, y, B
<1> QED BY <1>2, <1>4, <1>5, <1>6

\* Which loops end: those over finite sets, and those over sequences.
LEMMA SetLoops ==
  ASSUME NEW l, l.kind \notin {"step", "free", "action", "task"}, NEW S, IsFiniteSet(S)
  PROVE  Loopable(l, S)
BY PickIn DEF Loopable, NextOf

LEMMA SequenceLoops ==
  ASSUME NEW l, l.kind \in {"step", "free", "action", "task"}, NEW n \in Nat
  PROVE  Loopable(l, 1 .. n)
<1>1. IsFiniteSet(1 .. n)
  BY FS_Interval
<1>2. \A s \in SUBSET (1 .. n) : s # {} => Max(s) \in s
  BY LastIn
<1> QED BY <1>1, <1>2 DEF Loopable, NextOf

\* Rounds that change no lease but one, or add one.
LEMMA LeaseEdited ==
  ASSUME NEW p, NEW L \in Seq(LeaseOf(p)), NEW k, NEW e, k \in DOMAIN L => e \in LeaseOf(p)
  PROVE  [L EXCEPT ![k] = e] \in Seq(LeaseOf(p))
<1>1. Len(L) \in Nat /\ DOMAIN L = 1 .. Len(L) /\ L \in [1 .. Len(L) -> LeaseOf(p)]
  OBVIOUS
<1> DEFINE n == Len(L)
           S == LeaseOf(p)
<1>2. [L EXCEPT ![k] = e] \in [1 .. n -> S]
  <2> HIDE DEF S, n
  <2> QED BY <1>1 DEF S, n
<1> QED BY <1>1, <1>2

\* A replay whose leases and count of operations change stays one.
LEMMA ReplayEdited ==
  ASSUME NEW p, NEW r, ReplayShaped(p, r), NEW n \in Nat, NEW L \in Seq(LeaseOf(p)),
         NEW q, q = [r EXCEPT !.ops = n, !.leases = L]
  PROVE  ReplayShaped(p, q)
<1> DEFINE S == Seq(LeaseOf(p))
<1>1. r \in [ops : Nat, leases : S, active : {r.active}, reads : {r.reads},
             sources : {r.sources}, slots : {r.slots}, freed : {r.freed}, ok : {r.ok}]
  BY DEF ReplayShaped
<1>2. L \in S
  OBVIOUS
<1> HIDE DEF S
<1>3. /\ q.leases = L /\ q.ops = n /\ q.active = r.active /\ q.reads = r.reads
      /\ q.sources = r.sources /\ q.slots = r.slots /\ q.freed = r.freed /\ q.ok = r.ok
  BY <1>1
<1>4. q \in [ops : Nat, leases : S, active : {r.active}, reads : {r.reads},
             sources : {r.sources}, slots : {r.slots}, freed : {r.freed}, ok : {r.ok}]
  BY <1>1, <1>2
<1>5. q \in [ops : Nat, leases : S, active : {q.active}, reads : {q.reads},
             sources : {q.sources}, slots : {q.slots}, freed : {q.freed}, ok : {q.ok}]
  BY <1>3, <1>4
<1> QED BY <1>3, <1>5 DEF ReplayShaped, S

LEMMA RetireShaped ==
  ASSUME NEW p, NEW r, ReplayShaped(p, r), NEW lease, NEW by \in Enders(p)
  PROVE  ReplayShaped(p, Retire(r, lease, by))
<1> DEFINE e == [r.leases[lease] EXCEPT !.end = r.ops + 1, !.by = by]
           q == Retire(r, lease, by)
<1>1. r.ops \in Nat /\ r.leases \in Seq(LeaseOf(p))
  BY DEF ReplayShaped
<1>2. lease \in DOMAIN r.leases => e \in LeaseOf(p)
  <2> SUFFICES ASSUME lease \in DOMAIN r.leases PROVE e \in LeaseOf(p)
    OBVIOUS
  <2> DEFINE x == r.leases[lease]
             n == r.ops + 1
  <2>1. x \in LeaseOf(p) /\ n \in Nat \cup {None}
    BY <1>1
  <2> HIDE DEF x, n
  <2>2. [x EXCEPT !.end = n, !.by = by] \in LeaseFields(p)
    BY <2>1 DEF LeaseOf, LeaseFields
  <2>3. /\ [x EXCEPT !.end = n, !.by = by].purpose = x.purpose
        /\ [x EXCEPT !.end = n, !.by = by].task = x.task
    BY <2>1 DEF LeaseOf, LeaseFields
  <2> QED BY <2>1, <2>2, <2>3 DEF LeaseOf, x, n
<1>3. [r.leases EXCEPT ![lease] = e] \in Seq(LeaseOf(p))
  <2> HIDE DEF e
  <2> QED BY <1>1, <1>2, LeaseEdited
<1>4. q = [r EXCEPT !.ops = r.ops + 1, !.leases = [r.leases EXCEPT ![lease] = e]]
  <2>1. [[r.leases EXCEPT ![lease].end = r.ops + 1] EXCEPT ![lease].by = by]
          = [r.leases EXCEPT ![lease] = e]
    BY <1>1
  <2> QED BY <2>1 DEF Retire, ReplayShaped
<1> HIDE DEF e
<1> DEFINE n == r.ops + 1
           L == [r.leases EXCEPT ![lease] = e]
<1>5. n \in Nat /\ L \in Seq(LeaseOf(p)) /\ q = [r EXCEPT !.ops = n, !.leases = L]
  BY <1>1, <1>3, <1>4
<1> HIDE DEF n, L, q
<1>6. ReplayShaped(p, q)
  BY <1>5, ReplayEdited
<1> QED BY <1>6 DEF q

LEMMA AcquireShaped ==
  ASSUME NEW p, NEW r, ReplayShaped(p, r), NEW bytes_ \in Nat \ {0}, NEW purpose \in Purposes,
         NEW t \in TaskIds(p) \cup {None}, purpose # "initial" => t \in TaskIds(p),
         NEW a \in Groups(p) \cup {None}, NEW i \in ActionIds(p) \cup {None}
  PROVE  LET q == Acquire(r, bytes_, purpose, t, a, i)
         IN  /\ ReplayShaped(p, q) /\ q.slots = r.slots /\ q.freed = r.freed
             /\ Len(q.leases) = Len(r.leases) + 1 /\ q.leases[Len(q.leases)].task = t
             /\ \A k \in DOMAIN r.leases : k \in DOMAIN q.leases /\ q.leases[k] = r.leases[k]
<1> DEFINE e == [bytes |-> bytes_, purpose |-> purpose, task |-> t, alias |-> a,
                 action |-> i, start |-> r.ops + 1, end |-> None, by |-> None]
           q == Acquire(r, bytes_, purpose, t, a, i)
<1>1. r.ops \in Nat /\ r.leases \in Seq(LeaseOf(p))
  BY DEF ReplayShaped
<1>2. e \in LeaseOf(p)
  <2> DEFINE n == r.ops + 1
  <2>1. n \in Nat /\ None \in Enders(p)
    BY <1>1 DEF Enders
  <2> HIDE DEF n
  <2>2. e \in LeaseFields(p)
    BY <2>1 DEF LeaseFields, n
  <2> QED BY <2>2 DEF LeaseOf
<1>3. e.task = t
  OBVIOUS
<1>4. q = [r EXCEPT !.ops = r.ops + 1, !.leases = Append(r.leases, e)]
  BY DEF Acquire, ReplayShaped
<1> HIDE DEF e
<1>5. /\ Append(r.leases, e) \in Seq(LeaseOf(p))
      /\ Len(Append(r.leases, e)) = Len(r.leases) + 1
      /\ Append(r.leases, e)[Len(r.leases) + 1] = e
      /\ \A k \in DOMAIN r.leases : /\ k \in DOMAIN Append(r.leases, e)
                                    /\ Append(r.leases, e)[k] = r.leases[k]
  BY <1>1, <1>2
<1>6. /\ ReplayShaped(p, q) /\ q.leases = Append(r.leases, e)
      /\ q.slots = r.slots /\ q.freed = r.freed
  <2> DEFINE n == r.ops + 1
             L == Append(r.leases, e)
  <2>1. n \in Nat /\ L \in Seq(LeaseOf(p)) /\ q = [r EXCEPT !.ops = n, !.leases = L]
    BY <1>1, <1>4, <1>5
  <2> HIDE DEF n, L, q
  <2>2. ReplayShaped(p, q)
    BY <2>1, ReplayEdited
  <2>3. q.leases = L
    BY <2>1 DEF ReplayShaped
  <2>4. q.slots = r.slots /\ q.freed = r.freed
    BY <2>1 DEF ReplayShaped
  <2> QED BY <2>2, <2>3, <2>4 DEF L
<1> HIDE DEF q
<1> QED BY <1>3, <1>5, <1>6 DEF q

\* Rounds that leave the leases alone.
LEMMA ActiveShaped ==
  ASSUME NEW p, NEW r, ReplayShaped(p, r), NEW a, NEW lease
  PROVE  ReplayShaped(p, Activate(r, a, lease)) /\ ReplayShaped(p, Deactivate(r, a))
BY DEF ReplayShaped, Activate, Deactivate

LEMMA RefusedShaped ==
  ASSUME NEW p, NEW r, ReplayShaped(p, r)
  PROVE  ReplayShaped(p, [r EXCEPT !.ok = FALSE])
BY DEF ReplayShaped

LEMMA CopyShaped ==
  ASSUME NEW p, NEW r, ReplayShaped(p, r), NEW i, NEW a
  PROVE  ReplayShaped(p, CopiesFrom(r, i, a))
BY DEF ReplayShaped, CopiesFrom

\* A task gives back what it freed.
LEMMA FreesShaped ==
  ASSUME NEW p, NEW t \in TaskIds(p), NEW h, ReplayShaped(p, h), h.freed \in Seq(Nat)
  PROVE  ReplayShaped(p, RetireFreed(t, h))
<1> DEFINE S == DOMAIN h.freed
           l == [kind |-> "free", p |-> p, t |-> t, q |-> h.freed, base |-> h]
           Is(f) == f = [s \in SUBSET S |->
                           IF s = {} THEN h
                           ELSE Retire(f[s \ {Max(s)}], h.freed[Max(s)], <<"task", t>>)]
           f == CHOOSE f : Is(f)
<1>1. RetireFreed(t, h) = f[S]
  BY DEF RetireFreed, FoldLeft, MapThenFoldSet
<1>2. \A g : Is(g) <=> Looped(l, S, g)
  BY DEF Looped, ReplayRound, NextOf
<1>3. Loopable(l, S)
  BY SequenceLoops
<1> HIDE DEF S, Is
<1>4. Looped(l, S, f)
  <2>1. \E g : Is(g)
    BY <1>2, <1>3, LoopExists
  <2> QED BY <1>2, <2>1
<1>5. ASSUME NEW x \in S, NEW r, ReplayShaped(p, r) PROVE ReplayShaped(p, ReplayRound(l, x, r))
  <2>1. <<"task", t>> \in Enders(p)
    BY DEF Enders
  <2>2. ReplayRound(l, x, r) = Retire(r, h.freed[x], <<"task", t>>)
    BY DEF ReplayRound
  <2> QED BY <1>5, <2>1, <2>2, RetireShaped
<1>6. l.base = h
  OBVIOUS
<1> HIDE DEF l, f
<1> QED BY <1>1, <1>3, <1>4, <1>5, <1>6, LoopKeeps

\* The problems that come with valid facts, and their shape.
Admitted == {p \in Problems : FactsShaped(p)}

LEMMA FactsOf ==
  ASSUME NEW p \in Admitted
  PROVE  /\ p.tasks \in Seq([inputs : SUBSET Groups(p), outputs : SUBSET Groups(p),
                             mutations : SUBSET Groups(p), deps : SUBSET Nat, lane : Nat,
                             work : Nat])
         /\ TaskIds(p) = 1 .. Len(p.tasks) /\ Len(p.tasks) \in Nat
         /\ ActionIds(p) \subseteq Nat /\ IsFiniteSet(ActionIds(p))
         /\ IsFiniteSet(Groups(p)) /\ p.size \in [Groups(p) -> Nat]
         /\ p.initDev \subseteq Groups(p)
         /\ \A i \in ActionIds(p) : /\ p.actions[i].trigger \in TaskIds(p)
                                    /\ p.actions[i].alias \in Groups(p)
                                    /\ p.size[p.actions[i].alias] \in Nat \ {0}
                                    /\ p.actions[i].kind \in Kinds
         /\ FactsShaped(p)
<1>1. Shaped(p) /\ FactsShaped(p)
  BY ProblemsShaped DEF Admitted
<1>2. /\ p.tasks \in Seq([inputs : SUBSET Groups(p), outputs : SUBSET Groups(p),
                          mutations : SUBSET Groups(p), deps : SUBSET Nat, lane : Nat,
                          work : Nat])
      /\ p.actions \in Seq([trigger : TaskIds(p), alias : Groups(p), kind : Kinds])
      /\ IsFiniteSet(Groups(p)) /\ p.size \in [Groups(p) -> Nat]
      /\ p.initDev \subseteq Groups(p)
  BY <1>1 DEF Shaped
<1>3. TaskIds(p) = 1 .. Len(p.tasks) /\ Len(p.tasks) \in Nat
  BY <1>2 DEF TaskIds
<1>4. ActionIds(p) = 1 .. Len(p.actions) /\ Len(p.actions) \in Nat
  BY <1>2 DEF ActionIds
<1>5. ActionIds(p) \subseteq Nat /\ IsFiniteSet(ActionIds(p))
  BY <1>4, FS_Interval
<1> DEFINE Fields == [trigger : TaskIds(p), alias : Groups(p), kind : Kinds]
<1>7. \A i \in ActionIds(p) : p.actions[i] \in Fields
  <2>1. p.actions \in Seq(Fields)
    BY <1>2
  <2> HIDE DEF Fields
  <2> QED BY <2>1 DEF ActionIds
<1>6. ASSUME NEW i \in ActionIds(p)
      PROVE  /\ p.actions[i].trigger \in TaskIds(p) /\ p.actions[i].alias \in Groups(p)
             /\ p.size[p.actions[i].alias] \in Nat \ {0} /\ p.actions[i].kind \in Kinds
  <2>1. p.actions[i] \in [trigger : TaskIds(p), alias : Groups(p), kind : Kinds]
    BY <1>6, <1>7
  <2>2. p.actions[i].alias \notin ZeroSize(p)
    BY <1>1 DEF FactsShaped, ActionsOrdered
  <2> QED BY <1>2, <2>1, <2>2 DEF ZeroSize
<1> QED BY <1>1, <1>2, <1>3, <1>5, <1>6

\* What a task replaces and hands off.
LEMMA ChangesOf ==
  ASSUME NEW p \in Admitted, NEW t \in TaskIds(p)
  PROVE  p.replaced[t] \subseteq Groups(p) /\ IsFiniteSet(p.handoffs[t])
<1> DEFINE X == SUBSET Groups(p)
<1>1. FactsShaped(p)
  BY FactsOf
<1>2. p.replaced \in [TaskIds(p) -> X] /\ \A u \in TaskIds(p) : IsFiniteSet(p.handoffs[u])
  BY <1>1 DEF FactsShaped
<1>3. p.replaced[t] \in X
  <2> HIDE DEF X
  <2> QED BY <1>2
<1> QED BY <1>2, <1>3

\* An action acquires, retires or reads from a lease.
LEMMA ActionShaped ==
  ASSUME NEW p \in Admitted, NEW i \in ActionIds(p), NEW r, ReplayShaped(p, r)
  PROVE  ReplayShaped(p, ReplayAction(p, r, i))
<1> DEFINE act == p.actions[i]
           a == act.alias
<1>1. /\ act.trigger \in TaskIds(p) /\ a \in Groups(p)
      /\ p.size[a] \in Nat \ {0} /\ act.kind \in Kinds
  BY FactsOf
<1>2. <<"task", act.trigger>> \in Enders(p) /\ <<"action", i>> \in Enders(p)
  BY <1>1 DEF Enders
<1> HIDE DEF act
<1>3. ReplayShaped(p, [r EXCEPT !.ok = FALSE])
  BY RefusedShaped
<1>4. ReplayShaped(p, Deactivate(Retire(r, r.active[a], <<"task", act.trigger>>), a))
  BY <1>2, RetireShaped, ActiveShaped
<1>5. ReplayShaped(p, CopiesFrom(r, i, a))
  BY CopyShaped
<1>6. ReplayShaped(p, Deactivate(Retire(CopiesFrom(r, i, a), r.active[a], <<"action", i>>), a))
  BY <1>2, <1>5, RetireShaped, ActiveShaped
<1>7. LET q == Acquire(r, p.size[a], "fetch", act.trigger, a, i)
      IN  ReplayShaped(p, Activate(q, a, Len(q.leases)))
  <2>1. ReplayShaped(p, Acquire(r, p.size[a], "fetch", act.trigger, a, i))
    BY <1>1, AcquireShaped DEF Purposes
  <2> QED BY <2>1, ActiveShaped
<1>8. CASE act.kind = "release"
  BY <1>3, <1>4, <1>8 DEF ReplayAction, act
<1>9. CASE act.kind = "evict"
  BY <1>3, <1>6, <1>9 DEF ReplayAction, act
<1>10. CASE act.kind = "writeback"
  BY <1>3, <1>5, <1>10 DEF ReplayAction, act
<1>11. CASE act.kind = "fetch"
  <2>1. ReplayAction(p, r, i) \in
          {[r EXCEPT !.ok = FALSE], r,
           LET q == Acquire(r, p.size[a], "fetch", act.trigger, a, i)
           IN  Activate(q, a, Len(q.leases))}
    BY <1>11 DEF ReplayAction, act
  <2> QED BY <1>3, <1>7, <2>1
<1> QED BY <1>1, <1>8, <1>9, <1>10, <1>11 DEF Kinds

\* The actions of a task, in schedule order.
LEMMA ActionsShaped ==
  ASSUME NEW p \in Admitted, NEW t, NEW h, ReplayShaped(p, h)
  PROVE  ReplayShaped(p, FoldLeft(LAMBDA g, i : ReplayAction(p, g, i), h,
                           Ascending({i \in ActionIds(p) : p.actions[i].trigger = t})))
<1> DEFINE T == {i \in ActionIds(p) : p.actions[i].trigger = t}
           S == DOMAIN Ascending(T)
           l == [kind |-> "action", p |-> p, t |-> t, q |-> Ascending(T), base |-> h]
           Is(f) == f = [s \in SUBSET S |->
                           IF s = {} THEN h
                           ELSE ReplayAction(p, f[s \ {Max(s)}], Ascending(T)[Max(s)])]
           f == CHOOSE f : Is(f)
<1>0. LET n == Cardinality(T)
      IN  DOMAIN Ascending(T) = 1 .. n /\ n \in Nat /\ \A j \in 1 .. n : Ascending(T)[j] \in T
  <2>1. T \subseteq Nat /\ IsFiniteSet(T)
    BY FactsOf, FS_Subset
  <2>2. Ascending(T) \in Seq(T) /\ Len(Ascending(T)) = Cardinality(T) /\ Cardinality(T) \in Nat
    BY <2>1, AscendingLists, FS_CardinalityType
  <2> DEFINE A == Ascending(T)
             n == Cardinality(T)
  <2>3. A \in Seq(T) /\ Len(A) = n /\ n \in Nat
    BY <2>2
  <2> HIDE DEF T, A, n
  <2>4. DOMAIN A = 1 .. n /\ n \in Nat /\ \A j \in 1 .. n : A[j] \in T
    BY <2>3
  <2> QED BY <2>4 DEF A, n
<1>1. FoldLeft(LAMBDA g, i : ReplayAction(p, g, i), h,
                           Ascending(T)) = f[S]
  BY DEF FoldLeft, MapThenFoldSet
<1>2. \A g : Is(g) <=> Looped(l, S, g)
  BY DEF Looped, ReplayRound, NextOf
<1>3. Loopable(l, S)
  BY <1>0, SequenceLoops
<1> HIDE DEF S, Is
<1>4. Looped(l, S, f)
  <2>1. \E g : Is(g)
    BY <1>2, <1>3, LoopExists
  <2> QED BY <1>2, <2>1
<1>5. ASSUME NEW x \in S, NEW r, ReplayShaped(p, r) PROVE ReplayShaped(p, ReplayRound(l, x, r))
  <2>0. ReplayRound(l, x, r) = ReplayAction(p, r, Ascending(T)[x])
    BY DEF ReplayRound
  <2>1. Ascending(T)[x] \in T
    <3> HIDE DEF T
    <3> QED BY <1>0 DEF S
  <2> DEFINE i == Ascending(T)[x]
  <2>2. i \in ActionIds(p)
    BY <2>1
  <2>3. ReplayRound(l, x, r) = ReplayAction(p, r, i)
    BY <2>0
  <2> HIDE DEF i
  <2> QED BY <1>5, <2>2, <2>3, ActionShaped
<1>6. l.base = h /\ ReplayShaped(p, h)
  OBVIOUS
<1> HIDE DEF l, f
<1> QED BY <1>1, <1>3, <1>4, <1>5, <1>6, LoopKeeps

\* What is on the device from the start.
LEMMA InitialShaped ==
  ASSUME NEW p \in Admitted
  PROVE  ReplayShaped(p, AcquireInitialObjects(p))
<1> DEFINE Start == [ops |-> 0, leases |-> <<>>, active |-> <<>>, reads |-> <<>>,
                     sources |-> <<>>, slots |-> <<>>, freed |-> <<>>, ok |-> TRUE]
           S == p.initDev \ ZeroSize(p)
           l == [kind |-> "initial", p |-> p, t |-> None, q |-> None, base |-> Start]
           Is(f) == f = [s \in SUBSET S |->
                           IF s = {} THEN Start
                           ELSE LET g == Acquire(f[s \ {Pick(s)}], p.size[Pick(s)], "initial", None, Pick(s), None)
                                IN  Activate(g, Pick(s), Len(g.leases))]
           f == CHOOSE f : Is(f)
<1>1. AcquireInitialObjects(p) = f[S]
  BY DEF AcquireInitialObjects, FoldSet, MapThenFoldSet, Pick
<1>2. \A g : Is(g) <=> Looped(l, S, g)
  BY DEF Looped, ReplayRound, NextOf
<1>3. Loopable(l, S)
  <2>1. IsFiniteSet(S)
    BY FactsOf, FS_Subset
  <2> QED BY <2>1, SetLoops
<1> HIDE DEF S, Is
<1>4. Looped(l, S, f)
  <2>1. \E g : Is(g)
    BY <1>2, <1>3, LoopExists
  <2> QED BY <1>2, <2>1
<1>5. ASSUME NEW x \in S, NEW r, ReplayShaped(p, r) PROVE ReplayShaped(p, ReplayRound(l, x, r))
  <2>0. ReplayRound(l, x, r) = LET g == Acquire(r, p.size[x], "initial", None, x, None)
                                IN  Activate(g, x, Len(g.leases))
    BY DEF ReplayRound
  <2>1. x \in Groups(p) /\ p.size[x] \in Nat \ {0}
    BY FactsOf DEF S, ZeroSize
  <2>2. ReplayShaped(p, Acquire(r, p.size[x], "initial", None, x, None))
    BY <1>5, <2>1, AcquireShaped DEF Purposes
  <2> QED BY <2>0, <2>2, ActiveShaped
<1>6. l.base = Start /\ ReplayShaped(p, Start)
  <2>1. <<>> \in Seq(LeaseOf(p))
    OBVIOUS
  <2>2. ReplayShaped(p, Start)
    BY <2>1 DEF ReplayShaped
  <2> QED BY <2>2
<1> HIDE DEF l, f
<1> QED BY <1>1, <1>3, <1>4, <1>5, <1>6, LoopKeeps

\* What a task publishes.
LEMMA HandoffsShaped ==
  ASSUME NEW p \in Admitted, NEW t \in TaskIds(p), NEW h, ReplayShaped(p, h)
  PROVE  ReplayShaped(p, PublishHandoffs(p, t, h))
<1> DEFINE S == Handovers(p, t)
           l == [kind |-> "handoff", p |-> p, t |-> t, q |-> None, base |-> h]
           Is(f) == f = [s \in SUBSET S |->
                           IF s = {} THEN h
                           ELSE IF Pick(s).from \notin DOMAIN f[s \ {Pick(s)}].active \/ Pick(s).to \in DOMAIN f[s \ {Pick(s)}].active
                                THEN [f[s \ {Pick(s)}] EXCEPT !.ok = FALSE]
                                ELSE Deactivate(Activate(f[s \ {Pick(s)}], Pick(s).to, f[s \ {Pick(s)}].active[Pick(s).from]), Pick(s).from)]
           f == CHOOSE f : Is(f)
<1>1. PublishHandoffs(p, t, h) = f[S]
  BY DEF PublishHandoffs, FoldSet, MapThenFoldSet, Pick
<1>2. \A g : Is(g) <=> Looped(l, S, g)
  BY DEF Looped, ReplayRound, NextOf
<1>3. Loopable(l, S)
  <2>1. S \in SUBSET p.handoffs[t] /\ IsFiniteSet(p.handoffs[t])
    BY ChangesOf DEF Handovers
  <2>2. IsFiniteSet(S)
    BY <2>1, FS_Subset
  <2> QED BY <2>2, SetLoops
<1> HIDE DEF S, Is
<1>4. Looped(l, S, f)
  <2>1. \E g : Is(g)
    BY <1>2, <1>3, LoopExists
  <2> QED BY <1>2, <2>1
<1>5. ASSUME NEW x \in S, NEW r, ReplayShaped(p, r) PROVE ReplayShaped(p, ReplayRound(l, x, r))
  <2>0. ReplayRound(l, x, r) = IF x.from \notin DOMAIN r.active \/ x.to \in DOMAIN r.active
                                THEN [r EXCEPT !.ok = FALSE]
                                ELSE Deactivate(Activate(r, x.to, r.active[x.from]), x.from)
    BY DEF ReplayRound
  <2>1. /\ ReplayShaped(p, [r EXCEPT !.ok = FALSE])
        /\ ReplayShaped(p, Deactivate(Activate(r, x.to, r.active[x.from]), x.from))
    BY <1>5, RefusedShaped, ActiveShaped
  <2> QED BY <2>0, <2>1
<1>6. l.base = h /\ ReplayShaped(p, h)
  OBVIOUS
<1> HIDE DEF l, f
<1> QED BY <1>1, <1>3, <1>4, <1>5, <1>6, LoopKeeps

\* A replacement retires the lease it takes over from.
LEMMA ReplacementsShaped ==
  ASSUME NEW p \in Admitted, NEW t \in TaskIds(p), NEW h, ReplayShaped(p, h)
  PROVE  ReplayShaped(p, PublishReplacements(p, t, h))
<1> DEFINE S == p.replaced[t] \ ZeroSize(p)
           l == [kind |-> "replace", p |-> p, t |-> t, q |-> None, base |-> h]
           Is(f) == f = [s \in SUBSET S |->
                           IF s = {} THEN h
                           ELSE Activate(Retire(f[s \ {Pick(s)}], f[s \ {Pick(s)}].active[Pick(s)], <<"task", t>>), Pick(s), OutputLease(p, t, f[s \ {Pick(s)}], Pick(s)))]
           f == CHOOSE f : Is(f)
<1>1. PublishReplacements(p, t, h) = f[S]
  BY DEF PublishReplacements, FoldSet, MapThenFoldSet, Pick
<1>2. \A g : Is(g) <=> Looped(l, S, g)
  BY DEF Looped, ReplayRound, NextOf
<1>3. Loopable(l, S)
  <2>1. p.replaced[t] \subseteq Groups(p) /\ IsFiniteSet(Groups(p))
    BY FactsOf, ChangesOf
  <2>2. IsFiniteSet(S)
    BY <2>1, FS_Subset
  <2> QED BY <2>2, SetLoops
<1> HIDE DEF S, Is
<1>4. Looped(l, S, f)
  <2>1. \E g : Is(g)
    BY <1>2, <1>3, LoopExists
  <2> QED BY <1>2, <2>1
<1>5. ASSUME NEW x \in S, NEW r, ReplayShaped(p, r) PROVE ReplayShaped(p, ReplayRound(l, x, r))
  <2>0. ReplayRound(l, x, r) = Activate(Retire(r, r.active[x], <<"task", t>>), x, OutputLease(p, t, r, x))
    BY DEF ReplayRound
  <2>1. <<"task", t>> \in Enders(p)
    BY DEF Enders
  <2>2. ReplayShaped(p, Retire(r, r.active[x], <<"task", t>>))
    BY <1>5, <2>1, RetireShaped
  <2> QED BY <2>0, <2>2, ActiveShaped
<1>6. l.base = h /\ ReplayShaped(p, h)
  OBVIOUS
<1> HIDE DEF l, f
<1> QED BY <1>1, <1>3, <1>4, <1>5, <1>6, LoopKeeps

\* The allocation steps of a task.
LEMMA StepsTyped ==
  ASSUME NEW p \in Admitted, NEW t \in TaskIds(p)
  PROVE  /\ Len(p.steps[t]) \in Nat /\ DOMAIN p.steps[t] = 1 .. Len(p.steps[t])
         /\ \A k \in DOMAIN p.steps[t] :
              LET step == p.steps[t][k]
                  Earlier(o) == \E j \in 1 .. (k - 1) : /\ p.steps[t][j].bytes > 0
                                                        /\ p.steps[t][j].ordinal = o
              IN  /\ step.bytes \in Nat /\ step.alias \in Groups(p) \cup {None}
                  /\ step.bytes = 0 => Earlier(step.ordinal)
                  /\ step.bytes > 0 /\ step.reuses # None => Earlier(step.reuses)
<1> DEFINE Fields == [ordinal : Nat, bytes : Nat, alias : Groups(p) \cup {None},
                      reuses : Nat \cup {None}]
<1>1. FactsShaped(p)
  BY FactsOf
<1>2. p.steps[t] \in Seq(Fields)
  BY <1>1 DEF FactsShaped
<1>3. \A k \in DOMAIN p.steps[t] : p.steps[t][k] \in Fields
  <2> HIDE DEF Fields
  <2> QED BY <1>2
<1>4. Len(p.steps[t]) \in Nat /\ DOMAIN p.steps[t] = 1 .. Len(p.steps[t])
  <2> HIDE DEF Fields
  <2> QED BY <1>2
<1> QED BY <1>1, <1>3, <1>4 DEF FactsShaped

\* A new output takes a lease the task left behind.
LEMMA OutputsShaped ==
  ASSUME NEW p \in Admitted, NEW t \in TaskIds(p), NEW h, ReplayShaped(p, h)
  PROVE  ReplayShaped(p, PublishOutputs(p, t, h))
<1> DEFINE S == {p.steps[t][k].alias : k \in DOMAIN p.steps[t]} \ (p.replaced[t] \cup {None})
           l == [kind |-> "output", p |-> p, t |-> t, q |-> None, base |-> h]
           Is(f) == f = [s \in SUBSET S |->
                           IF s = {} THEN h
                           ELSE IF Pick(s) \in DOMAIN f[s \ {Pick(s)}].active THEN [f[s \ {Pick(s)}] EXCEPT !.ok = FALSE]
                                ELSE Activate(f[s \ {Pick(s)}], Pick(s), OutputLease(p, t, f[s \ {Pick(s)}], Pick(s)))]
           f == CHOOSE f : Is(f)
<1>1. PublishOutputs(p, t, h) = f[S]
  BY DEF PublishOutputs, FoldSet, MapThenFoldSet, Pick
<1>2. \A g : Is(g) <=> Looped(l, S, g)
  BY DEF Looped, ReplayRound, NextOf
<1>3. Loopable(l, S)
  <2>1. S \subseteq Groups(p) /\ IsFiniteSet(Groups(p))
    <3>1. \A k \in DOMAIN p.steps[t] : p.steps[t][k].alias \in Groups(p) \cup {None}
      BY FactsOf, StepsTyped
    <3> QED BY <3>1, FactsOf
  <2>2. IsFiniteSet(S)
    BY <2>1, FS_Subset
  <2> QED BY <2>2, SetLoops
<1> HIDE DEF S, Is
<1>4. Looped(l, S, f)
  <2>1. \E g : Is(g)
    BY <1>2, <1>3, LoopExists
  <2> QED BY <1>2, <2>1
<1>5. ASSUME NEW x \in S, NEW r, ReplayShaped(p, r) PROVE ReplayShaped(p, ReplayRound(l, x, r))
  <2>0. ReplayRound(l, x, r) = IF x \in DOMAIN r.active THEN [r EXCEPT !.ok = FALSE]
                                ELSE Activate(r, x, OutputLease(p, t, r, x))
    BY DEF ReplayRound
  <2>1. /\ ReplayShaped(p, [r EXCEPT !.ok = FALSE])
        /\ ReplayShaped(p, Activate(r, x, OutputLease(p, t, r, x)))
    BY <1>5, RefusedShaped, ActiveShaped
  <2> QED BY <2>0, <2>1
<1>6. l.base = h /\ ReplayShaped(p, h)
  OBVIOUS
<1> HIDE DEF l, f
<1> QED BY <1>1, <1>3, <1>4, <1>5, <1>6, LoopKeeps

\* Part way through a task's allocations: every ordinal allocated so far has a
\* lease of a task, and what is freed are leases.
StepsKept(p, t, i, r) ==
  /\ ReplayShaped(p, r) /\ r.freed \in Seq(Nat)
  /\ \A j \in 1 .. i : p.steps[t][j].bytes > 0 => p.steps[t][j].ordinal \in DOMAIN r.slots
  /\ \A o \in DOMAIN r.slots : /\ r.slots[o] \in DOMAIN r.leases
                               /\ r.leases[r.slots[o]].task \in TaskIds(p)

\* The lease of one more ordinal.
WithSlot(r, o, lease) ==
  [r EXCEPT !.slots = [u \in DOMAIN @ \cup {o} |-> IF u = o THEN lease ELSE @[u]]]

LEMMA SlotKept ==
  ASSUME NEW p, NEW t, NEW i \in Nat \ {0}, NEW r, StepsKept(p, t, i - 1, r),
         NEW o, p.steps[t][i].bytes > 0 => p.steps[t][i].ordinal = o,
         NEW lease \in DOMAIN r.leases, r.leases[lease].task \in TaskIds(p)
  PROVE  StepsKept(p, t, i, WithSlot(r, o, lease))
<1> DEFINE q == WithSlot(r, o, lease)
<1>1. ReplayShaped(p, q) /\ q.freed = r.freed /\ q.leases = r.leases
  BY DEF StepsKept, ReplayShaped, WithSlot
<1>2. /\ DOMAIN q.slots = DOMAIN r.slots \cup {o}
      /\ \A u \in DOMAIN q.slots : q.slots[u] = IF u = o THEN lease ELSE r.slots[u]
  BY DEF StepsKept, ReplayShaped, WithSlot
<1> HIDE DEF q
<1>3. \A j \in 1 .. i : p.steps[t][j].bytes > 0 => p.steps[t][j].ordinal \in DOMAIN q.slots
  <2> SUFFICES ASSUME NEW j \in 1 .. i, p.steps[t][j].bytes > 0
               PROVE  p.steps[t][j].ordinal \in DOMAIN q.slots
    OBVIOUS
  <2>1. CASE j = i
    BY <1>2, <2>1
  <2>2. CASE j # i
    <3>1. j \in 1 .. (i - 1)
      BY <2>2
    <3> QED BY <1>2, <3>1 DEF StepsKept
  <2> QED BY <2>1, <2>2
<1>4. \A u \in DOMAIN q.slots : /\ q.slots[u] \in DOMAIN q.leases
                                /\ q.leases[q.slots[u]].task \in TaskIds(p)
  BY <1>1, <1>2 DEF StepsKept
<1>5. StepsKept(p, t, i, q)
  BY <1>1, <1>3, <1>4 DEF StepsKept
<1> QED BY <1>5 DEF q

\* What a step allocates.
LEMMA PurposeOf ==
  ASSUME NEW p, NEW t, NEW step
  PROVE  StepPurpose(p, t, step) \in Purposes /\ StepPurpose(p, t, step) # "initial"
BY DEF StepPurpose, Purposes

\* An allocation with a lease of its own.
LEMMA FreshKept ==
  ASSUME NEW p, NEW t \in TaskIds(p), NEW i \in Nat \ {0}, NEW r, StepsKept(p, t, i - 1, r),
         NEW bytes_ \in Nat \ {0}, NEW purpose \in Purposes, NEW a \in Groups(p) \cup {None}
  PROVE  LET q == Acquire(r, bytes_, purpose, t, a, None)
         IN  /\ StepsKept(p, t, i - 1, q) /\ Len(q.leases) \in DOMAIN q.leases
             /\ q.leases[Len(q.leases)].task \in TaskIds(p)
<1> DEFINE q == Acquire(r, bytes_, purpose, t, a, None)
           n == Len(q.leases)
<1>1. ReplayShaped(p, r)
  BY DEF StepsKept
<1>2. /\ ReplayShaped(p, q) /\ q.slots = r.slots /\ q.freed = r.freed
      /\ Len(q.leases) = Len(r.leases) + 1 /\ q.leases[Len(q.leases)].task = t
      /\ \A k \in DOMAIN r.leases : k \in DOMAIN q.leases /\ q.leases[k] = r.leases[k]
  <2>1. TaskIds(p) \subseteq TaskIds(p) \cup {None}
    OBVIOUS
  <2> HIDE DEF q
  <2> QED BY <1>1, <2>1, AcquireShaped DEF q
<1> HIDE DEF q
<1>3. r.leases \in Seq(LeaseOf(p)) /\ q.leases \in Seq(LeaseOf(p))
  BY <1>1, <1>2 DEF ReplayShaped
<1>4. n \in DOMAIN q.leases /\ q.leases[n].task \in TaskIds(p)
  BY <1>2, <1>3
<1>5. StepsKept(p, t, i - 1, q)
  BY <1>2 DEF StepsKept
<1> QED BY <1>4, <1>5 DEF q

\* An allocation that takes over the lease of an ordinal retired before.
LEMMA ReuseKept ==
  ASSUME NEW p, NEW t \in TaskIds(p), NEW i \in Nat \ {0}, NEW r, StepsKept(p, t, i - 1, r),
         NEW lease \in DOMAIN r.leases, r.leases[lease].task \in TaskIds(p),
         NEW purpose \in Purposes, NEW a \in Groups(p) \cup {None}
  PROVE  LET q == [r EXCEPT !.leases[lease].purpose = purpose, !.leases[lease].alias = a]
         IN  /\ StepsKept(p, t, i - 1, q) /\ lease \in DOMAIN q.leases
             /\ q.leases[lease].task \in TaskIds(p)
<1> DEFINE e == [r.leases[lease] EXCEPT !.purpose = purpose, !.alias = a]
           L == [r.leases EXCEPT ![lease] = e]
           q == [r EXCEPT !.leases[lease].purpose = purpose, !.leases[lease].alias = a]
<1>1. /\ ReplayShaped(p, r) /\ r.ops \in Nat /\ r.leases \in Seq(LeaseOf(p))
      /\ r.leases[lease] \in LeaseOf(p)
  <2>1. ReplayShaped(p, r) /\ r.ops \in Nat /\ r.leases \in Seq(LeaseOf(p))
    BY DEF StepsKept, ReplayShaped
  <2> DEFINE S == LeaseOf(p)
  <2>2. r.leases[lease] \in S
    <3> HIDE DEF S
    <3> QED BY <2>1 DEF S
  <2> QED BY <2>1, <2>2
<1>2. e \in LeaseOf(p) /\ e.task = r.leases[lease].task
  <2> DEFINE x == r.leases[lease]
  <2>1. x \in LeaseOf(p) /\ x.task \in TaskIds(p)
    BY <1>1
  <2> HIDE DEF x
  <2>2. [x EXCEPT !.purpose = purpose, !.alias = a] \in LeaseFields(p)
    BY <2>1 DEF LeaseOf, LeaseFields
  <2>3. [x EXCEPT !.purpose = purpose, !.alias = a].task = x.task
    BY <2>1 DEF LeaseOf, LeaseFields
  <2> QED BY <2>1, <2>2, <2>3 DEF LeaseOf, x
<1>3. L \in Seq(LeaseOf(p))
  <2> HIDE DEF e
  <2> QED BY <1>1, <1>2, LeaseEdited
<1>4. q = [r EXCEPT !.ops = r.ops, !.leases = L]
  <2>1. [[r.leases EXCEPT ![lease].purpose = purpose] EXCEPT ![lease].alias = a] = L
    BY <1>1
  <2> QED BY <1>1, <2>1 DEF ReplayShaped
<1> HIDE DEF e
<1>5. /\ DOMAIN L = DOMAIN r.leases
      /\ \A k \in DOMAIN r.leases : L[k] = IF k = lease THEN e ELSE r.leases[k]
  BY <1>1
<1> HIDE DEF L, q
<1>6. ReplayShaped(p, q)
  BY <1>1, <1>3, <1>4, ReplayEdited
<1>7. q.leases = L /\ q.slots = r.slots /\ q.freed = r.freed
  BY <1>1, <1>4 DEF ReplayShaped
<1>8. \A o \in DOMAIN q.slots : /\ q.slots[o] \in DOMAIN q.leases
                                /\ q.leases[q.slots[o]].task \in TaskIds(p)
  BY <1>2, <1>5, <1>7 DEF StepsKept
<1>9. StepsKept(p, t, i - 1, q)
  BY <1>6, <1>7, <1>8 DEF StepsKept
<1>10. lease \in DOMAIN q.leases /\ q.leases[lease].task \in TaskIds(p)
  BY <1>2, <1>5, <1>7
<1> QED BY <1>9, <1>10 DEF q

\* One allocation step.
LEMMA AllocationKept ==
  ASSUME NEW p \in Admitted, NEW t \in TaskIds(p), NEW i \in DOMAIN p.steps[t], NEW r,
         StepsKept(p, t, i - 1, r)
  PROVE  StepsKept(p, t, i, AllocationStep(p, t, r, p.steps[t][i]))
<1> DEFINE step == p.steps[t][i]
           Earlier(o) == \E j \in 1 .. (i - 1) : /\ p.steps[t][j].bytes > 0
                                                 /\ p.steps[t][j].ordinal = o
<1>1. /\ i \in Nat \ {0} /\ step.bytes \in Nat /\ step.alias \in Groups(p) \cup {None}
      /\ step.bytes = 0 => Earlier(step.ordinal)
      /\ step.bytes > 0 /\ step.reuses # None => Earlier(step.reuses)
  BY StepsTyped
<1>2. ASSUME NEW o, Earlier(o)
      PROVE  /\ r.slots[o] \in DOMAIN r.leases /\ r.slots[o] \in Nat
             /\ r.leases[r.slots[o]].task \in TaskIds(p)
  <2>1. o \in DOMAIN r.slots
    BY <1>2 DEF StepsKept
  <2>2. r.leases \in Seq(LeaseOf(p))
    BY DEF StepsKept, ReplayShaped
  <2> QED BY <2>1, <2>2 DEF StepsKept
<1>3. StepPurpose(p, t, step) \in Purposes
  BY PurposeOf
<1>4. CASE step.bytes = 0
  <2>1. ASSUME NEW q, StepsKept(p, t, i - 1, q) PROVE StepsKept(p, t, i, q)
    <3>1. \A j \in 1 .. i : p.steps[t][j].bytes > 0 => p.steps[t][j].ordinal \in DOMAIN q.slots
      <4> SUFFICES ASSUME NEW j \in 1 .. i, p.steps[t][j].bytes > 0
                   PROVE  p.steps[t][j].ordinal \in DOMAIN q.slots
        OBVIOUS
      <4>1. j \in 1 .. (i - 1)
        BY <1>1, <1>4
      <4> QED BY <2>1, <4>1 DEF StepsKept
    <3> QED BY <2>1, <3>1 DEF StepsKept
  <2>2. StepsKept(p, t, i - 1, [r EXCEPT !.freed = Append(@, r.slots[step.ordinal])])
    <3> DEFINE q == [r EXCEPT !.freed = Append(@, r.slots[step.ordinal])]
    <3>1. r.slots[step.ordinal] \in Nat
      BY <1>1, <1>2, <1>4
    <3> HIDE DEF step
    <3>2. /\ ReplayShaped(p, q) /\ q.freed = Append(r.freed, r.slots[step.ordinal])
          /\ q.slots = r.slots /\ q.leases = r.leases
      BY DEF StepsKept, ReplayShaped
    <3>3. q.freed \in Seq(Nat)
      BY <3>1, <3>2 DEF StepsKept
    <3> HIDE DEF q
    <3>4. StepsKept(p, t, i - 1, q)
      BY <3>2, <3>3 DEF StepsKept
    <3> QED BY <3>4 DEF q
  <2>3. \/ AllocationStep(p, t, r, step) = r
        \/ AllocationStep(p, t, r, step) = [r EXCEPT !.freed = Append(@, r.slots[step.ordinal])]
    BY <1>4 DEF AllocationStep
  <2> QED BY <2>1, <2>2, <2>3
<1>5. CASE step.bytes > 0 /\ step.reuses = None
  <2> DEFINE q == Acquire(r, step.bytes, StepPurpose(p, t, step), t, step.alias, None)
  <2>1. /\ StepsKept(p, t, i - 1, q) /\ Len(q.leases) \in DOMAIN q.leases
        /\ q.leases[Len(q.leases)].task \in TaskIds(p)
    <3> DEFINE b == step.bytes
               a == step.alias
               w == StepPurpose(p, t, step)
    <3>1. b \in Nat \ {0} /\ a \in Groups(p) \cup {None} /\ w \in Purposes
      BY <1>1, <1>3, <1>5
    <3>2. q = Acquire(r, b, w, t, a, None)
      OBVIOUS
    <3> HIDE DEF b, a, w, q, step
    <3> QED BY <1>1, <3>1, <3>2, FreshKept
  <2>2. AllocationStep(p, t, r, step) = WithSlot(q, step.ordinal, Len(q.leases))
    <3>1. step.bytes # 0
      BY <1>1, <1>5
    <3> HIDE DEF step
    <3> QED BY <1>5, <3>1, Zenon DEF AllocationStep, WithSlot
  <2> HIDE DEF q
  <2>3. StepsKept(p, t, i, WithSlot(q, step.ordinal, Len(q.leases)))
    BY <1>1, <2>1, SlotKept
  <2> QED BY <2>2, <2>3
<1>6. CASE step.bytes > 0 /\ step.reuses # None
  <2> DEFINE lease == r.slots[step.reuses]
             w == StepPurpose(p, t, step)
             q == [r EXCEPT !.leases[lease].purpose = w, !.leases[lease].alias = step.alias]
  <2>1. lease \in DOMAIN r.leases /\ r.leases[lease].task \in TaskIds(p)
    BY <1>1, <1>2, <1>6
  <2>2. /\ StepsKept(p, t, i - 1, q) /\ lease \in DOMAIN q.leases
        /\ q.leases[lease].task \in TaskIds(p)
    <3> DEFINE a == step.alias
    <3>1. w \in Purposes /\ a \in Groups(p) \cup {None}
      BY <1>1, <1>3
    <3>2. q = [r EXCEPT !.leases[lease].purpose = w, !.leases[lease].alias = a]
      OBVIOUS
    <3> HIDE DEF a, w, q, lease, step
    <3> QED BY <1>1, <2>1, <3>1, <3>2, ReuseKept
  <2>3. AllocationStep(p, t, r, step) = WithSlot(q, step.ordinal, lease)
    <3>1. step.bytes # 0
      BY <1>1, <1>6
    <3> HIDE DEF step
    <3> QED BY <1>6, <3>1, Zenon DEF AllocationStep, WithSlot
  <2> HIDE DEF q, lease
  <2>4. StepsKept(p, t, i, WithSlot(q, step.ordinal, lease))
    BY <1>1, <2>2, SlotKept
  <2> QED BY <2>3, <2>4
<1> QED BY <1>1, <1>4, <1>5, <1>6

\* All of a task's allocations.
LEMMA AllocationsShaped ==
  ASSUME NEW p \in Admitted, NEW t \in TaskIds(p), NEW h, ReplayShaped(p, h)
  PROVE  LET q == AcquireTaskAllocations(p, t, h)
         IN  ReplayShaped(p, q) /\ q.freed \in Seq(Nat)
<1> DEFINE base == [h EXCEPT !.slots = <<>>, !.freed = <<>>]
           steps == p.steps[t]
           S == DOMAIN steps
           n == Len(steps)
           l == [kind |-> "step", p |-> p, t |-> t, q |-> steps, base |-> base]
           Is(f) == f = [s \in SUBSET S |->
                           IF s = {} THEN base
                           ELSE AllocationStep(p, t, f[s \ {Max(s)}], steps[Max(s)])]
           f == CHOOSE f : Is(f)
           Kept(i) == StepsKept(p, t, i, f[1 .. i])
<1>1. AcquireTaskAllocations(p, t, h) = f[S]
  BY DEF AcquireTaskAllocations, FoldLeft, MapThenFoldSet
<1>2. \A g : Is(g) <=> Looped(l, S, g)
  BY DEF Looped, ReplayRound, NextOf
<1>3. n \in Nat /\ S = 1 .. n
  BY StepsTyped
<1>4. Loopable(l, S)
  BY <1>3, SequenceLoops
<1> HIDE DEF S, Is
<1>5. Looped(l, S, f)
  <2>1. \E g : Is(g)
    BY <1>2, <1>4, LoopExists
  <2> QED BY <1>2, <2>1
<1>6. StepsKept(p, t, 0, base)
  <2>1. ReplayShaped(p, base) /\ base.slots = <<>> /\ base.freed = <<>>
    BY DEF ReplayShaped
  <2>2. <<>> \in Seq(Nat) /\ DOMAIN <<>> = {} /\ 1 .. 0 = {}
    OBVIOUS
  <2> HIDE DEF base
  <2> QED BY <2>1, <2>2 DEF StepsKept
<1>7. f[1 .. 0] = base
  <2>1. f[{}] = l.base
    BY <1>5 DEF Looped
  <2>2. 1 .. 0 = {} /\ l.base = base
    OBVIOUS
  <2> HIDE DEF f, l, base
  <2> QED BY <2>1, <2>2
<1>8. ASSUME NEW i \in 1 .. n
      PROVE  f[1 .. i] = AllocationStep(p, t, f[1 .. (i - 1)], steps[i])
  <2>1. /\ 1 .. i \in SUBSET S /\ 1 .. i # {} /\ NextOf(l, 1 .. i) = i
        /\ (1 .. i) \ {i} = 1 .. (i - 1)
    BY <1>3, UpToLast DEF NextOf
  <2>2. f[1 .. i] = ReplayRound(l, i, f[(1 .. i) \ {i}])
    <3> HIDE DEF f, l
    <3> QED BY <1>5, <2>1 DEF Looped
  <2> HIDE DEF f
  <2>3. \A r : ReplayRound(l, i, r) = AllocationStep(p, t, r, steps[i])
    BY DEF ReplayRound
  <2> HIDE DEF l, steps
  <2> QED BY <2>1, <2>2, <2>3
<1>9. \A i \in 0 .. n : Kept(i)
  <2> DEFINE B == {i \in 0 .. n : ~Kept(i)}
  <2> SUFFICES ASSUME B # {} PROVE FALSE
    OBVIOUS
  <2> HIDE DEF Kept
  <2>1. PICK i \in B : \A j \in B : i <= j
    <3>1. B \in SUBSET Nat
      BY <1>3
    <3> HIDE DEF B
    <3> QED BY <3>1, LeastNat
  <2>2. CASE i = 0
    <3>1. Kept(0)
      BY <1>6, <1>7 DEF Kept
    <3> QED BY <2>1, <2>2, <3>1
  <2>3. CASE i # 0
    <3>1. i \in 1 .. n /\ i - 1 \in 0 .. n /\ i - 1 < i
      BY <1>3, <2>1, <2>3
    <3>2. Kept(i - 1)
      BY <2>1, <3>1
    <3> HIDE DEF f
    <3>3. StepsKept(p, t, i, AllocationStep(p, t, f[1 .. (i - 1)], p.steps[t][i]))
      BY <1>3, <3>1, <3>2, AllocationKept DEF Kept, S
    <3>4. Kept(i)
      BY <1>8, <3>1, <3>3 DEF Kept
    <3> QED BY <2>1, <3>4
  <2> QED BY <2>2, <2>3
<1>10. StepsKept(p, t, n, f[S])
  BY <1>3, <1>9
<1> HIDE DEF f
<1> QED BY <1>1, <1>10 DEF StepsKept

\* A whole task.
LEMMA TaskShaped ==
  ASSUME NEW p \in Admitted, NEW t \in TaskIds(p), NEW r, ReplayShaped(p, r)
  PROVE  ReplayShaped(p, ReplayTask(p, r, t))
<1> DEFINE inputs == p.tasks[t].inputs \ ZeroSize(p)
           checked == IF inputs \subseteq DOMAIN r.active
                      THEN [r EXCEPT !.reads = Append(@, {r.active[a] : a \in inputs})]
                      ELSE [r EXCEPT !.ok = FALSE, !.reads = Append(@, {})]
           held == AcquireTaskAllocations(p, t, checked)
           freed == RetireFreed(t, held)
           published == PublishOutputs(p, t, PublishReplacements(p, t, PublishHandoffs(p, t, freed)))
           acted == FoldLeft(LAMBDA q, i : ReplayAction(p, q, i), published,
                             Ascending({i \in ActionIds(p) : p.actions[i].trigger = t}))
<1>1. ReplayTask(p, r, t) = acted
  BY DEF ReplayTask
<1>2. ReplayShaped(p, checked)
  <2> DEFINE known == Append(r.reads, {r.active[a] : a \in inputs})
  <2>1. ReplayShaped(p, [r EXCEPT !.reads = Append(r.reads, {r.active[a] : a \in inputs})])
    <3> SUFFICES ReplayShaped(p, [r EXCEPT !.reads = known])
      OBVIOUS
    <3> HIDE DEF known
    <3> QED BY DEF ReplayShaped
  <2>2. ReplayShaped(p, [r EXCEPT !.ok = FALSE, !.reads = Append(r.reads, {})])
    BY DEF ReplayShaped
  <2> HIDE DEF inputs
  <2> QED BY <2>1, <2>2
<1> HIDE DEF checked
<1>3. ReplayShaped(p, held) /\ held.freed \in Seq(Nat)
  BY <1>2, AllocationsShaped
<1> HIDE DEF held
<1>4. ReplayShaped(p, freed)
  BY <1>3, FreesShaped
<1> HIDE DEF freed
<1>5. ReplayShaped(p, PublishHandoffs(p, t, freed))
  BY <1>4, HandoffsShaped
<1>6. ReplayShaped(p, PublishReplacements(p, t, PublishHandoffs(p, t, freed)))
  BY <1>5, ReplacementsShaped
<1>7. ReplayShaped(p, published)
  BY <1>6, OutputsShaped
<1> HIDE DEF published
<1>8. ReplayShaped(p, acted)
  BY <1>7, ActionsShaped
<1> HIDE DEF acted
<1> QED BY <1>1, <1>8

\* The whole replay.
LEMMA ReplayIsShaped ==
  ASSUME NEW p \in Admitted
  PROVE  ReplayShaped(p, ReplayAdmission(p))
<1> DEFINE order == [t \in TaskIds(p) |-> t]
           base == AcquireInitialObjects(p)
           S == DOMAIN order
           l == [kind |-> "task", p |-> p, t |-> None, q |-> order, base |-> base]
           Is(f) == f = [s \in SUBSET S |->
                           IF s = {} THEN base
                           ELSE IF f[s \ {Max(s)}].ok
                                THEN ReplayTask(p, f[s \ {Max(s)}], order[Max(s)])
                                ELSE f[s \ {Max(s)}]]
           f == CHOOSE f : Is(f)
<1>1. ReplayAdmission(p) = f[S]
  BY DEF ReplayAdmission, FoldLeft, MapThenFoldSet
<1>2. \A g : Is(g) <=> Looped(l, S, g)
  BY DEF Looped, ReplayRound, NextOf
<1>3. S = 1 .. Len(p.tasks) /\ Len(p.tasks) \in Nat /\ S = TaskIds(p)
  BY FactsOf
<1>4. Loopable(l, S)
  BY <1>3, SequenceLoops
<1> HIDE DEF S, Is, base
<1>5. Looped(l, S, f)
  <2>1. \E g : Is(g)
    BY <1>2, <1>4, LoopExists
  <2> QED BY <1>2, <2>1
<1>6. ASSUME NEW x \in S, NEW r, ReplayShaped(p, r) PROVE ReplayShaped(p, ReplayRound(l, x, r))
  <2>1. order[x] \in TaskIds(p)
    BY <1>3
  <2>2. ReplayRound(l, x, r) = IF r.ok THEN ReplayTask(p, r, order[x]) ELSE r
    BY DEF ReplayRound
  <2>3. ReplayShaped(p, ReplayTask(p, r, order[x]))
    <3> DEFINE t == order[x]
    <3>1. t \in TaskIds(p)
      BY <2>1
    <3> HIDE DEF t
    <3> QED BY <1>6, <3>1, TaskShaped DEF t
  <2> QED BY <1>6, <2>2, <2>3
<1>7. l.base = base /\ ReplayShaped(p, base)
  BY InitialShaped DEF base
<1> HIDE DEF l, f
<1> QED BY <1>1, <1>4, <1>5, <1>6, <1>7, LoopKeeps

(***************************************************************************)
(* Fixed layouts.                                                          *)
(***************************************************************************)

\* The first simulation keeps its problem and measures intervals in numbers; the layout
\* that is judged next is the one of that problem and those intervals.
Measuring ==
  phase \in {"plan", "measured"} =>
    /\ job \in Problems
    /\ clock \in Nat
    /\ start \in [TaskIds(job) -> Nat] /\ end \in [TaskIds(job) -> Nat]
    /\ landed \in [ActionIds(job) -> Nat]
    /\ phase = "measured" => layout = MeasureFixedLayout(job)

\* A simulation stays with its problem.
LEMMA StepKeepsJob ==
  ASSUME Step
  PROVE  job' = job
<1>1. CASE TryStartTransfers
  BY <1>1 DEF TryStartTransfers
<1>2. CASE TryLaunchTasks
  BY <1>2 DEF TryLaunchTasks, LaunchTask
<1>3. CASE SubmitRelease \/ SubmitEvict \/ SubmitWriteBack \/ SubmitFetch
  BY <1>3 DEF SubmitRelease, SubmitEvict, SubmitWriteBack, SubmitFetch, Submitted, Stop
<1>4. CASE SubmitDone \/ AdvanceTime \/ EventsDone
  BY <1>4 DEF SubmitDone, AdvanceTime, EventsDone
<1>5. CASE CompleteFetch \/ CompleteEvict
  BY <1>5 DEF CompleteFetch, CompleteEvict, Landed, loop
<1>6. CASE CompleteTask
  BY <1>6 DEF CompleteTask
<1>7. CASE Deadlock \/ CheckFinalResidency
  BY <1>7 DEF Deadlock, CheckFinalResidency, Stop
<1> QED BY <1>1, <1>2, <1>3, <1>4, <1>5, <1>6, <1>7 DEF Step

\* A layout is a matter of the problem and the measured intervals.
LEMMA MeasureStays ==
  ASSUME job' = job, UNCHANGED times
  PROVE  MeasureFixedLayout(job)' = MeasureFixedLayout(job)
<1> DEFINE L == ReplayAdmission(job).leases
<1>1. clock' = clock /\ start' = start /\ end' = end /\ landed' = landed
  BY DEF times
<1>2. L' = L
  OBVIOUS
<1>3. Lifetimes(L)' = Lifetimes(L)
  BY <1>1, <1>2 DEF Lifetimes, PredictedStart, PredictedEnd
<1> QED BY <1>2, <1>3 DEF MeasureFixedLayout

\* The measured layout depends on nothing that a step without events changes.
LEMMA MeasuringInductive ==
  /\ FixedInit => Measuring
  /\ Measuring /\ [FixedNext]_fixedVars => Measuring'
<1>1. FixedInit => Measuring
  <2> SUFFICES ASSUME FixedInit PROVE Measuring
    OBVIOUS
  <2>1. job \in Problems /\ phase = "plan" /\ clock = 0
    BY DEF FixedInit, Init
  <2>2. /\ start \in [TaskIds(job) -> Nat] /\ end \in [TaskIds(job) -> Nat]
        /\ landed \in [ActionIds(job) -> Nat]
    BY DEF FixedInit
  <2> QED BY <2>1, <2>2 DEF Measuring
<1>2. Measuring /\ [FixedNext]_fixedVars => Measuring'
  <2> SUFFICES ASSUME Measuring, [FixedNext]_fixedVars PROVE Measuring'
    OBVIOUS
  <2>1. CASE Plan
    <3>1. phase = "plan" /\ phase' = "plan" /\ job' = job
      BY <2>1, StepKeepsJob DEF Plan
    <3>2. /\ job \in Problems /\ clock \in Nat
          /\ start \in [TaskIds(job) -> Nat] /\ end \in [TaskIds(job) -> Nat]
          /\ landed \in [ActionIds(job) -> Nat]
      BY <3>1 DEF Measuring
    <3>3. clock' \in Nat
      BY <2>1, <3>2 DEF Plan
    <3>4. start' \in [TaskIds(job) -> Nat] /\ end' \in [TaskIds(job) -> Nat]
      BY <2>1, <3>2 DEF Plan
    <3>5. landed' \in [ActionIds(job) -> Nat]
      BY <2>1, <3>2 DEF Plan
    <3> QED BY <3>1, <3>2, <3>3, <3>4, <3>5 DEF Measuring
  <2>2. CASE Measure
    <3>1. /\ phase = "plan" /\ phase' = "measured" /\ job' = job
          /\ clock' = clock /\ start' = start /\ end' = end /\ landed' = landed
          /\ UNCHANGED times /\ layout' = MeasureFixedLayout(job)
      BY <2>2 DEF Measure, vars, loop, times
    <3>2. MeasureFixedLayout(job)' = MeasureFixedLayout(job)
      BY <3>1, MeasureStays
    <3> QED BY <3>1, <3>2 DEF Measuring
  <2>3. CASE Certify
    <3>1. phase' \in {"refused", "infeasible", "causally-live", "run"}
      BY <2>3 DEF Certify, Verdict
    <3> QED BY <3>1 DEF Measuring
  <2>4. CASE Run
    <3>1. phase' = "run"
      BY <2>4 DEF Run
    <3> QED BY <3>1 DEF Measuring
  <2>5. CASE Ended \/ UNCHANGED fixedVars
    <3>1. /\ phase' = phase /\ job' = job /\ layout' = layout
          /\ clock' = clock /\ start' = start /\ end' = end /\ landed' = landed
          /\ UNCHANGED times
      BY <2>5 DEF Ended, fixedVars, vars, loop, times
    <3>2. MeasureFixedLayout(job)' = MeasureFixedLayout(job)
      BY <3>1, MeasureStays
    <3> QED BY <3>1, <3>2 DEF Measuring
  <2> QED BY <2>1, <2>2, <2>3, <2>4, <2>5 DEF FixedNext
<1> QED BY <1>1, <1>2

\* Leases that begin with a task and end with an event have lifetimes in numbers.
LEMMA LifetimesTyped ==
  ASSUME FactsValid, Measuring, phase \in {"plan", "measured"},
         NEW L, L = ReplayAdmission(job).leases
  PROVE  /\ DOMAIN L \in SUBSET Nat /\ IsFiniteSet(DOMAIN L)
         /\ Lives(Lifetimes(L), DOMAIN L)
         /\ \A k \in DOMAIN L : Lifetimes(L)[k].bytes = L[k].bytes
<1>1. /\ clock \in Nat
      /\ start \in [TaskIds(job) -> Nat] /\ end \in [TaskIds(job) -> Nat]
      /\ landed \in [ActionIds(job) -> Nat] /\ job \in Admitted
  BY DEF Measuring, FactsValid, Admitted
<1> DEFINE By == Enders(job)
           Lease == LeaseOf(job)
<1>2. L \in Seq(Lease)
  BY <1>1, ReplayIsShaped DEF ReplayShaped
<1>3. DOMAIN L = 1 .. Len(L) /\ Len(L) \in Nat /\ \A k \in DOMAIN L : L[k] \in Lease
  <2> HIDE DEF Lease
  <2> QED BY <1>2
<1>4. DOMAIN L \in SUBSET Nat /\ IsFiniteSet(DOMAIN L)
  <2>1. DOMAIN L = 1 .. Len(L) /\ Len(L) \in Nat
    BY <1>3
  <2>2. IsFiniteSet(1 .. Len(L)) /\ 1 .. Len(L) \in SUBSET Nat
    BY <2>1, FS_Interval
  <2> HIDE DEF Lease
  <2> QED BY <2>1, <2>2
<1>5. ASSUME NEW k \in DOMAIN L
      PROVE  /\ Lifetimes(L)[k].bytes = L[k].bytes /\ L[k].bytes \in Nat \ {0}
             /\ Lifetimes(L)[k].from \in Nat /\ Lifetimes(L)[k].to \in Nat
  <2>1. L[k] \in Lease
    BY <1>3
  <2>2. L[k].bytes \in Nat \ {0} /\ L[k].by \in By /\ L[k].purpose \in Purposes
    <3> HIDE DEF By
    <3> QED BY <2>1 DEF LeaseOf, LeaseFields, By
  <2>3. L[k].purpose # "initial" => L[k].task \in TaskIds(job)
    BY <2>1 DEF LeaseOf
  <2>4. PredictedStart(L[k]) \in Nat
    BY <1>1, <2>2, <2>3 DEF PredictedStart, Purposes
  <2>5. PredictedEnd(L[k]) \in Nat
    <3>1. CASE L[k].by = None
      BY <1>1, <3>1 DEF PredictedEnd
    <3>2. CASE L[k].by # None /\ L[k].by \in {"task"} \X TaskIds(job)
      <4>1. L[k].by[1] = "task" /\ L[k].by[2] \in TaskIds(job)
        BY <3>2
      <4> QED BY <1>1, <3>2, <4>1 DEF PredictedEnd
    <3>3. CASE L[k].by # None /\ L[k].by \in {"action"} \X ActionIds(job)
      <4>1. L[k].by[1] = "action" /\ L[k].by[2] \in ActionIds(job)
        BY <3>3
      <4> QED BY <1>1, <3>3, <4>1 DEF PredictedEnd
    <3> QED BY <2>2, <3>1, <3>2, <3>3 DEF Enders
  <2>6. Lifetimes(L)[k] = [bytes |-> L[k].bytes, from |-> PredictedStart(L[k]),
                           to |-> PredictedEnd(L[k])]
    BY DEF Lifetimes
  <2> HIDE DEF Lease, By
  <2> QED BY <2>2, <2>4, <2>5, <2>6
<1> QED BY <1>4, <1>5 DEF Lives

\* What a layout is made of, and where its leases are.
LEMMA MeasuredLayout ==
  ASSUME FactsValid, Measuring, phase = "measured",
         NEW L, L = layout.replay.leases, NEW life, life = Lifetimes(L),
         NEW at, at = layout.offsets
  PROVE  /\ DOMAIN at \subseteq DOMAIN L /\ at \in [DOMAIN at -> Nat]
         /\ layout.kept \subseteq DOMAIN at
         /\ \A l \in DOMAIN at : L[l].bytes \in Nat \ {0} /\ life[l].bytes = L[l].bytes
         /\ LayoutSound(life, job.align, DOMAIN at, layout.kept, at)
<1> DEFINE r == ReplayAdmission(job)
           R == r.leases
           years == Lifetimes(R)
           fixed == DOMAIN R \ DynamicLeases(job, r)
           kept == {l \in fixed : R[l].alias \in job.resident}
           places == PlaceResident(years, kept, job.align,
                                   PlaceLifetimes(years, fixed \ kept, job.align))
<1>1. layout = LayoutOf(job, r, years)
  BY DEF Measuring, MeasureFixedLayout
<1>2. L = R /\ at = places /\ layout.kept = kept
  <2> DEFINE dynamic == DynamicLeases(job, r)
             required == Required(years, places)
                           + FoldSet(LAMBDA l, n : n + R[l].bytes, 0, dynamic)
             refused == \/ ~r.ok
                        \/ ~(job.finalDev \ ZeroSize(job) \subseteq DOMAIN r.active)
                        \/ \E l \in dynamic : R[l].purpose \notin {"output", "fetch"}
  <2>1. layout = [replay |-> r, offsets |-> places, kept |-> kept, required |-> required,
                  refused |-> refused]
    BY <1>1, Zenon DEF LayoutOf
  <2> HIDE DEF r, places, kept, required, refused
  <2>2. layout.replay = r /\ layout.kept = kept /\ layout.offsets = places
    BY <2>1
  <2> QED BY <2>2
<1>3. life = years
  BY <1>2
<1>4. /\ DOMAIN R \in SUBSET Nat /\ IsFiniteSet(DOMAIN R)
      /\ Lives(years, DOMAIN R) /\ \A k \in DOMAIN R : years[k].bytes = R[k].bytes
  BY LifetimesTyped
<1>5. job.align \in Nat \ {0}
  BY DEF Measuring, FactsValid, FactsShaped
<1>6. kept \in SUBSET fixed
  OBVIOUS
<1>7. fixed \in SUBSET DOMAIN R
  OBVIOUS
<1> HIDE DEF r, R, years, fixed, kept
<1>8. fixed \in SUBSET Nat /\ IsFiniteSet(fixed) /\ Lives(years, fixed)
  <2>1. IsFiniteSet(fixed)
    BY <1>4, <1>7, FS_Subset
  <2> QED BY <1>4, <1>7, <2>1 DEF Lives
<1> DEFINE S == places
<1>9. S = PlaceResident(years, kept, job.align, PlaceLifetimes(years, fixed \ kept, job.align))
  OBVIOUS
<1> HIDE DEF S
<1>10. S \in [fixed -> Nat] /\ LayoutSound(years, job.align, fixed, kept, S)
  BY <1>5, <1>6, <1>8, <1>9, OffsetsSound
<1>11. at = S /\ DOMAIN S = fixed
  BY <1>2, <1>9, <1>10
<1>12. \A l \in fixed : R[l].bytes \in Nat \ {0} /\ years[l].bytes = R[l].bytes
  BY <1>4, <1>7 DEF Lives
<1> QED BY <1>2, <1>3, <1>6, <1>7, <1>10, <1>11, <1>12

\* place_lifetimes and the resident slice behind it: in every measured layout, of any
\* problem with valid facts and for whatever intervals the first simulation predicts, leases that are live
\* together share no byte, offsets are aligned, no lease fits any lower, and a resident
\* lease shares with nobody.
THEOREM LayoutPlacementSound ==
  ASSUME FactsValid
  PROVE  FixedSpec => []PlacementSound
<1>1. Measuring => PlacementSound
  <2> SUFFICES ASSUME Measuring, phase = "measured" PROVE PlacementSound
    BY DEF PlacementSound
  <2> DEFINE L == layout.replay.leases
             life == Lifetimes(L)
             at == layout.offsets
             ids == DOMAIN at
  <2>1. /\ ids \subseteq DOMAIN L /\ at \in [ids -> Nat] /\ layout.kept \subseteq ids
        /\ \A l \in ids : L[l].bytes \in Nat \ {0} /\ life[l].bytes = L[l].bytes
        /\ LayoutSound(life, job.align, ids, layout.kept, at)
    BY MeasuredLayout
  <2>2. \A l \in ids : BytesOf(layout, l) = at[l] .. (at[l] + L[l].bytes - 1)
    BY DEF BytesOf
  <2> HIDE DEF L, life, at
  <2>3. ASSUME NEW l \in ids, NEW k \in ids \ {l}, Coincide(life[l], life[k]) \/ l \in layout.kept
        PROVE  BytesOf(layout, l) \cap BytesOf(layout, k) = {}
    <3>1. Apart(life, at, k, l)
      BY <2>1, <2>3 DEF LayoutSound
    <3>2. /\ at[l] \in Nat /\ at[k] \in Nat /\ L[l].bytes \in Nat /\ L[k].bytes \in Nat
          /\ life[l].bytes = L[l].bytes /\ life[k].bytes = L[k].bytes
      BY <2>1
    <3>3. at[k] + L[k].bytes <= at[l] \/ at[l] + L[l].bytes <= at[k]
      BY <3>1, <3>2 DEF Apart
    <3>4. /\ BytesOf(layout, l) = at[l] .. (at[l] + L[l].bytes - 1)
          /\ BytesOf(layout, k) = at[k] .. (at[k] + L[k].bytes - 1)
      BY <2>2
    <3> QED BY <3>2, <3>3, <3>4
  <2>4. ASSUME NEW l \in ids, l \notin layout.kept,
               NEW low \in Nat, low < at[l], low % job.align = 0
        PROVE  \E k \in ids \ (layout.kept \cup {l}) :
                 /\ Coincide(life[l], life[k])
                 /\ BytesOf(layout, k) \cap (low..(low + life[l].bytes - 1)) # {}
    <3>1. PICK k \in ids \ (layout.kept \cup {l}) : Blocks(life, at, k, l, low)
      BY <2>1, <2>4 DEF LayoutSound
    <3>2. /\ at[k] \in Nat /\ L[k].bytes \in Nat \ {0} /\ life[l].bytes \in Nat \ {0}
          /\ life[k].bytes = L[k].bytes
      BY <2>1
    <3>3. /\ Coincide(life[l], life[k])
          /\ at[k] < low + life[l].bytes /\ low < at[k] + L[k].bytes
      BY <3>1, <3>2 DEF Blocks
    <3>4. BytesOf(layout, k) = at[k] .. (at[k] + L[k].bytes - 1)
      BY <2>2
    <3>5. (at[k] .. (at[k] + L[k].bytes - 1)) \cap (low..(low + life[l].bytes - 1)) # {}
      <4> HIDE DEF ids
      <4> QED BY <3>2, <3>3, CrossingMeets
    <3> QED BY <3>3, <3>4, <3>5
  <2>5. \A l \in ids : at[l] % job.align = 0
    BY <2>1 DEF LayoutSound
  <2>6. \A l \in ids : \A low \in {o \in 0..(at[l] - 1) : o % job.align = 0} :
          low \in Nat /\ low < at[l] /\ low % job.align = 0
    BY <2>1
  <2> QED BY <2>3, <2>4, <2>5, <2>6, Zenon DEF PlacementSound, L, life, at
<1>2. FixedInit => Measuring
  BY MeasuringInductive
<1>3. Measuring /\ [FixedNext]_fixedVars => Measuring'
  BY MeasuringInductive
<1> QED BY <1>1, <1>2, <1>3, PTL DEF FixedSpec

(***************************************************************************)
(* The search.  Plans are cut; the program and its facts stay.  The        *)
(* pressure is a sum over all groups of which a cut changes one summand.   *)
(***************************************************************************)
\* A stay on the device; stays that do not overlap.
Spans == {s \in [start : Nat, end : Nat] : s.start <= s.end}
Parted(S) == \A s, u \in S : s = u \/ s.end < u.start \/ u.end < s.start

\* The program the search plans for: its schedule comes and goes.
Planning ==
  /\ ProblemFields \subseteq DOMAIN job
  /\ IsFiniteSet(Groups(job)) /\ job.size \in [Groups(job) -> Nat]
  /\ Len(job.tasks) \in Nat
  /\ facts.boundaries = 0 .. Len(job.tasks)
  /\ \A b \in facts.boundaries : facts.capacity[b] \in Int
  /\ \A a \in Groups(job) : facts.anchors[a] \subseteq facts.boundaries

\* A residency plan: every group's stays, apart from each other.
Planned(pl) ==
  /\ pl \in [Groups(job) -> SUBSET Spans]
  /\ \A a \in Groups(job) : Parted(pl[a])

\* What each group adds to the pressure at a boundary.
Shares(pl, b) ==
  [a \in Groups(job) |-> IF Contributes(pl, a, b, Headroom) THEN job.size[a] ELSE 0]

\* The pressure is the sum of the shares of the plan.
SearchInv ==
  /\ Planning /\ Planned(plan)
  /\ pressure = [b \in Boundaries |-> Total(Shares(plan, b), Groups(job))]

\* What a program without a fetch in front of its first task gives the search.
Entered ==
  /\ Len(job.tasks) >= 1
  /\ \A a \in Groups(job) :
       /\ 0 \in facts.anchors[a] => a \in job.initDev
       /\ \A e \in facts.events[a] :
            \E t \in 1 .. Len(job.tasks) :
              e = <<t - 1, t>> \/ (e = <<t, t>> /\ t \in facts.productions[a])

\* The facts of a problem, and of one whose first task has its inputs.
LEMMA BuiltFacts ==
  ASSUME Shaped(job), facts = BuildFacts(job)
  PROVE  Planning /\ (EntersResident(job) => Entered)
<1> DEFINE N == Len(job.tasks)
<1>1. N \in Nat /\ TaskIds(job) = 1 .. N
  BY DEF Shaped, TaskIds
<1>2. ASSUME NEW a \in Groups(job)
      PROVE  /\ AnchorsOf(job, a) \subseteq 0 .. N
             /\ N >= 1 /\ 0 \in AnchorsOf(job, a) => a \in job.initDev \/ a \in job.tasks[1].inputs
             /\ \A e \in AccessEvents(job, a) : \E t \in 1 .. N :
                  e = <<t - 1, t>> \/ (e = <<t, t>> /\ t \in ProducedAt(job, a))
  <2>1. \A e \in AccessEvents(job, a) :
          \E t \in 1 .. N : \/ e = <<t - 1, t>> /\ a \in job.tasks[t].inputs
                            \/ e = <<t, t>> /\ t \in ProducedAt(job, a)
    BY <1>1 DEF AccessEvents, ProducedAt
  <2>2. \A e \in AccessEvents(job, a) :
          e[1] \in 0 .. N /\ (e[1] = 0 => a \in job.tasks[1].inputs)
    <3> TAKE e \in AccessEvents(job, a)
    <3>1. PICK t \in 1 .. N : \/ e = <<t - 1, t>> /\ a \in job.tasks[t].inputs
                              \/ e = <<t, t>> /\ t \in ProducedAt(job, a)
      BY <2>1
    <3>2. CASE e = <<t - 1, t>> /\ a \in job.tasks[t].inputs
      <4>1. e[1] = t - 1
        BY <3>2
      <4>2. e[1] = 0 => t = 1
        BY <4>1, <1>1
      <4> QED BY <1>1, <3>2, <4>1, <4>2
    <3>3. CASE e = <<t, t>>
      BY <1>1, <3>3
    <3> QED BY <3>1, <3>2, <3>3
  <2>3. WrittenAt(job, a) \subseteq 1 .. N
    BY <1>1 DEF WrittenAt
  <2>4. AnchorsOf(job, a) \subseteq 0 .. N
    BY <1>1, <2>2, <2>3 DEF AnchorsOf
  <2>5. N >= 1 /\ 0 \in AnchorsOf(job, a) => a \in job.initDev \/ a \in job.tasks[1].inputs
    <3> SUFFICES ASSUME N >= 1, 0 \in AnchorsOf(job, a), a \notin job.initDev
                 PROVE  a \in job.tasks[1].inputs
      OBVIOUS
    <3>1. \E e \in AccessEvents(job, a) : e[1] = 0
      BY <1>1, <2>3 DEF AnchorsOf
    <3> QED BY <2>2, <3>1
  <2> QED BY <2>1, <2>4, <2>5
<1>3. /\ facts.boundaries = 0 .. N
      /\ facts.anchors = [a \in Groups(job) |-> IF job.size[a] = 0 THEN {} ELSE AnchorsOf(job, a)]
      /\ facts.events = [a \in Groups(job) |-> IF job.size[a] = 0 THEN {} ELSE AccessEvents(job, a)]
      /\ facts.productions = [a \in Groups(job) |-> IF job.size[a] = 0 THEN {} ELSE ProducedAt(job, a)]
  BY DEF BuildFacts
<1>4. ASSUME NEW b \in 0 .. N
      PROVE  facts.capacity[b] \in Int
  <2> DEFINE S == {b + 1} \cap TaskIds(job)
             w == [t \in TaskIds(job) |-> job.tasks[t].work]
  <2>1. facts.capacity[b] = job.devCap - Total(w, S)
    BY DEF BuildFacts
  <2>2. IsFiniteSet(S)
    BY FS_Singleton, FS_Subset
  <2>3. \A t \in S : w[t] \in Nat
    <3> SUFFICES ASSUME NEW t \in TaskIds(job) PROVE job.tasks[t].work \in Nat
      OBVIOUS
    <3> DEFINE T == [inputs : SUBSET Groups(job), outputs : SUBSET Groups(job),
                     mutations : SUBSET Groups(job), deps : SUBSET Nat, lane : Nat, work : Nat]
    <3>1. job.tasks \in Seq(T)
      BY DEF Shaped
    <3>2. job.tasks[t] \in T
      <4> HIDE DEF T
      <4> QED BY <1>1, <3>1
    <3> QED BY <3>2
  <2>4. Total(w, S) \in Nat
    <3> HIDE DEF w, S
    <3> QED BY <2>2, <2>3, TotalType
  <2>5. job.devCap \in Nat
    BY DEF Shaped
  <2> HIDE DEF w, S
  <2> QED BY <2>1, <2>4, <2>5
<1>5. Planning
  <2>1. ProblemFields \subseteq DOMAIN job /\ IsFiniteSet(Groups(job)) /\ job.size \in [Groups(job) -> Nat]
    BY DEF Shaped
  <2>2. \A a \in Groups(job) : facts.anchors[a] \subseteq 0 .. N
    BY <1>2, <1>3
  <2>3. \A b \in facts.boundaries : facts.capacity[b] \in Int
    BY <1>3, <1>4
  <2> QED BY <1>1, <1>3, <2>1, <2>2, <2>3 DEF Planning
<1>6. ASSUME EntersResident(job)
      PROVE  Entered
  <2>1. N >= 1
    BY <1>1, <1>6 DEF EntersResident, Shaped
  <2>2. ASSUME NEW a \in Groups(job), 0 \in facts.anchors[a]
        PROVE  a \in job.initDev
    <3>1. job.size[a] # 0 /\ 0 \in AnchorsOf(job, a)
      BY <1>3, <2>2
    <3>2. a \in job.initDev \/ a \in job.tasks[1].inputs
      BY <1>2, <2>1, <3>1
    <3> QED BY <1>6, <3>1, <3>2 DEF EntersResident, Sized, ZeroSize
  <2>3. ASSUME NEW a \in Groups(job), NEW e \in facts.events[a]
        PROVE  \E t \in 1 .. N : e = <<t - 1, t>> \/ (e = <<t, t>> /\ t \in facts.productions[a])
    <3>1. job.size[a] # 0 /\ e \in AccessEvents(job, a) /\ facts.productions[a] = ProducedAt(job, a)
      BY <1>3, <2>3
    <3> QED BY <1>2, <3>1
  <2> QED BY <2>1, <2>2, <2>3 DEF Entered
<1> QED BY <1>5, <1>6

\* A schedule that is built anew leaves the program alone.
LEMMA Rebuilt ==
  ASSUME Planning, NEW actions, job' = [job EXCEPT !.actions = actions]
  PROVE  /\ ProblemFields \subseteq DOMAIN job'
         /\ Groups(job)' = Groups(job) /\ job'.size = job.size /\ job'.tasks = job.tasks
         /\ job'.finalDev = job.finalDev /\ job'.initDev = job.initDev
BY DEF Planning, ProblemFields, Groups

\* The seed gives every group one stay at most, from first to last anchor.
LEMMA Seeded ==
  ASSUME Planning
  PROVE  /\ Planned(Seed)
         /\ \A a \in Groups(job) : \/ Seed[a] = {}
                                   \/ \E s \in Spans : Seed[a] = {s}
<1>1. ASSUME NEW a \in Groups(job)
      PROVE  Seed[a] = {} \/ \E s \in Spans : Seed[a] = {s}
  <2>1. facts.anchors[a] \in SUBSET (0 .. Len(job.tasks)) /\ Len(job.tasks) \in Nat
    BY DEF Planning
  <2> DEFINE H == facts.anchors[a]
             s == [start |-> Min(H), end |-> Max(H)]
  <2>2. CASE H = {}
    BY <2>2 DEF Seed
  <2>3. CASE H # {}
    <3>1. Min(H) \in H /\ Max(H) \in H /\ Min(H) <= Max(H)
      BY <2>1, <2>3, Extremes
    <3>2. s \in Spans
      BY <2>1, <3>1 DEF Spans
    <3> QED BY <2>3, <3>2 DEF Seed
  <2> QED BY <2>2, <2>3
<1>2. Seed = [a \in Groups(job) |-> Seed[a]]
  <2> DEFINE E(a) == LET H == facts.anchors[a]
                     IN  IF H = {} THEN {} ELSE {[start |-> Min(H), end |-> Max(H)]}
  <2>1. Seed = [a \in Groups(job) |-> E(a)]
    BY DEF Seed
  <2> HIDE DEF E
  <2> QED BY <2>1
<1>3. \A a \in Groups(job) : Seed[a] \in SUBSET Spans /\ Parted(Seed[a])
  BY <1>1 DEF Parted
<1>4. Seed \in [Groups(job) -> SUBSET Spans]
  BY <1>2, <1>3
<1> QED BY <1>1, <1>3, <1>4 DEF Planned

\* Shares are bytes.
LEMMA SharesTyped ==
  ASSUME Planning, NEW pl, NEW b
  PROVE  \A a \in Groups(job) : Shares(pl, b)[a] \in Nat
BY DEF Planning, Shares

\* Before a cut every group has one span at most, and the sweep counts it once.
LEMMA SweepShares ==
  ASSUME Planning, NEW headroom, headroom = Headroom
  PROVE  PressureSweep(Seed, headroom)
           = [b \in Boundaries |-> Total(Shares(Seed, b), Groups(job))]
<1> DEFINE Charges(a, b) == {s \in Seed[a] : b \in ChargedSpan(a, s, headroom)}
           Fresh(b) == {a \in facts.reserved[b] : Charges(a, b) = {}}
           W(b) == [a \in Groups(job) |->
                      job.size[a] * (Cardinality(Charges(a, b))
                                       + (IF a \in Fresh(b) THEN 1 ELSE 0))]
<1>1. ASSUME NEW b \in Boundaries, NEW a \in Groups(job)
      PROVE  W(b)[a] = Shares(Seed, b)[a]
  <2>1. job.size[a] \in Nat
    BY DEF Planning
  <2>2. Seed[a] = {} \/ \E s \in Spans : Seed[a] = {s}
    BY Seeded
  <2>3. Charges(a, b) = {} \/ \E s \in Spans : Charges(a, b) = {s}
    BY <2>2
  <2>4. Charged(Seed, a, b, headroom) <=> Charges(a, b) # {}
    BY DEF Charged
  <2>5. W(b)[a] = job.size[a] * (Cardinality(Charges(a, b))
                                       + (IF a \in Fresh(b) THEN 1 ELSE 0))
    OBVIOUS
  <2>6. Shares(Seed, b)[a] = IF a \in facts.reserved[b] \/ Charges(a, b) # {}
                             THEN job.size[a] ELSE 0
    BY <2>4 DEF Shares, Contributes
  <2>7. CASE Charges(a, b) = {}
    <3>1. Cardinality(Charges(a, b)) = 0
      BY <2>7, FS_EmptySet
    <3>2. a \in Fresh(b) <=> a \in facts.reserved[b]
      BY <2>7
    <3> HIDE DEF Charges, Fresh, W
    <3> QED BY <2>1, <2>5, <2>6, <2>7, <3>1, <3>2
  <2>8. CASE Charges(a, b) # {}
    <3>1. Cardinality(Charges(a, b)) = 1
      <4> HIDE DEF Charges
      <4> QED BY <2>3, <2>8, FS_Singleton
    <3>2. a \notin Fresh(b)
      BY <2>8
    <3> HIDE DEF Charges, Fresh, W
    <3> QED BY <2>1, <2>5, <2>6, <2>8, <3>1, <3>2
  <2> QED BY <2>7, <2>8
<1>2. PressureSweep(Seed, headroom) = [b \in Boundaries |-> Total(W(b), Groups(job))]
  BY DEF PressureSweep
<1>3. \A b \in Boundaries : Total(W(b), Groups(job)) = Total(Shares(Seed, b), Groups(job))
  <2> HIDE DEF W
  <2>1. IsFiniteSet(Groups(job))
    BY DEF Planning
  <2> QED BY <1>1, <2>1, TotalAgree
<1> HIDE DEF W
<1> QED BY <1>2, <1>3


\* The anchor-free run around a boundary of a span that is no anchor.
LEMMA GapFound ==
  ASSUME NEW a, NEW s \in Spans, NEW b \in s.start .. s.end, b \notin facts.anchors[a]
  PROVE  LET g == GapContaining(a, s, b)
         IN  /\ g[1] \in s.start .. b /\ g[2] \in b .. s.end
             /\ (g[1] .. g[2]) \cap facts.anchors[a] = {}
             /\ \A l \in s.start .. b, h \in b .. s.end :
                  (l .. h) \cap facts.anchors[a] = {} => g[1] <= l /\ h <= g[2]
<1> DEFINE A == facts.anchors[a]
           I == s.start .. s.end
           Runs == {g \in I \X I : g[1] <= b /\ b <= g[2] /\ (g[1] .. g[2]) \cap A = {}}
           Lows == {l \in s.start .. b : (l .. b) \cap A = {}}
           Highs == {h \in b .. s.end : (b .. h) \cap A = {}}
<1>1. s.start \in Nat /\ s.end \in Nat /\ b \in Nat /\ s.start <= b /\ b <= s.end
  BY DEF Spans
<1>2. PICK lo \in Lows : \A l \in Lows : lo <= l
  <2>1. Lows \in SUBSET Nat /\ b \in Lows
    BY <1>1
  <2> HIDE DEF Lows
  <2> QED BY <2>1, LeastNat
<1>3. PICK hi \in Highs : \A h \in Highs : h <= hi
  <2>1. Highs \in SUBSET (0 .. s.end) /\ b \in Highs
    BY <1>1
  <2> HIDE DEF Highs
  <2> QED BY <1>1, <2>1, Extremes
<1> DEFINE top == <<lo, hi>>
<1>4. top \in Runs
  <2>1. lo \in I /\ hi \in I /\ lo <= b /\ b <= hi
    BY <1>1
  <2>2. (lo .. hi) \cap A = {}
    <3> SUFFICES ASSUME NEW x \in lo .. hi, x \in A PROVE FALSE
      OBVIOUS
    <3>1. x \in lo .. b \/ x \in b .. hi
      BY <1>1
    <3> QED BY <3>1
  <2> QED BY <2>1, <2>2
<1>5. ASSUME NEW h \in Runs
      PROVE  top[1] <= h[1] /\ h[2] <= top[2]
  <2>1. h[1] \in I /\ h[2] \in I /\ h[1] <= b /\ b <= h[2] /\ (h[1] .. h[2]) \cap A = {}
    OBVIOUS
  <2>2. h[1] \in Lows
    BY <1>1, <2>1
  <2>3. h[2] \in Highs
    BY <1>1, <2>1
  <2> QED BY <1>2, <1>3, <2>2, <2>3
<1> DEFINE g == GapContaining(a, s, b)
<1>6. g = CHOOSE x \in Runs : \A h \in Runs : x[1] <= h[1] /\ h[2] <= x[2]
  BY DEF GapContaining
<1>7. g \in Runs /\ \A h \in Runs : g[1] <= h[1] /\ h[2] <= g[2]
  <2> HIDE DEF Runs, g, top
  <2> QED BY <1>4, <1>5, <1>6
<1>8. ASSUME NEW l \in s.start .. b, NEW h \in b .. s.end, (l .. h) \cap A = {}
      PROVE  g[1] <= l /\ h <= g[2]
  <2>1. <<l, h>> \in Runs
    BY <1>1, <1>8
  <2> HIDE DEF g, Runs
  <2>2. g[1] <= <<l, h>>[1] /\ <<l, h>>[2] <= g[2]
    BY <1>7, <2>1
  <2> QED BY <2>2
<1>9. g[1] \in s.start .. b /\ g[2] \in b .. s.end /\ (g[1] .. g[2]) \cap A = {}
  <2>1. g[1] \in I /\ g[2] \in I /\ g[1] <= b /\ b <= g[2] /\ (g[1] .. g[2]) \cap A = {}
    <3> HIDE DEF g
    <3> QED BY <1>7
  <2> HIDE DEF g
  <2> QED BY <1>1, <2>1
<1> HIDE DEF g
<1> QED BY <1>8, <1>9 DEF g

\* What a legal cut removes: boundaries of one span between two that stay, or none.
LEMMA CutFacts ==
  ASSUME Planning, NEW pl, Planned(pl), NEW b \in Nat, NEW cut \in LegalCuts(pl, b)
  PROVE  /\ cut.alias \in Groups(job) /\ cut.span \in pl[cut.alias] /\ cut.span \in Spans
         /\ SpanContains(cut.span, b)
         /\ \/ /\ b \in facts.anchors[cut.alias] /\ SplitsAfter(cut.alias, cut.span, b)
               /\ cut.start = b + 1 /\ cut.end = b
            \/ /\ b \notin facts.anchors[cut.alias]
               /\ cut.start = GapContaining(cut.alias, cut.span, b)[1]
               /\ cut.end = GapContaining(cut.alias, cut.span, b)[2]
         /\ cut.start \in Nat \ {0} /\ cut.end \in Nat
         /\ cut.span.start <= cut.start /\ cut.end <= cut.span.end
         /\ cut.start <= cut.end + 1
<1>1. PICK a \in Groups(job), s \in UNION {pl[x] : x \in Groups(job)} :
        /\ s \in pl[a]
        /\ SpanContains(s, b) /\ (b \in facts.anchors[a] => SplitsAfter(a, s, b))
        /\ cut.alias = a /\ cut.span = s
        /\ cut.start = (IF b \in facts.anchors[a] THEN <<b + 1, b>> ELSE GapContaining(a, s, b))[1]
        /\ cut.end = (IF b \in facts.anchors[a] THEN <<b + 1, b>> ELSE GapContaining(a, s, b))[2]
        /\ cut.start > 0
  BY DEF LegalCuts
<1>2. s \in Spans
  BY DEF Planned
<1>3. s.start \in Nat /\ s.end \in Nat /\ s.start <= b /\ b <= s.end
  BY <1>1, <1>2 DEF Spans, SpanContains
<1>4. CASE b \in facts.anchors[a]
  <2>1. cut.start = b + 1 /\ cut.end = b
    BY <1>1, <1>4
  <2>2. b < s.end
    BY <1>1, <1>4 DEF SplitsAfter
  <2> QED BY <1>1, <1>2, <1>3, <1>4, <2>1, <2>2
<1>5. CASE b \notin facts.anchors[a]
  <2>1. cut.start = GapContaining(a, s, b)[1] /\ cut.end = GapContaining(a, s, b)[2]
    BY <1>1, <1>5
  <2>2. /\ GapContaining(a, s, b)[1] \in s.start .. b
        /\ GapContaining(a, s, b)[2] \in b .. s.end
    BY <1>2, <1>3, <1>5, GapFound
  <2> QED BY <1>1, <1>2, <1>3, <1>5, <2>1, <2>2
<1> QED BY <1>4, <1>5

\* The spans a cut leaves of the one it cuts.
Pieces(cut) ==
  {s \in {[start |-> cut.span.start, end |-> cut.start - 1],
          [start |-> cut.end + 1, end |-> cut.span.end]} : s.start <= s.end}

\* A legal cut leaves a plan, and touches no other group.
LEMMA CutPlanned ==
  ASSUME Planning, NEW pl, Planned(pl), NEW b \in Nat, NEW cut \in LegalCuts(pl, b)
  PROVE  /\ Planned(ApplyCut(pl, cut)) /\ cut.alias \in Groups(job)
         /\ ApplyCut(pl, cut)[cut.alias] = (pl[cut.alias] \ {cut.span}) \cup Pieces(cut)
         /\ \A a \in Groups(job) \ {cut.alias} : ApplyCut(pl, cut)[a] = pl[a]
<1> DEFINE a == cut.alias
           new == (pl[a] \ {cut.span}) \cup Pieces(cut)
<1>1. /\ a \in Groups(job) /\ cut.span \in pl[a] /\ cut.span \in Spans
      /\ cut.start \in Nat \ {0} /\ cut.end \in Nat
      /\ cut.span.start <= cut.start /\ cut.end <= cut.span.end
      /\ cut.start <= cut.end + 1
  BY CutFacts
<1>2. cut.span.start \in Nat /\ cut.span.end \in Nat
  BY <1>1 DEF Spans
<1>3. ASSUME NEW x \in Pieces(cut)
      PROVE  /\ x \in Spans /\ cut.span.start <= x.start /\ x.end <= cut.span.end
             /\ x.end < cut.start \/ x.start > cut.end
             /\ \/ x = [start |-> cut.span.start, end |-> cut.start - 1]
                \/ x = [start |-> cut.end + 1, end |-> cut.span.end]
  <2>1. CASE x = [start |-> cut.span.start, end |-> cut.start - 1] /\ x.start <= x.end
    <3>1. x.start = cut.span.start /\ x.end = cut.start - 1
      BY <2>1
    <3>2. x \in Spans
      BY <1>1, <1>2, <2>1 DEF Spans
    <3> QED BY <1>1, <1>2, <2>1, <3>1, <3>2
  <2>2. CASE x = [start |-> cut.end + 1, end |-> cut.span.end] /\ x.start <= x.end
    <3>1. x.start = cut.end + 1 /\ x.end = cut.span.end
      BY <2>2
    <3>2. x \in Spans
      BY <1>1, <1>2, <2>2 DEF Spans
    <3> QED BY <1>1, <1>2, <2>2, <3>1, <3>2
  <2> QED BY <2>1, <2>2 DEF Pieces
<1>4. Parted(new)
  <2> SUFFICES ASSUME NEW s \in new, NEW u \in new, s # u
               PROVE  s.end < u.start \/ u.end < s.start
    BY DEF Parted
  <2>1. Parted(pl[a]) /\ pl[a] \subseteq Spans
    BY <1>1 DEF Planned
  <2>2. CASE s \in pl[a] \ {cut.span} /\ u \in pl[a] \ {cut.span}
    BY <2>1, <2>2 DEF Parted
  <2>3. ASSUME NEW x \in pl[a] \ {cut.span}, NEW y \in Pieces(cut)
        PROVE  x.end < y.start \/ y.end < x.start
    <3>1. x.end < cut.span.start \/ cut.span.end < x.start
      BY <1>1, <2>1 DEF Parted
    <3>2. x.start \in Nat /\ x.end \in Nat /\ y.start \in Nat /\ y.end \in Nat
      BY <1>3, <2>1 DEF Spans
    <3> QED BY <1>2, <1>3, <3>1, <3>2
  <2>4. CASE s \in Pieces(cut) /\ u \in Pieces(cut)
    <3>1. \/ s.end = cut.start - 1 /\ u.start = cut.end + 1
          \/ u.end = cut.start - 1 /\ s.start = cut.end + 1
      BY <1>3, <2>4
    <3> QED BY <1>1, <3>1
  <2> QED BY <2>2, <2>3, <2>4
<1>5. new \in SUBSET Spans
  <2>1. pl[a] \in SUBSET Spans
    BY <1>1 DEF Planned
  <2> QED BY <1>3, <2>1
<1>6. ApplyCut(pl, cut) = [pl EXCEPT ![a] = new]
  BY DEF ApplyCut, Pieces
<1>7. pl \in [Groups(job) -> SUBSET Spans] /\ \A x \in Groups(job) : Parted(pl[x])
  BY DEF Planned
<1>8. /\ ApplyCut(pl, cut) \in [Groups(job) -> SUBSET Spans]
      /\ ApplyCut(pl, cut)[a] = new
      /\ \A x \in Groups(job) \ {a} : ApplyCut(pl, cut)[x] = pl[x]
  <2> HIDE DEF new
  <2> QED BY <1>1, <1>5, <1>6, <1>7
<1> HIDE DEF new
<1>9. Planned(ApplyCut(pl, cut))
  BY <1>4, <1>7, <1>8 DEF Planned
<1> QED BY <1>1, <1>8, <1>9 DEF new


\* A change of one group's spans changes the shares of that group only.
LEMMA PressureMoves ==
  ASSUME Planning, NEW pl, NEW new, NEW a \in Groups(job), NEW headroom, headroom = Headroom,
         \A x \in Groups(job) \ {a} : new[x] = pl[x],
         pressure = [b \in Boundaries |-> Total(Shares(pl, b), Groups(job))]
  PROVE  PressureAfter(pl, new, a, headroom)
           = [b \in Boundaries |-> Total(Shares(new, b), Groups(job))]
<1> DEFINE G == Groups(job)
           S(b) == Shares(pl, b)
           T(b) == Shares(new, b)
<1>1. IsFiniteSet(G) /\ IsFiniteSet(G \ {a}) /\ job.size[a] \in Nat
  BY FS_Subset DEF Planning
<1>2. ASSUME NEW b \in Boundaries
      PROVE  pressure[b] + T(b)[a] - S(b)[a] = Total(T(b), G)
  <2>1. \A x \in G \ {a} : S(b)[x] = T(b)[x]
    BY DEF Shares, Contributes, Charged
  <2>2. (\A x \in G : S(b)[x] \in Nat) /\ \A x \in G : T(b)[x] \in Nat
    BY SharesTyped
  <2>3. pressure[b] = Total(S(b), G)
    OBVIOUS
  <2> HIDE DEF S, T, G
  <2>4. Total(S(b), G) = S(b)[a] + Total(S(b), G \ {a})
    BY <1>1, <2>2, TotalRemove DEF G
  <2>5. Total(T(b), G) = T(b)[a] + Total(T(b), G \ {a})
    BY <1>1, <2>2, TotalRemove DEF G
  <2>6. Total(S(b), G \ {a}) = Total(T(b), G \ {a})
    BY <1>1, <2>1, TotalAgree
  <2>7. Total(S(b), G \ {a}) \in Nat
    BY <1>1, <2>2, TotalType
  <2>8. S(b)[a] \in Nat /\ T(b)[a] \in Nat
    BY <2>2 DEF G
  <2> QED BY <2>3, <2>4, <2>5, <2>6, <2>7, <2>8
<1>3. PressureAfter(pl, new, a, headroom)
        = [b \in Boundaries |-> pressure[b] + T(b)[a] - S(b)[a]]
  BY DEF PressureAfter, Shares
<1> HIDE DEF S, T, G
<1>4. PressureAfter(pl, new, a, headroom) = [b \in Boundaries |-> Total(T(b), G)]
  BY <1>2, <1>3
<1> QED BY <1>4 DEF T, G

\* The groups the scalar definition counts are charged; without headroom the
\* two agree, for one span at most reaches a boundary.
LEMMA ScalarCharged ==
  ASSUME Planning, NEW pl, Planned(pl), NEW a \in Groups(job), NEW b \in Boundaries,
         NEW headroom \in BOOLEAN
  PROVE  /\ BoundaryCharged(pl, a, b, headroom) => Charged(pl, a, b, headroom)
         /\ ~headroom => (BoundaryCharged(pl, a, b, headroom) <=> Charged(pl, a, b, headroom))
<1> DEFINE here == {s \in pl[a] : EffectiveStart(a, s, headroom) <= b /\ b <= s.end}
           Kept(s) == \/ b = 0 \/ s.end # b \/ a \in job.finalDev
                      \/ \E e \in EventsIn(a, s) : e[2] > b
<1>1. b \in Nat
  BY DEF Planning, Boundaries
<1>2. pl[a] \subseteq Spans /\ Parted(pl[a])
  BY DEF Planned
<1>3. ASSUME NEW s \in here
      PROVE  b \in ChargedSpan(a, s, headroom) <=> Kept(s)
  <2>1. s.start \in Nat /\ s.end \in Nat /\ s.start <= s.end
    BY <1>2 DEF Spans
  <2>2. EffectiveStart(a, s, headroom) \in Nat
    BY <2>1 DEF EffectiveStart
  <2>3. EffectiveStart(a, s, headroom) <= b /\ b <= s.end
    OBVIOUS
  <2>4. CASE s.end = b
    <3>1. ChargedUntil(a, s) = IF Kept(s) THEN s.end ELSE s.end - 1
      BY <1>1, <2>1, <2>4 DEF ChargedUntil
    <3> HIDE DEF Kept
    <3> QED BY <1>1, <2>1, <2>2, <2>3, <2>4, <3>1 DEF ChargedSpan
  <2>5. CASE s.end # b
    <3>1. ChargedUntil(a, s) \in {s.end, s.end - 1}
      BY DEF ChargedUntil
    <3> QED BY <1>1, <2>1, <2>2, <2>3, <2>5, <3>1 DEF ChargedSpan
  <2> QED BY <2>4, <2>5
<1>4. ASSUME NEW s \in pl[a], b \in ChargedSpan(a, s, headroom)
      PROVE  s \in here
  <2>1. s.start \in Nat /\ s.end \in Nat
    BY <1>2 DEF Spans
  <2>2. ChargedUntil(a, s) \in {s.end, s.end - 1}
    BY DEF ChargedUntil
  <2>3. EffectiveStart(a, s, headroom) \in Nat \cup {-1}
    BY <2>1 DEF EffectiveStart
  <2> QED BY <1>1, <1>4, <2>1, <2>2, <2>3 DEF ChargedSpan
<1> DEFINE first == CHOOSE u \in here : \A v \in here : u.start <= v.start
<1>5. BoundaryCharged(pl, a, b, headroom) <=> here # {} /\ Kept(first)
  BY DEF BoundaryCharged
<1>6. ASSUME here # {}
      PROVE  first \in here
  <2> DEFINE N == {u.start : u \in here}
  <2>1. N \in SUBSET Nat /\ N # {}
    BY <1>2, <1>6 DEF Spans
  <2>2. PICK n \in N : \A m \in N : n <= m
    <3> HIDE DEF N
    <3> QED BY <2>1, LeastNat
  <2>3. PICK u \in here : u.start = n
    BY <2>2
  <2>4. \A v \in here : u.start <= v.start
    BY <2>2, <2>3
  <2> HIDE DEF here
  <2> QED BY <2>4
<1>7. BoundaryCharged(pl, a, b, headroom) => Charged(pl, a, b, headroom)
  <2> SUFFICES ASSUME here # {}, Kept(first)
               PROVE  Charged(pl, a, b, headroom)
    BY <1>5
  <2>1. first \in here
    BY <1>6
  <2>2. first \in pl[a]
    <3> HIDE DEF first
    <3> QED BY <2>1
  <2>3. b \in ChargedSpan(a, first, headroom)
    <3> HIDE DEF first, here, Kept
    <3> QED BY <1>3, <2>1
  <2> HIDE DEF first
  <2> QED BY <2>2, <2>3 DEF Charged
<1>8. ASSUME ~headroom, Charged(pl, a, b, headroom)
      PROVE  BoundaryCharged(pl, a, b, headroom)
  <2>1. PICK s \in pl[a] : b \in ChargedSpan(a, s, headroom)
    BY <1>8 DEF Charged
  <2>2. s \in here
    BY <1>4, <2>1
  <2>3. first \in here
    BY <1>6, <2>2
  <2>4. \A u \in here : u = s
    <3> TAKE u \in here
    <3>1. s.start <= b /\ b <= s.end /\ u.start <= b /\ b <= u.end
      BY <1>8, <2>2 DEF EffectiveStart
    <3>2. /\ s.start \in Nat /\ s.end \in Nat /\ u.start \in Nat /\ u.end \in Nat
      BY <1>2, <2>2 DEF Spans
    <3>3. u = s \/ s.end < u.start \/ u.end < s.start
      BY <1>2, <2>2 DEF Parted
    <3> QED BY <1>1, <3>1, <3>2, <3>3
  <2>5. first = s
    <3> HIDE DEF first, here
    <3> QED BY <2>3, <2>4
  <2>6. Kept(s)
    <3> HIDE DEF Kept, here
    <3> QED BY <1>3, <2>1, <2>2
  <2> HIDE DEF first, Kept, here
  <2> QED BY <1>5, <2>2, <2>5, <2>6
<1> QED BY <1>7, <1>8

\* The shares sum to the bytes of the groups that contribute.
LEMMA SharesSum ==
  ASSUME Planning, NEW pl, NEW b
  PROVE  LET C == {a \in Groups(job) : Contributes(pl, a, b, Headroom)}
         IN  Total(Shares(pl, b), Groups(job)) = Bytes(job, C)
<1> DEFINE G == Groups(job)
           C == {a \in G : Contributes(pl, a, b, Headroom)}
           w == job.size
           v == Shares(pl, b)
<1>1. IsFiniteSet(G) /\ C \in SUBSET G /\ \A a \in G : w[a] \in Nat
  BY DEF Planning
<1>2. \A a \in G : v[a] = IF a \in C THEN w[a] ELSE 0
  BY DEF Shares
<1>3. Total(v, G) = Total(w, C)
  <2> HIDE DEF G, C, w, v
  <2> QED BY <1>1, <1>2, TotalMasked
<1> QED BY <1>3 DEF Bytes

\* So the pressure of the invariant is the one the scalar definition gives.
LEMMA SharesExact ==
  ASSUME SearchInv
  PROVE  PressureExact
<1> SUFFICES ASSUME NEW b \in Boundaries
             PROVE  IF Headroom THEN pressure[b] >= BoundaryBytes(plan, b, TRUE)
                    ELSE pressure[b] = BoundaryBytes(plan, b, FALSE)
  BY DEF PressureExact
<1> DEFINE G == Groups(job)
           C == {a \in G : Contributes(plan, a, b, Headroom)}
           B(h) == {a \in G : BoundaryCharged(plan, a, b, h) \/ a \in facts.reserved[b]}
<1>1. Planning /\ Planned(plan) /\ pressure[b] = Total(Shares(plan, b), G)
  BY DEF SearchInv
<1>2. pressure[b] = Bytes(job, C)
  BY <1>1, SharesSum
<1>3. \A h \in BOOLEAN : BoundaryBytes(plan, b, h) = Bytes(job, B(h))
  BY DEF BoundaryBytes
<1>4. CASE Headroom
  <2>1. Headroom = TRUE
    BY <1>4 DEF Headroom
  <2>2. B(TRUE) \subseteq C
    BY <1>1, <2>1, ScalarCharged DEF Contributes
  <2>3. Total(job.size, B(TRUE)) <= Total(job.size, C)
    <3>1. IsFiniteSet(C) /\ \A a \in C : job.size[a] \in Nat
      BY <1>1, FS_Subset DEF Planning
    <3> HIDE DEF C, B
    <3> QED BY <2>2, <3>1, TotalMore
  <2>4. Total(job.size, B(TRUE)) \in Nat /\ Total(job.size, C) \in Nat
    <3>1. IsFiniteSet(G) /\ \A a \in G : job.size[a] \in Nat
      BY <1>1 DEF Planning
    <3>2. C \in SUBSET G /\ B(TRUE) \in SUBSET G
      OBVIOUS
    <3> HIDE DEF C, B, G
    <3> QED BY <3>1, <3>2, TotalMore
  <2> HIDE DEF B, C
  <2> QED BY <1>2, <1>3, <1>4, <2>3, <2>4 DEF Bytes
<1>5. CASE ~Headroom
  <2>1. Headroom = FALSE
    BY <1>5 DEF Headroom
  <2>2. B(FALSE) = C
    BY <1>1, <2>1, ScalarCharged DEF Contributes
  <2> HIDE DEF B, C
  <2> QED BY <1>2, <1>3, <1>5, <2>2
<1> QED BY <1>4, <1>5


\* What a step keeps of the program when it only changes the schedule.
SameProgram ==
  /\ ProblemFields \subseteq DOMAIN job' /\ Groups(job)' = Groups(job)
  /\ job'.size = job.size /\ job'.tasks = job.tasks
  /\ job'.finalDev = job.finalDev /\ job'.initDev = job.initDev
  /\ facts' = facts /\ spec' = spec

\* Shares depend on the plan alone while the program is the same.
LEMMA SameShares ==
  ASSUME SameProgram, NEW pl, plan' = pl, NEW b
  PROVE  Shares(plan, b)' = Shares(pl, b)
<1>1. /\ Groups(job)' = Groups(job) /\ job'.size = job.size
      /\ job'.finalDev = job.finalDev /\ facts' = facts /\ spec' = spec
  BY DEF SameProgram
<1>2. ASSUME NEW a \in Groups(job)
      PROVE  Contributes(plan, a, b, Headroom)' <=> Contributes(pl, a, b, Headroom)
  BY <1>1 DEF Contributes, Charged, ChargedSpan, EffectiveStart, ChargedUntil, EventsIn, Headroom
<1> QED BY <1>1, <1>2 DEF Shares

\* A new plan with its own pressure keeps the invariant.
LEMMA KeepsSearchInv ==
  ASSUME SearchInv, SameProgram, NEW pl, plan' = pl, Planned(pl),
         pressure' = [b \in Boundaries |-> Total(Shares(pl, b), Groups(job))]
  PROVE  SearchInv'
<1>1. Planning'
  BY DEF SearchInv, SameProgram, Planning
<1>2. Planned(plan)'
  BY DEF SameProgram, Planned
<1>3. pressure' = [b \in Boundaries |-> Total(Shares(plan, b), Groups(job))]'
  <2>1. Boundaries' = Boundaries /\ Groups(job)' = Groups(job)
    BY DEF SameProgram, Boundaries
  <2>2. \A b : Shares(plan, b)' = Shares(pl, b)
    BY SameShares
  <2> QED BY <2>1, <2>2
<1> QED BY <1>1, <1>2, <1>3 DEF SearchInv

\* A step that leaves plan and pressure alone keeps the invariant.
LEMMA SearchStays ==
  ASSUME SearchInv, SameProgram, UNCHANGED <<plan, pressure>>
  PROVE  SearchInv'
<1>1. PICK pl : pl = plan
  OBVIOUS
<1>2. /\ plan' = pl /\ Planned(pl)
      /\ pressure' = [b \in Boundaries |-> Total(Shares(pl, b), Groups(job))]
  BY <1>1 DEF SearchInv
<1> QED BY <1>2, KeepsSearchInv

\* The search starts in the invariant.
LEMMA SearchInitInv ==
  ASSUME SearchInit
  PROVE  SearchInv
<1>1. job \in Problems /\ Shaped(job) /\ facts = BuildFacts(job)
  BY ProblemsShaped DEF SearchInit, Init
<1>2. Planning
  BY <1>1, BuiltFacts
<1>3. plan = Seed /\ pressure = PressureSweep(plan, Headroom)
  BY DEF SearchInit
<1>4. PICK pl : pl = Seed
  OBVIOUS
<1>5. pressure = [b \in Boundaries |-> Total(Shares(Seed, b), Groups(job))]
  <2>1. PressureSweep(Seed, Headroom)
          = [b \in Boundaries |-> Total(Shares(Seed, b), Groups(job))]
    BY <1>2, SweepShares
  <2> QED BY <1>3, <2>1
<1> QED BY <1>2, <1>3, <1>5, Seeded DEF SearchInv

\* Every step of the search keeps the invariant.
LEMMA SearchNextInv ==
  ASSUME SearchInv, [SearchNext]_searchVars
  PROVE  SearchInv'
<1>1. Planning /\ Planned(plan)
      /\ pressure = [b \in Boundaries |-> Total(Shares(plan, b), Groups(job))]
  BY DEF SearchInv
<1>2. ASSUME job' = job, facts' = facts, spec' = spec
      PROVE  SameProgram
  BY <1>1, <1>2 DEF SameProgram, Planning
<1>3. ASSUME NEW chosen, NEW next, Build(chosen, next), facts' = facts, spec' = spec
      PROVE  SameProgram
  <2>1. PICK actions : job' = [job EXCEPT !.actions = actions]
    BY <1>3 DEF Build, Restart
  <2> QED BY <1>1, <1>3, <2>1, Rebuilt DEF SameProgram
<1>4. CASE Preflight \/ Emit \/ Clamp \/ Validate \/ Accept \/ GiveUp \/ SearchDone
           \/ UNCHANGED searchVars
  <2>1. job' = job /\ facts' = facts /\ spec' = spec /\ UNCHANGED <<plan, pressure>>
    BY <1>4 DEF Preflight, Emit, Clamp, Validate, Accept, GiveUp, SearchDone, searchVars,
                search, vars, loop
  <2> QED BY <1>2, <2>1, SearchStays
<1>5. CASE Reduce
  <2>1. job' = job /\ facts' = facts /\ spec' = spec
    BY <1>5 DEF Reduce, vars, loop
  <2>2. CASE UNCHANGED <<plan, pressure>>
    BY <1>2, <2>1, <2>2, SearchStays
  <2>3. CASE ~ UNCHANGED <<plan, pressure>>
    <3>1. PICK b \in OverBudget : \E cut \in BestCuts(LegalCuts(plan, b)) :
            LET after == ApplyCut(plan, cut)
            IN  /\ plan' = after
                /\ pressure' = PressureAfter(plan, after, cut.alias, Headroom)
      BY <1>5, <2>3 DEF Reduce
    <3>1a. PICK cut \in BestCuts(LegalCuts(plan, b)) :
            LET after == ApplyCut(plan, cut)
            IN  /\ plan' = after
                /\ pressure' = PressureAfter(plan, after, cut.alias, Headroom)
      BY <3>1
    <3>2. PICK old, new, headroom :
            /\ old = plan /\ new = ApplyCut(plan, cut) /\ headroom = Headroom
      OBVIOUS
    <3>3. b \in Nat
      BY <1>1 DEF Planning, Boundaries, OverBudget
    <3>4. cut \in LegalCuts(old, b) /\ Planned(old) /\ new = ApplyCut(old, cut)
      BY <1>1, <3>1a, <3>2 DEF BestCuts
    <3>5. /\ Planned(new) /\ cut.alias \in Groups(job)
          /\ \A a \in Groups(job) \ {cut.alias} : new[a] = old[a]
      BY <1>1, <3>3, <3>4, CutPlanned
    <3>6. PICK a : a = cut.alias
      OBVIOUS
    <3>7. PressureAfter(old, new, a, headroom)
            = [x \in Boundaries |-> Total(Shares(new, x), Groups(job))]
      BY <1>1, <3>2, <3>5, <3>6, PressureMoves
    <3>8. plan' = new /\ pressure' = PressureAfter(old, new, a, headroom)
      BY <3>1a, <3>2, <3>6
    <3> QED BY <1>2, <2>1, <3>5, <3>7, <3>8, KeepsSearchInv
  <2> QED BY <2>2, <2>3
<1>6. CASE Issue \/ DelayFetch
  <2>1. facts' = facts /\ spec' = spec /\ UNCHANGED <<plan, pressure>>
    BY <1>6 DEF Issue, DelayFetch
  <2>2. \E chosen, next : Build(chosen, next)
    BY <1>6 DEF Issue, DelayFetch
  <2> QED BY <1>3, <2>1, <2>2, SearchStays
<1>7. CASE SimulateStep
  <2>1. job' = job /\ facts' = facts /\ spec' = spec /\ UNCHANGED <<plan, pressure>>
    BY <1>7, StepKeepsJob DEF SimulateStep, search
  <2> QED BY <1>2, <2>1, SearchStays
<1>8. CASE RepairPressure
  <2>1. /\ job' = [job EXCEPT !.actions = <<>>] /\ facts' = facts /\ spec' = spec
        /\ plan' = Seed /\ pressure' = PressureSweep(Seed, Headroom)
    BY <1>8 DEF RepairPressure, Restart
  <2>2. SameProgram
    BY <1>1, <2>1, Rebuilt DEF SameProgram
  <2>3. PICK pl, headroom : pl = Seed /\ headroom = Headroom
    OBVIOUS
  <2>4. Planned(pl)
    BY <1>1, <2>3, Seeded
  <2>5. PressureSweep(Seed, headroom)
          = [b \in Boundaries |-> Total(Shares(Seed, b), Groups(job))]
    BY <1>1, <2>3, SweepShares
  <2>6. plan' = pl /\ pressure' = [b \in Boundaries |-> Total(Shares(pl, b), Groups(job))]
    BY <2>1, <2>3, <2>5
  <2> QED BY <2>2, <2>4, <2>6, KeepsSearchInv
<1> QED BY <1>4, <1>5, <1>6, <1>7, <1>8 DEF SearchNext, SearchStep

\* reduce_pressure: the pressure that is updated cut by cut stays the one the
\* scalar definition gives the plan, whatever is cut and however often a repair
\* starts again; with fetch headroom it never falls below it.
THEOREM SearchPressureExact == SearchSpec => []PressureExact
<1>1. SearchInit => SearchInv
  BY SearchInitInv
<1>2. SearchInv /\ [SearchNext]_searchVars => SearchInv'
  BY SearchNextInv
<1>3. SearchInv => PressureExact
  BY SharesExact
<1> QED BY <1>1, <1>2, <1>3, PTL DEF SearchSpec


(***************************************************************************)
(* The first reduction of a tight strategy.                                *)
(***************************************************************************)
\* A value that is on the device from the start is anchored there, and two
\* spans of a group leave a boundary out between them, or meet behind an anchor
\* that no later task uses.
Floored(pl) ==
  \A a \in Groups(job) :
    /\ \A s \in pl[a] : s.end <= Len(job.tasks) /\ (s.start = 0 => 0 \in facts.anchors[a])
    /\ \A u, s \in pl[a] :
         u.end < s.start =>
           \/ u.end + 2 <= s.start
           \/ /\ u.end + 1 = s.start /\ u.end >= 1
              /\ ~ \E e \in facts.events[a] : e[1] = u.end /\ e[2] > u.end

\* The floor fits once preflight let the search pass; before any repair, a tight
\* strategy adds no pressure, has such a plan and was not refused.
FloorInv ==
  /\ stage \notin {"floor", "done"} => FloorFits
  /\ repairs \in Nat /\ outcome \in Reports \cup {None}
  /\ ~Headroom /\ repairs = 0 =>
       /\ \A b \in Boundaries : extra[b] = 0
       /\ Floored(plan)
       /\ status \notin {"analytic_capacity", "fetch_window"}

\* The seed is such a plan.
LEMMA SeedFloored ==
  ASSUME Planning
  PROVE  Floored(Seed)
<1> SUFFICES ASSUME NEW a \in Groups(job)
             PROVE  /\ \A s \in Seed[a] : /\ s.end <= Len(job.tasks)
                                          /\ s.start = 0 => 0 \in facts.anchors[a]
                    /\ \A u, s \in Seed[a] : ~(u.end < s.start)
  BY DEF Floored
<1> DEFINE H == facts.anchors[a]
<1>1. H \in SUBSET (0 .. Len(job.tasks)) /\ Len(job.tasks) \in Nat
  BY DEF Planning
<1>2. CASE H = {}
  <2>1. Seed[a] = {}
    BY <1>2 DEF Seed
  <2> QED BY <2>1
<1>3. CASE H # {}
  <2>1. Seed[a] = {[start |-> Min(H), end |-> Max(H)]}
    BY <1>3 DEF Seed
  <2>2. Min(H) \in H /\ Max(H) \in H /\ Min(H) <= Max(H)
    BY <1>1, <1>3, Extremes
  <2> HIDE DEF H
  <2>3. \A s \in Seed[a] : s.start = Min(H) /\ s.end = Max(H)
    BY <2>1
  <2>4. Min(H) \in 0 .. Len(job.tasks) /\ Max(H) \in 0 .. Len(job.tasks)
    BY <1>1, <2>2
  <2>5. ASSUME NEW s \in Seed[a] PROVE s.end <= Len(job.tasks) /\ (s.start = 0 => 0 \in H)
    BY <1>1, <2>2, <2>3, <2>4
  <2>6. ASSUME NEW u \in Seed[a], NEW s \in Seed[a] PROVE ~(u.end < s.start)
    BY <1>1, <2>2, <2>3, <2>4
  <2> QED BY <2>5, <2>6 DEF H
<1> QED BY <1>2, <1>3

\* A cut behind the first boundary keeps that.
LEMMA CutFloored ==
  ASSUME Planning, NEW pl, Planned(pl), Floored(pl), NEW b \in Nat \ {0},
         NEW cut \in LegalCuts(pl, b)
  PROVE  Floored(ApplyCut(pl, cut))
<1> DEFINE c == cut.alias
           span == cut.span
           new == ApplyCut(pl, cut)
           Open(a, u) == \E e \in facts.events[a] : e[1] = u.end /\ e[2] > u.end
<1>1. /\ c \in Groups(job) /\ span \in pl[c] /\ span \in Spans /\ SpanContains(span, b)
      /\ \/ /\ b \in facts.anchors[c] /\ SplitsAfter(c, span, b)
            /\ cut.start = b + 1 /\ cut.end = b
         \/ /\ b \notin facts.anchors[c]
            /\ cut.start = GapContaining(c, span, b)[1]
            /\ cut.end = GapContaining(c, span, b)[2]
      /\ cut.start \in Nat \ {0} /\ cut.end \in Nat
      /\ span.start <= cut.start /\ cut.end <= span.end
  BY CutFacts
<1>2. /\ new[c] = (pl[c] \ {span}) \cup Pieces(cut)
      /\ \A a \in Groups(job) \ {c} : new[a] = pl[a]
  BY CutPlanned
<1>3. span.start \in Nat /\ span.end \in Nat /\ span.start <= b /\ b <= span.end
  BY <1>1 DEF Spans, SpanContains
<1>4. /\ b <= cut.end
      /\ \/ cut.start = b + 1 /\ cut.end = b /\ b < span.end
            /\ ~ \E e \in facts.events[c] : e[1] = b /\ e[2] > b
         \/ cut.start <= b
  <2>1. CASE b \in facts.anchors[c]
    BY <1>1, <1>3, <2>1 DEF SplitsAfter
  <2>2. CASE b \notin facts.anchors[c]
    <3>1. GapContaining(c, span, b)[1] \in span.start .. b /\ GapContaining(c, span, b)[2] \in b .. span.end
      <4>1. span \in Spans /\ b \in span.start .. span.end
        BY <1>1, <1>3
      <4> HIDE DEF c, span
      <4> QED BY <2>2, <4>1, GapFound
    <3> QED BY <1>1, <1>3, <2>2, <3>1
  <2> QED BY <2>1, <2>2
<1> DEFINE left == [start |-> span.start, end |-> cut.start - 1]
           right == [start |-> cut.end + 1, end |-> span.end]
<1>5. \A x \in Pieces(cut) : (x = left \/ x = right) /\ x.start <= x.end
  BY DEF Pieces
<1>6. /\ left.start = span.start /\ left.end = cut.start - 1
      /\ right.start = cut.end + 1 /\ right.end = span.end
  OBVIOUS
<1>7. /\ pl[c] \subseteq Spans /\ Parted(pl[c])
      /\ \A s \in pl[c] : s.end <= Len(job.tasks) /\ (s.start = 0 => 0 \in facts.anchors[c])
      /\ \A u, s \in pl[c] :
           u.end < s.start =>
             \/ u.end + 2 <= s.start
             \/ u.end + 1 = s.start /\ u.end >= 1 /\ ~Open(c, u)
  BY <1>1 DEF Planned, Floored
<1>8. Len(job.tasks) \in Nat
  BY DEF Planning
<1> HIDE DEF c, span, new, left, right
<1>9. ASSUME NEW s \in new[c]
      PROVE  s.end <= Len(job.tasks) /\ (s.start = 0 => 0 \in facts.anchors[c])
  <2>1. CASE s \in pl[c]
    BY <1>7, <2>1
  <2>2. CASE s = left
    <3>1. s.start = span.start /\ s.end = cut.start - 1 /\ cut.start - 1 <= span.end
      BY <1>1, <1>3, <1>4, <1>6, <2>2
    <3>2. span.end <= Len(job.tasks) /\ (span.start = 0 => 0 \in facts.anchors[c])
      BY <1>1, <1>7
    <3> QED BY <1>1, <1>3, <1>8, <3>1, <3>2
  <2>3. CASE s = right
    <3>1. s.start = cut.end + 1 /\ s.end = span.end
      BY <1>6, <2>3
    <3>2. span.end <= Len(job.tasks)
      BY <1>1, <1>7
    <3> QED BY <1>1, <1>3, <1>8, <3>1, <3>2
  <2> QED BY <1>2, <1>5, <2>1, <2>2, <2>3
<1>10. ASSUME NEW u \in new[c], NEW s \in new[c], u.end < s.start
       PROVE  \/ u.end + 2 <= s.start
              \/ u.end + 1 = s.start /\ u.end >= 1 /\ ~Open(c, u)
  <2>1. CASE u \in pl[c] \ {span} /\ s \in pl[c] \ {span}
    BY <1>7, <1>10, <2>1
  <2>2. CASE u \in pl[c] \ {span} /\ s \in {left, right}
    <3>1. u.start \in Nat /\ u.end \in Nat /\ u.start <= u.end
      BY <1>7, <2>2 DEF Spans
    <3>2. u.end < span.start \/ span.end < u.start
      BY <1>1, <1>7, <2>2 DEF Parted
    <3>3. CASE s = left
      <4>1. s.start = span.start
        BY <1>6, <3>3
      <4> QED BY <1>1, <1>7, <1>10, <2>2, <4>1
    <3>4. CASE s = right
      <4>1. s.start = cut.end + 1
        BY <1>6, <3>4
      <4>2. u.end < span.start
        BY <1>1, <1>3, <1>10, <3>1, <3>2, <4>1
      <4> QED BY <1>1, <1>3, <1>4, <3>1, <4>1, <4>2
    <3> QED BY <2>2, <3>3, <3>4
  <2>3. CASE u = left /\ s \in pl[c] \ {span}
    <3>1. u.end = cut.start - 1 /\ u.end + 1 <= span.end
      BY <1>1, <1>3, <1>4, <1>6, <2>3
    <3>2. s.start \in Nat /\ s.end \in Nat /\ s.start <= s.end
      BY <1>7, <2>3 DEF Spans
    <3>3. s.end < span.start \/ span.end < s.start
      BY <1>1, <1>7, <2>3 DEF Parted
    <3>4. span.end < s.start
      BY <1>1, <1>3, <1>10, <3>1, <3>2, <3>3
    <3> QED BY <1>1, <1>3, <3>1, <3>2, <3>4
  <2>4. CASE u = right /\ s \in pl[c] \ {span}
    <3>1. u.end = span.end
      BY <1>6, <2>4
    <3> QED BY <1>1, <1>7, <1>10, <2>4, <3>1
  <2>5. CASE u = left /\ s = right
    <3>1. u.end = cut.start - 1 /\ s.start = cut.end + 1
      BY <1>6, <2>5
    <3>2. CASE cut.start <= b
      BY <1>1, <1>3, <1>4, <3>1, <3>2
    <3>3. CASE cut.start = b + 1 /\ cut.end = b /\ ~ \E e \in facts.events[c] : e[1] = b /\ e[2] > b
      <4>1. u.end = b
        BY <3>1, <3>3
      <4> QED BY <1>1, <1>3, <3>1, <3>3, <4>1
    <3> QED BY <1>4, <3>2, <3>3
  <2>6. CASE (u = left /\ s = left) \/ (u = right /\ s = right) \/ (u = right /\ s = left)
    <3>1. /\ u.start \in Int /\ u.end \in Int /\ s.start \in Int
          /\ u.start <= u.end /\ s.start <= u.start
      <4>1. u \notin pl[c] \/ u.start <= u.end
        BY <1>7 DEF Spans
      <4>2. u.start <= u.end
        BY <1>2, <1>5, <4>1
      <4>3. span.start <= cut.end + 1
        BY <1>1, <1>3, <1>4
      <4> QED BY <1>1, <1>3, <1>6, <2>6, <4>2, <4>3
    <3> QED BY <1>10, <3>1
  <2> QED BY <1>2, <1>5, <2>1, <2>2, <2>3, <2>4, <2>5, <2>6
<1>11. ASSUME NEW a \in Groups(job)
       PROVE  /\ \A s \in new[a] : s.end <= Len(job.tasks) /\ (s.start = 0 => 0 \in facts.anchors[a])
              /\ \A u, s \in new[a] :
                   u.end < s.start =>
                     \/ u.end + 2 <= s.start
                     \/ u.end + 1 = s.start /\ u.end >= 1 /\ ~Open(a, u)
  <2>1. CASE a = c
    BY <1>9, <1>10, <2>1
  <2>2. CASE a # c
    <3>1. new[a] = pl[a]
      BY <1>2, <2>2
    <3> QED BY <3>1 DEF Floored
  <2> QED BY <2>1, <2>2
<1>12. Floored(new)
  BY <1>11 DEF Floored
<1> QED BY <1>12 DEF new


\* Over budget, a boundary is charged for a group that the floor leaves out: the
\* group can be cut there.
LEMMA FloorLeavesOut ==
  ASSUME SearchInv, FloorFits, NEW b \in OverBudget, ~Headroom, extra[b] = 0
  PROVE  \E a \in Groups(job), s \in UNION {plan[x] : x \in Groups(job)} :
           /\ s \in plan[a] /\ s.start <= b /\ b <= ChargedUntil(a, s)
           /\ ~FloorCharges(a, b)
<1>1. Planning /\ Planned(plan)
      /\ pressure = [x \in Boundaries |-> Total(Shares(plan, x), Groups(job))]
  BY DEF SearchInv
<1>2. b \in Boundaries /\ Excess(b) > 0
  BY DEF OverBudget
<1> DEFINE G == Groups(job)
           C == {a \in G : Contributes(plan, a, b, Headroom)}
           F == {a \in G : FloorCharges(a, b) \/ a \in facts.reserved[b]}
<1>3. pressure[b] = Total(job.size, C)
  BY <1>1, <1>2, SharesSum DEF Bytes
<1>4. Total(job.size, F) <= facts.capacity[b]
  BY <1>2 DEF FloorFits, RequiredFloor, Bytes
<1>5. facts.capacity[b] \in Int
  BY <1>1, <1>2 DEF Planning, Boundaries
<1>6. pressure[b] + 0 - facts.capacity[b] > 0
  BY <1>2 DEF Excess
<1>7. ~(C \subseteq F)
  <2> SUFFICES ASSUME C \subseteq F PROVE FALSE
    OBVIOUS
  <2>1. IsFiniteSet(G) /\ \A a \in G : job.size[a] \in Nat
    BY <1>1 DEF Planning
  <2>2. C \in SUBSET F /\ F \in SUBSET G
    OBVIOUS
  <2> HIDE DEF C, F, G
  <2>3. IsFiniteSet(F) /\ \A a \in F : job.size[a] \in Nat
    BY <2>1, <2>2, FS_Subset
  <2>4. Total(job.size, C) <= Total(job.size, F)
        /\ Total(job.size, C) \in Nat /\ Total(job.size, F) \in Nat
    BY <2>2, <2>3, TotalMore
  <2> QED BY <1>3, <1>4, <1>5, <1>6, <2>4
<1>8. PICK a \in G : Contributes(plan, a, b, Headroom) /\ ~FloorCharges(a, b) /\ a \notin facts.reserved[b]
  BY <1>7
<1>9. PICK s \in plan[a] : b \in ChargedSpan(a, s, Headroom)
  BY <1>8 DEF Contributes, Charged
<1>10. Headroom = FALSE
  BY DEF Headroom
<1>11. s \in Spans
  BY <1>1, <1>8 DEF Planned
<1>12. s.start <= b /\ b <= ChargedUntil(a, s)
  <2>1. s.start \in Nat /\ s.end \in Nat
    BY <1>11 DEF Spans
  <2>2. ChargedUntil(a, s) \in {s.end, s.end - 1}
    BY DEF ChargedUntil
  <2>3. b \in ChargedSpan(a, s, FALSE)
    <3>1. PICK h : h = Headroom
      OBVIOUS
    <3>2. b \in ChargedSpan(a, s, h) /\ h = FALSE
      BY <1>9, <1>10, <3>1
    <3> QED BY <3>2
  <2>4. b \in s.start .. ChargedUntil(a, s)
    BY <2>3 DEF ChargedSpan, EffectiveStart
  <2>5. ChargedUntil(a, s) \in Int
    BY <2>1, <2>2
  <2> QED BY <2>1, <2>4, <2>5
<1> QED BY <1>8, <1>12

\* So the reducer finds a cut at every boundary over budget, which is never the
\* initial one.
LEMMA CutExists ==
  ASSUME SearchInv, FloorFits, NEW b \in OverBudget, ~Headroom, extra[b] = 0, Floored(plan), Entered
  PROVE  b # 0 /\ LegalCuts(plan, b) # {}
<1>1. Planning /\ Planned(plan)
  BY DEF SearchInv
<1>2. PICK a \in Groups(job), s \in UNION {plan[x] : x \in Groups(job)} :
        /\ s \in plan[a] /\ s.start <= b /\ b <= ChargedUntil(a, s)
        /\ ~FloorCharges(a, b)
  BY FloorLeavesOut
<1>3. b \in Nat /\ s \in Spans /\ s.start \in Nat /\ s.end \in Nat
  BY <1>1, <1>2 DEF OverBudget, Planning, Boundaries, Planned, Spans
<1>4. ChargedUntil(a, s) \in {s.end, s.end - 1}
  BY DEF ChargedUntil
<1>5. b <= s.end /\ SpanContains(s, b)
  BY <1>2, <1>3, <1>4 DEF SpanContains
<1>6. s.start = 0 => 0 \in facts.anchors[a]
  BY <1>2 DEF Floored
<1>7. b # 0
  <2> SUFFICES ASSUME b = 0 PROVE FALSE
    OBVIOUS
  <2>1. 0 \in facts.anchors[a]
    BY <1>2, <1>3, <1>6
  <2> QED BY <1>2, <2>1 DEF FloorCharges
<1> DEFINE Removed == IF b \in facts.anchors[a] THEN <<b + 1, b>> ELSE GapContaining(a, s, b)
           cut == [alias |-> a, span |-> s, start |-> Removed[1], end |-> Removed[2]]
<1>8. (b \in facts.anchors[a] => SplitsAfter(a, s, b)) /\ cut.start > 0
  <2>1. CASE b \in facts.anchors[a]
    <3>1. a \notin job.finalDev /\ ~ \E e \in facts.events[a] : e[1] = b /\ e[2] > b
      <4>1. ~FloorCharges(a, b)
        BY <1>2
      <4> QED BY <2>1, <4>1 DEF FloorCharges
    <3>2. b < s.end
      <4> SUFFICES ASSUME b = s.end PROVE FALSE
        BY <1>3, <1>5
      <4>1. \E e \in EventsIn(a, s) : e[2] > s.end
        BY <1>2, <1>3, <1>7, <3>1 DEF ChargedUntil
      <4>2. PICK e \in facts.events[a] : SpanContains(s, e[1]) /\ e[2] > s.end
        BY <4>1 DEF EventsIn
      <4>3. \E t \in 1 .. Len(job.tasks) : e = <<t - 1, t>> \/ e = <<t, t>>
        BY <4>2 DEF Entered
      <4>4. e[1] \in Nat /\ e[2] \in Nat /\ e[2] <= e[1] + 1
        BY <1>1, <4>3 DEF Planning
      <4>5. e[1] <= s.end
        BY <4>2 DEF SpanContains
      <4>6. e[1] = b /\ e[2] > b
        BY <1>3, <4>2, <4>4, <4>5
      <4> QED BY <3>1, <4>6
    <3> QED BY <1>3, <2>1, <3>1, <3>2 DEF SplitsAfter
  <2>2. CASE b \notin facts.anchors[a]
    <3> DEFINE g == GapContaining(a, s, b)
    <3>1. g[1] \in s.start .. b /\ g[2] \in b .. s.end /\ (g[1] .. g[2]) \cap facts.anchors[a] = {}
      BY <1>2, <1>3, <1>5, <2>2, GapFound
    <3>2. cut.start = g[1]
      BY <2>2
    <3> HIDE DEF g
    <3>3. g[1] # 0
      <4> SUFFICES ASSUME g[1] = 0 PROVE FALSE
        OBVIOUS
      <4>1. s.start = 0 /\ 0 \in g[1] .. g[2]
        BY <1>3, <3>1
      <4> QED BY <1>6, <3>1, <4>1
    <3> QED BY <1>3, <2>2, <3>1, <3>2, <3>3
  <2> QED BY <2>1, <2>2
<1>9. cut \in LegalCuts(plan, b)
  BY <1>2, <1>5, <1>8 DEF LegalCuts
<1> HIDE DEF cut
<1> QED BY <1>7, <1>9

\* The events of a span that is fetched for lie behind its start.
LEMMA FetchedEvents ==
  ASSUME Planning, Entered, NEW a \in Groups(job), NEW s \in Spans, NeedsFetch(a, s),
         s.end <= Len(job.tasks), s.start = 0 => 0 \in facts.anchors[a]
  PROVE  /\ s.start >= 1
         /\ EntryDeadline(a, s) \in Nat /\ s.start <= EntryDeadline(a, s)
<1> DEFINE N == Len(job.tasks)
           tasks == {e[2] : e \in EventsIn(a, s)}
<1>1. N \in Nat /\ N >= 1 /\ s.start \in Nat /\ s.end \in Nat /\ s.start <= s.end
  BY DEF Planning, Entered, Spans
<1>2. s.start >= 1
  BY <1>1 DEF NeedsFetch, Entered
<1>3. ASSUME NEW t \in tasks
      PROVE  t \in 0 .. N /\ s.start + 1 <= t
  <2>1. PICK e \in facts.events[a] : t = e[2] /\ SpanContains(s, e[1])
    BY DEF EventsIn
  <2>2. PICK k \in 1 .. N : e = <<k - 1, k>> \/ (e = <<k, k>> /\ k \in facts.productions[a])
    BY <2>1 DEF Entered
  <2>3. s.start \notin facts.productions[a]
    BY DEF NeedsFetch
  <2>4. CASE e = <<k - 1, k>>
    BY <1>1, <2>1, <2>4 DEF SpanContains
  <2>5. CASE e = <<k, k>> /\ k \in facts.productions[a]
    BY <1>1, <2>1, <2>3, <2>5 DEF SpanContains
  <2> QED BY <2>2, <2>4, <2>5
<1>4. CASE tasks = {}
  <2>1. EntryDeadline(a, s) = N
    BY <1>4 DEF EntryDeadline, LastBoundary
  <2> QED BY <1>1, <1>2, <2>1
<1>5. CASE tasks # {}
  <2>1. EntryDeadline(a, s) = Min(tasks) - 1
    BY <1>5 DEF EntryDeadline
  <2>2. tasks \in SUBSET (0 .. N)
    BY <1>3
  <2>3. Min(tasks) \in tasks
    <3> HIDE DEF tasks
    <3> QED BY <1>1, <1>5, <2>2, Extremes
  <2>4. Min(tasks) \in 0 .. N /\ s.start + 1 <= Min(tasks)
    <3> HIDE DEF tasks
    <3> QED BY <1>3, <2>3
  <2> QED BY <1>1, <1>2, <2>1, <2>4
<1> QED BY <1>2, <1>4, <1>5

\* A span is left by the task behind its end, or by one before when no task
\* that uses its last boundary follows.
LEMMA LeavesBy ==
  ASSUME Planning, Entered, NEW a \in Groups(job), NEW u \in Spans, u.end <= Len(job.tasks)
  PROVE  /\ DepartureTask(a, u) \in 0 .. Len(job.tasks)
         /\ DepartureTask(a, u) <= u.end + 1
         /\ u.end >= 1 /\ ~(\E e \in facts.events[a] : e[1] = u.end /\ e[2] > u.end)
              => DepartureTask(a, u) <= u.end
<1> DEFINE N == Len(job.tasks)
           tasks == {e[2] : e \in EventsIn(a, u)}
           Later == \E e \in facts.events[a] : e[1] = u.end /\ e[2] > u.end
<1>1. N \in Nat /\ N >= 1 /\ u.start \in Nat /\ u.end \in Nat
  BY DEF Planning, Entered, Spans
<1>2. ASSUME NEW t \in tasks
      PROVE  t \in 0 .. N /\ t <= u.end + 1 /\ (~Later => t <= u.end)
  <2>1. PICK e \in facts.events[a] : t = e[2] /\ SpanContains(u, e[1])
    BY DEF EventsIn
  <2>2. PICK k \in 1 .. N : e = <<k - 1, k>> \/ e = <<k, k>>
    BY <2>1 DEF Entered
  <2>3. e[1] \in Nat /\ e[2] \in 0 .. N /\ e[2] <= e[1] + 1 /\ e[1] <= u.end
    BY <1>1, <2>1, <2>2 DEF SpanContains
  <2>4. e[1] = u.end /\ e[2] > u.end => Later
    BY <2>1
  <2> HIDE DEF Later
  <2> QED BY <1>1, <2>1, <2>3, <2>4
<1>3. CASE tasks = {}
  <2>1. DepartureTask(a, u) = Min({Max({u.end, 1}), N})
    BY <1>3 DEF DepartureTask, LastBoundary
  <2>2. {u.end, 1} \in SUBSET (0 .. N) /\ {u.end, 1} # {}
    BY <1>1
  <2>3. Max({u.end, 1}) \in {u.end, 1} /\ \A x \in {u.end, 1} : x <= Max({u.end, 1})
    BY <1>1, <2>2, Extremes
  <2> DEFINE m == Max({u.end, 1})
  <2>4. m \in {u.end, 1} /\ u.end <= m /\ 1 <= m
    BY <2>3
  <2> HIDE DEF m
  <2>5. {m, N} \in SUBSET (0 .. N) /\ {m, N} # {}
    BY <1>1, <2>4
  <2>6. Min({m, N}) \in {m, N} /\ Min({m, N}) <= m
    BY <1>1, <2>5, Extremes
  <2>7. DepartureTask(a, u) \in 0 .. N /\ DepartureTask(a, u) <= m
    BY <1>1, <2>1, <2>4, <2>6 DEF m
  <2> QED BY <1>1, <2>4, <2>7
<1>4. CASE tasks # {}
  <2>1. DepartureTask(a, u) = Max(tasks)
    BY <1>4 DEF DepartureTask
  <2>2. tasks \in SUBSET (0 .. N)
    BY <1>2
  <2>3. Max(tasks) \in tasks
    <3> HIDE DEF tasks
    <3> QED BY <1>1, <1>4, <2>2, Extremes
  <2>4. Max(tasks) \in 0 .. N /\ Max(tasks) <= u.end + 1 /\ (~Later => Max(tasks) <= u.end)
    <3> HIDE DEF tasks, Later
    <3> QED BY <1>2, <2>3
  <2> QED BY <2>1, <2>4
<1> QED BY <1>3, <1>4

\* Every reload of a plan cut so far has a trigger between its group's last
\* departure and its first consumer.
LEMMA WindowsOpen ==
  ASSUME Planning, Entered, NEW pl, Planned(pl), Floored(pl), NEW r \in Reloads(pl)
  PROVE  ~(r.latest < r.earliest)
<1> DEFINE N == Len(job.tasks)
<1>1. PICK a \in Groups(job) :
        \E s \in {u \in pl[a] : NeedsFetch(a, u)} :
          r = [alias |-> a, earliest |-> FirstTrigger(a, pl[a], s),
               latest |-> EntryDeadline(a, s), entry |-> s.start]
  BY DEF Reloads
<1>2. PICK s \in pl[a] :
        /\ NeedsFetch(a, s)
        /\ r = [alias |-> a, earliest |-> FirstTrigger(a, pl[a], s),
                latest |-> EntryDeadline(a, s), entry |-> s.start]
  BY <1>1
<1>3. r.earliest = FirstTrigger(a, pl[a], s) /\ r.latest = EntryDeadline(a, s)
  BY <1>2
<1>4. s \in Spans /\ s.start \in Nat /\ s.end \in Nat /\ s.start <= s.end /\ N \in Nat
      /\ s.end <= N /\ (s.start = 0 => 0 \in facts.anchors[a])
  BY DEF Planned, Spans, Planning, Floored
<1>5. s.start >= 1 /\ EntryDeadline(a, s) \in Nat /\ s.start <= EntryDeadline(a, s)
  BY <1>2, <1>4, FetchedEvents
<1> DEFINE D == {DepartureTask(a, u) + 1 : u \in {v \in pl[a] : v.start < s.start}}
<1>6. ASSUME NEW d \in D
      PROVE  d \in 0 .. (N + 1) /\ d <= s.start
  <2>1. PICK u \in pl[a] : u.start < s.start /\ d = DepartureTask(a, u) + 1
    BY <1>6
  <2>2. u \in Spans /\ u.start \in Nat /\ u.end \in Nat /\ u.start <= u.end /\ u.end <= N
    BY DEF Planned, Spans, Floored
  <2>3. u.end < s.start
    <3>1. u = s \/ u.end < s.start \/ s.end < u.start
      BY DEF Planned, Parted
    <3> QED BY <1>4, <2>1, <2>2, <3>1
  <2>4. /\ DepartureTask(a, u) \in 0 .. N /\ DepartureTask(a, u) <= u.end + 1
        /\ u.end >= 1 /\ ~(\E e \in facts.events[a] : e[1] = u.end /\ e[2] > u.end)
             => DepartureTask(a, u) <= u.end
    BY <2>2, LeavesBy
  <2>5. \/ u.end + 2 <= s.start
        \/ /\ u.end + 1 = s.start /\ u.end >= 1
           /\ ~ \E e \in facts.events[a] : e[1] = u.end /\ e[2] > u.end
    BY <2>3 DEF Floored
  <2> QED BY <1>4, <2>1, <2>2, <2>4, <2>5
<1>7. FirstTrigger(a, pl[a], s) \in {1} \cup D
  <2> DEFINE T == {1} \cup D
  <2>1. FirstTrigger(a, pl[a], s) = Max(T)
    BY DEF FirstTrigger
  <2>2. T \in SUBSET (0 .. (N + 1)) /\ T # {}
    BY <1>4, <1>6
  <2> HIDE DEF T
  <2> DEFINE M == N + 1
  <2>3. M \in Nat
    BY <1>4
  <2> HIDE DEF M
  <2>4. T \in SUBSET (0 .. M)
    BY <2>2 DEF M
  <2>5. Max(T) \in T
    BY <2>2, <2>3, <2>4, Extremes
  <2> QED BY <2>1, <2>5 DEF T
<1>8. FirstTrigger(a, pl[a], s) \in Nat /\ FirstTrigger(a, pl[a], s) <= s.start
  <2> HIDE DEF D
  <2> QED BY <1>4, <1>5, <1>6, <1>7
<1> QED BY <1>3, <1>4, <1>5, <1>8

\* The search starts with the floor's invariant.
LEMMA FloorInitInv ==
  ASSUME SearchInit, Planning
  PROVE  FloorInv
<1>1. stage = "floor" /\ plan = Seed /\ extra = [b \in Boundaries |-> 0] /\ repairs = 0
      /\ status = None
  BY DEF SearchInit, NoExtra
<1>2. Floored(plan)
  BY <1>1, SeedFloored
<1>3. outcome \in Reports \cup {None}
  BY DEF SearchInit, Init, InitializeMemory, Reports
<1> QED BY <1>1, <1>2, <1>3, RefusalsAssumption DEF FloorInv, Refusals

\* What a step reports is in the list of what a replay can report.
LEMMA StepReports ==
  ASSUME Step, outcome \in Reports \cup {None}
  PROVE  outcome' \in Reports \cup {None}
<1>1. CASE TryStartTransfers
  BY <1>1 DEF TryStartTransfers
<1>2. CASE TryLaunchTasks
  BY <1>2 DEF TryLaunchTasks, LaunchTask
<1>3. CASE SubmitRelease
  <2>1. ReleaseConflicts \in Reports \cup {None}
    BY DEF ReleaseConflicts, Reports
  <2> QED BY <1>3, <2>1 DEF SubmitRelease, Submitted, Stop
<1>4. CASE SubmitEvict \/ SubmitWriteBack \/ SubmitFetch
  BY <1>4 DEF SubmitEvict, SubmitWriteBack, SubmitFetch, Submitted, Stop, Reports
<1>5. CASE SubmitDone \/ AdvanceTime \/ EventsDone
  BY <1>5 DEF SubmitDone, AdvanceTime, EventsDone
<1>6. CASE CompleteFetch \/ CompleteEvict
  BY <1>6 DEF CompleteFetch, CompleteEvict, Landed
<1>7. CASE CompleteTask
  BY <1>7 DEF CompleteTask
<1>8. CASE Deadlock \/ CheckFinalResidency
  BY <1>8 DEF Deadlock, CheckFinalResidency, Stop, DeadlockKind, Reports
<1> QED BY <1>1, <1>2, <1>3, <1>4, <1>5, <1>6, <1>7, <1>8 DEF Step

\* What the floor is made of does not change with the schedule.
LEMMA SameFloor ==
  ASSUME SameProgram, NEW pl, plan' = pl
  PROVE  /\ FloorFits' <=> FloorFits
         /\ Entered' <=> Entered
         /\ Floored(plan)' <=> Floored(pl)
         /\ Headroom' <=> Headroom
         /\ Boundaries' = Boundaries
<1>1. /\ Groups(job)' = Groups(job) /\ job'.size = job.size /\ job'.tasks = job.tasks
      /\ job'.finalDev = job.finalDev /\ job'.initDev = job.initDev
      /\ facts' = facts /\ spec' = spec
  BY DEF SameProgram
<1>2. \A b : RequiredFloor(b)' = RequiredFloor(b)
  BY <1>1 DEF RequiredFloor, FloorCharges, Bytes
<1>3. FloorFits' <=> FloorFits
  BY <1>1, <1>2 DEF FloorFits, Boundaries
<1>4. Entered' <=> Entered
  BY <1>1 DEF Entered
<1>5. Floored(plan)' <=> Floored(pl)
  BY <1>1 DEF Floored
<1> QED BY <1>1, <1>3, <1>4, <1>5 DEF Headroom, Boundaries

\* The floor's invariant through a step that leaves plan, added pressure and
\* repairs alone, or that makes a repair.
LEMMA FloorKept ==
  ASSUME SearchInv, FloorInv, SameProgram, outcome' \in Reports \cup {None},
         stage' \notin {"floor", "done"} => FloorFits,
         \/ /\ UNCHANGED <<plan, extra, repairs>>
            /\ \/ status' = status \/ status' \notin {"analytic_capacity", "fetch_window"}
               \/ Headroom \/ repairs # 0
         \/ repairs' = repairs + 1
  PROVE  FloorInv'
<1>1. PICK pl : plan' = pl
  OBVIOUS
<1>2. /\ FloorFits' <=> FloorFits
      /\ Floored(plan)' <=> Floored(pl)
      /\ Headroom' <=> Headroom
      /\ Boundaries' = Boundaries
  BY <1>1, SameFloor
<1>3. CASE repairs' = repairs + 1
  <2>1. repairs' \in Nat /\ repairs' # 0
    BY <1>3 DEF FloorInv
  <2> QED BY <1>2, <2>1 DEF FloorInv
<1>4. CASE UNCHANGED <<plan, extra, repairs>>
          /\ \/ status' = status \/ status' \notin {"analytic_capacity", "fetch_window"}
             \/ Headroom \/ repairs # 0
  <2>1. pl = plan /\ extra' = extra /\ repairs' = repairs
    BY <1>1, <1>4
  <2> QED BY <1>2, <1>4, <2>1 DEF FloorInv
<1> QED BY <1>3, <1>4

\* Every step of the search keeps the floor's invariant.
LEMMA FloorNextInv ==
  ASSUME SearchInv, FloorInv, Entered, [SearchNext]_searchVars
  PROVE  FloorInv' /\ Entered'
<1>1. /\ Planning /\ Planned(plan) /\ outcome \in Reports \cup {None} /\ repairs \in Nat
      /\ stage \notin {"floor", "done"} => FloorFits
  BY DEF SearchInv, FloorInv
<1>2. ASSUME job' = job, facts' = facts, spec' = spec
      PROVE  SameProgram
  BY <1>1, <1>2 DEF SameProgram, Planning
<1>3. ASSUME SameProgram PROVE Entered'
  <2>1. PICK pl : plan' = pl
    OBVIOUS
  <2> QED BY <1>3, <2>1, SameFloor
<1>4. ASSUME NEW chosen, NEW next, Build(chosen, next), facts' = facts, spec' = spec
      PROVE  SameProgram /\ outcome' \in Reports \cup {None}
  <2>1. PICK actions, built : built = [job EXCEPT !.actions = actions] /\ Restart(built)
    BY <1>4 DEF Build
  <2>2. job' = [job EXCEPT !.actions = actions]
    BY <2>1 DEF Restart
  <2>3. outcome' = InitializeMemory(built).outcome
    BY <2>1 DEF Restart
  <2>4. outcome' \in Reports \cup {None}
    BY <2>3 DEF InitializeMemory, Reports
  <2> QED BY <1>1, <1>4, <2>2, <2>4, Rebuilt DEF SameProgram
<1>5. CASE Preflight
  <2>1. /\ job' = job /\ facts' = facts /\ spec' = spec /\ outcome' = outcome
        /\ UNCHANGED <<plan, extra, repairs>>
        /\ stage' \notin {"floor", "done"} => FloorFits
        /\ status' \in {status, "workspace_capacity", "required_capacity"}
    BY <1>5 DEF Preflight, Finish, vars, loop
  <2>2. status' = status \/ status' \notin {"analytic_capacity", "fetch_window"}
    BY <2>1
  <2> QED BY <1>1, <1>2, <1>3, <2>1, <2>2, FloorKept
<1>6. CASE Reduce
  <2>1. /\ job' = job /\ facts' = facts /\ spec' = spec /\ outcome' = outcome
        /\ UNCHANGED <<extra, repairs>> /\ FloorFits
    BY <1>1, <1>6 DEF Reduce, vars, loop
  <2>2. SameProgram
    BY <1>2, <2>1
  <2>3. CASE OverBudget = {}
    <3>1. UNCHANGED <<plan, status>>
      BY <1>6, <2>3 DEF Reduce
    <3> QED BY <1>1, <1>3, <2>1, <2>2, <3>1, FloorKept
  <2>4. CASE OverBudget # {}
    <3>1. PICK b \in OverBudget :
            \/ /\ LegalCuts(plan, b) = {} /\ UNCHANGED plan
            \/ /\ \E cut \in BestCuts(LegalCuts(plan, b)) : plan' = ApplyCut(plan, cut)
               /\ UNCHANGED status
      BY <1>6, <2>4 DEF Reduce
    <3>2. CASE Headroom \/ repairs # 0
      <4>1. PICK pl : plan' = pl
        OBVIOUS
      <4>2. (FloorFits' <=> FloorFits) /\ (Headroom' <=> Headroom)
        BY <2>2, <4>1, SameFloor
      <4>3. FloorInv'
        BY <1>1, <2>1, <3>2, <4>2 DEF FloorInv
      <4> QED BY <1>3, <2>2, <4>3
    <3>3. CASE ~Headroom /\ repairs = 0
      <4>1. extra[b] = 0 /\ Floored(plan) /\ b \in Nat
        BY <1>1, <3>3 DEF FloorInv, OverBudget, Planning, Boundaries
      <4>2. b # 0 /\ LegalCuts(plan, b) # {}
        BY <2>1, <3>3, <4>1, CutExists
      <4>3. PICK cut \in LegalCuts(plan, b) : plan' = ApplyCut(plan, cut) /\ UNCHANGED status
        BY <3>1, <4>2 DEF BestCuts
      <4>4. PICK old, pl : old = plan /\ pl = ApplyCut(old, cut)
        OBVIOUS
      <4>5. Floored(pl)
        BY <1>1, <4>1, <4>2, <4>3, <4>4, CutFloored
      <4>6. /\ FloorFits' <=> FloorFits
            /\ Headroom' <=> Headroom
            /\ Floored(plan)' <=> Floored(pl)
            /\ Boundaries' = Boundaries
        BY <2>2, <4>3, <4>4, SameFloor
      <4>7. FloorInv'
        BY <1>1, <2>1, <3>3, <4>3, <4>5, <4>6 DEF FloorInv
      <4> QED BY <1>3, <2>2, <4>7
    <3> QED BY <3>2, <3>3
  <2> QED BY <2>3, <2>4
<1>7. CASE Emit
  <2>1. /\ job' = job /\ facts' = facts /\ spec' = spec /\ outcome' = outcome
        /\ UNCHANGED <<plan, extra, repairs>> /\ FloorFits
    BY <1>1, <1>7 DEF Emit, vars, loop
  <2>2. status' = status \/ Headroom \/ repairs # 0
    <3> SUFFICES ASSUME ~Headroom, repairs = 0 PROVE status' = status
      OBVIOUS
    <3>1. Floored(plan)
      BY DEF FloorInv
    <3>2. \A r \in Reloads(plan) : ~(r.latest < r.earliest)
      BY <1>1, <3>1, WindowsOpen
    <3> QED BY <1>7, <3>2 DEF Emit
  <2> QED BY <1>1, <1>2, <1>3, <2>1, <2>2, FloorKept
<1>8. CASE Clamp \/ SearchDone \/ UNCHANGED searchVars
  <2>1. /\ job' = job /\ facts' = facts /\ spec' = spec /\ outcome' = outcome
        /\ UNCHANGED <<plan, extra, repairs>> /\ status' = status
        /\ stage' \notin {"floor", "done"} => stage \notin {"floor", "done"}
    BY <1>8 DEF Clamp, SearchDone, searchVars, search, vars, loop
  <2> QED BY <1>1, <1>2, <1>3, <2>1, FloorKept
<1>9. CASE Issue
  <2>1. /\ facts' = facts /\ spec' = spec /\ UNCHANGED <<plan, extra, repairs>> /\ status' = status
        /\ stage = "issue" /\ \E chosen, next : Build(chosen, next)
    BY <1>9 DEF Issue
  <2> QED BY <1>1, <1>3, <1>4, <2>1, FloorKept
<1>10. CASE DelayFetch
  <2>1. /\ facts' = facts /\ spec' = spec /\ UNCHANGED <<plan, extra>> /\ status' = status
        /\ (repairs' = repairs \/ repairs' = repairs + 1)
        /\ stage = "simulate" /\ \E chosen, next : Build(chosen, next)
    BY <1>10 DEF DelayFetch, Failed
  <2> QED BY <1>1, <1>3, <1>4, <2>1, FloorKept
<1>11. CASE Validate \/ Accept
  <2>1. /\ job' = job /\ facts' = facts /\ spec' = spec /\ outcome' = outcome
        /\ UNCHANGED <<plan, extra, repairs>>
        /\ stage \notin {"floor", "done"}
        /\ status' \in {status, "schedule_validation", "validation_error", "exhausted", "valid"}
    BY <1>11 DEF Validate, Accept, Finish, vars, loop
  <2>2. status' = status \/ status' \notin {"analytic_capacity", "fetch_window"}
    BY <2>1
  <2> QED BY <1>1, <1>2, <1>3, <2>1, <2>2, FloorKept
<1>12. CASE SimulateStep
  <2>1. /\ job' = job /\ facts' = facts /\ spec' = spec /\ outcome' \in Reports \cup {None}
        /\ UNCHANGED <<plan, extra, repairs>> /\ status' = status /\ stage' = stage
    BY <1>1, <1>12, StepKeepsJob, StepReports DEF SimulateStep, search
  <2> QED BY <1>1, <1>2, <1>3, <2>1, FloorKept
<1>13. CASE RepairPressure
  <2>1. /\ job' = [job EXCEPT !.actions = <<>>] /\ facts' = facts /\ spec' = spec
        /\ repairs' = repairs + 1 /\ stage = "simulate"
    BY <1>13 DEF RepairPressure, Restart, Failed
  <2>2. SameProgram
    BY <1>1, <2>1, Rebuilt DEF SameProgram
  <2>3. PICK p : outcome' = InitializeMemory(p).outcome
    BY <1>13 DEF RepairPressure, Restart
  <2>4. outcome' \in Reports \cup {None}
    BY <2>3 DEF InitializeMemory, Reports
  <2> QED BY <1>1, <1>3, <2>1, <2>2, <2>4, FloorKept
<1>14. CASE GiveUp
  <2>1. /\ job' = job /\ facts' = facts /\ spec' = spec /\ outcome' = outcome
        /\ UNCHANGED <<plan, extra, repairs>> /\ stage' = "done"
        /\ status' \in {"exhausted", outcome} /\ outcome # None
    BY <1>14 DEF GiveUp, Failed, Finish, vars, loop
  <2>2. status' \notin {"analytic_capacity", "fetch_window"}
    BY <1>1, <2>1 DEF Reports
  <2> QED BY <1>1, <1>2, <1>3, <2>1, <2>2, FloorKept
<1> QED BY <1>5, <1>6, <1>7, <1>8, <1>9, <1>10, <1>11, <1>12, <1>13, <1>14
        DEF SearchNext, SearchStep

\* assert_required_floor: once the floor of anchors and fresh outputs fits, the
\* first reduction of a tight strategy always finds a cut where a boundary is
\* over budget, and every reload of the plan it reaches has a trigger.
THEOREM SearchFloorSuffices ==
  ASSUME \A p \in Problems : EntersResident(p)
  PROVE  SearchSpec => []FloorSuffices
<1> DEFINE I == SearchInv /\ FloorInv /\ Entered
<1>1. SearchInit => I
  <2> SUFFICES ASSUME SearchInit PROVE I
    OBVIOUS
  <2>1. SearchInv /\ Planning
    BY SearchInitInv DEF SearchInv
  <2>2. job \in Problems /\ Shaped(job) /\ facts = BuildFacts(job)
    BY ProblemsShaped DEF SearchInit, Init
  <2>3. Entered
    BY <2>2, BuiltFacts
  <2> QED BY <2>1, <2>3, FloorInitInv
<1>2. I /\ [SearchNext]_searchVars => I'
  BY SearchNextInv, FloorNextInv
<1>3. I => FloorSuffices
  BY DEF FloorInv, FloorSuffices
<1> HIDE DEF I
<1> QED BY <1>1, <1>2, <1>3, PTL DEF SearchSpec
=============================================================================
