-------------------------- MODULE TransfersProofs --------------------------
(***************************************************************************)
(* What the hand-off between dispatcher, worker and lanes guarantees, for  *)
(* any number of objects, any plan and any number of actions and tasks:    *)
(* every task reads the version it expects, no spill copy a mutation       *)
(* overtook is taken for the newest, no range is free or retired while     *)
(* something still uses it, a reused range is written only after what      *)
(* retired it, and a plan fails no object.                                 *)
(*                                                                         *)
(* The open actions of an object form a chain: only the first is dispatched*)
(* or in flight, a departure is the last but for the fetch behind it, and  *)
(* versions rise along it.  Where the object is, the state of its range    *)
(* and whether its spill copy is worth reading follow from that chain      *)
(* (Located, LeaseStates, Worth).  What its range will hold when each      *)
(* launched task runs follows from the tasks that have still to run        *)
(* (Chained), and every copy out finds at least the version it was         *)
(* scheduled for (Reached).  Each is kept by every step only together with *)
(* the others, so the invariant is their conjunction.                      *)
(***************************************************************************)
EXTENDS Transfers, FiniteSetTheorems, SequenceTheorems, TLAPS

\* What the theorems ask of the plans.
InScope == \A p \in Plans : PlanInScope(p)

-----------------------------------------------------------------------------
(* The invariant.                                                          *)

AllStates == {"QUEUED", "IN_FLIGHT", "FINISHED"}
ActionRecord ==
  [kind : AllKinds, obj : Objects, background : BOOLEAN, task : Nat, state : AllStates,
   version : Nat, exec : BOOLEAN, spill : BOOLEAN, skips : BOOLEAN, late : BOOLEAN,
   destination : BOOLEAN, lease : Nat, pred : (Objects \X Nat) \cup {NoRange}, waits : Events,
   sequence : Nat]
LaunchRecord ==
  [obj : Objects, lease : Nat, mutates : BOOLEAN, expects : Nat, saw : Int, waits : SUBSET Nat]
LeaseRecord ==
  [data : Int, event : Events, state : {"IN_USE", "RETIRE_PENDING", "FREE"}]
ObjectRecord ==
  [residency : {"EXECUTION_READY", "FETCHING", "SPILL_ONLY", "EVICTING", "RELEASED"},
   version : Nat, lease : Nat, execVersion : Nat, spill : BOOLEAN, spillCurrent : BOOLEAN,
   spillVersion : Nat, readiness : Nat, unpublished : Nat]

Types ==
  /\ plan \in Plans
  /\ obj \in [Objects -> ObjectRecord]
  /\ leases \in [Objects -> Seq(LeaseRecord)]
  /\ acts \in Seq(ActionRecord)
  /\ fifo \in [Objects -> Seq(Nat)]
  /\ tasks \in Seq(LaunchRecord)
  /\ ran \in 0 .. Len(tasks)
  /\ lane \in [Routes -> Seq(Nat)]
  /\ copied \subseteq DOMAIN acts
  /\ spilled \in [Objects -> Int]
  /\ sequences \in Nat
  /\ published \in 0 .. Len(acts)
  /\ worker \in [at : {"idle", "lane", "done"}, action : Nat, version : Nat]
  /\ boundary \in [at : {"idle", "task", "batch", "await"}, background : BOOLEAN,
                   update : Objects \cup {None}, batch : Seq(Nat)]

Open(a) == acts[a].state # "FINISHED"
Behind(a, b) == acts[a].obj = acts[b].obj /\ Open(a) /\ Open(b) /\ a < b
First(a) == a \in DOMAIN acts /\ Open(a) /\ \A b \in DOMAIN acts : ~Behind(b, a)
Done(a) == worker.at = "done" /\ worker.action = a
InHand(a) == worker.at = "lane" /\ worker.action = a
Fetch(a) == acts[a].kind = "FETCH"
Leaves(a) == acts[a].kind \in {"EVICT", "RELEASE"}
Waiting(a) == Fetch(a) /\ acts[a].state = "QUEUED"
Leaving(o) == \E a \in DOMAIN acts : acts[a].obj = o /\ Open(a) /\ Leaves(a)

\* An object's fifo is its open actions in the order they were scheduled.
Pending(o) == {a \in DOMAIN acts : acts[a].obj = o /\ Open(a)}
Listed ==
  \A o \in Objects :
    /\ \A i \in DOMAIN fifo[o] : fifo[o][i] \in Pending(o)
    /\ \A a \in Pending(o) : \E i \in DOMAIN fifo[o] : fifo[o][i] = a
    /\ \A i, j \in DOMAIN fifo[o] : i < j => fifo[o][i] < fifo[o][j]

\* What an action says of itself.
Static ==
  \A a \in DOMAIN acts :
    /\ acts[a].exec = (acts[a].kind \in {"FETCH", "WRITE_BACK"})
    /\ acts[a].skips => acts[a].kind = "WRITE_BACK"
    /\ acts[a].late => acts[a].kind = "RELEASE"
    /\ acts[a].kind \in {"EVICT", "WRITE_BACK"} => acts[a].spill
    /\ Fetch(a) => acts[a].spill = (acts[a].obj \in plan.retained)
    /\ acts[a].task <= Len(tasks)
    /\ acts[a].lease \in 0 .. Len(leases[acts[a].obj])
    /\ ~Queued(a) => acts[a].lease = 0

\* How the open actions of an object follow each other: a fetch, while it is
\* queued, is the last and behind a departure; once submitted it is the first.
Order ==
  \A a, b \in DOMAIN acts : Behind(a, b) =>
    /\ Leaves(a) => Fetch(b)
    /\ Fetch(b) => /\ Waiting(b)
                   /\ \E c \in DOMAIN acts : /\ acts[c].obj = acts[a].obj /\ Open(c) /\ Leaves(c)
                                             /\ a <= c /\ c < b
    /\ ~Waiting(a)
    /\ acts[a].version <= acts[b].version

\* The boundary that scheduled a fetch stays until the worker has submitted it.
Awaited ==
  \A a \in DOMAIN acts : Waiting(a) =>
    /\ boundary.at \in {"batch", "await"}
    /\ \E i \in DOMAIN boundary.batch : boundary.batch[i] = a
    /\ acts[a].task = Len(tasks)
    /\ acts[a].version = obj[acts[a].obj].version

Versions ==
  \A a \in DOMAIN acts : Open(a) =>
    /\ acts[a].version <= obj[acts[a].obj].version
    /\ Leaves(a) => /\ acts[a].version = obj[acts[a].obj].version
                    /\ \A t \in DOMAIN tasks : tasks[t].obj = acts[a].obj => t <= acts[a].task

Unpublished ==
  \A o \in Objects :
    obj[o].unpublished = IF \E a \in DOMAIN acts : acts[a].obj = o /\ Waiting(a) THEN 1 ELSE 0

\* How far an action is.
Stages ==
  \A a \in DOMAIN acts :
    /\ ~Open(a) /\ Queued(a) => a \in copied
    /\ a \in copied => Queued(a) /\ acts[a].state # "QUEUED" /\ (~Fetch(a) => Triggered(a))
    /\ acts[a].state = "IN_FLIGHT" =>
         /\ Queued(a) /\ First(a) /\ acts[a].lease # 0
         /\ ~Done(a) => acts[a].lease = obj[acts[a].obj].lease
         /\ Copies(a) => obj[acts[a].obj].spill
    /\ acts[a].state = "QUEUED" =>
         /\ Fetch(a) /\ ~InHand(a) => acts[a].lease = 0 /\ acts[a].destination
         /\ Copies(a) /\ acts[a].lease # 0 => acts[a].lease = obj[acts[a].obj].lease
         /\ Copies(a) /\ ~acts[a].destination =>
              /\ obj[acts[a].obj].spill
              /\ acts[a].obj \in plan.retained \/ First(a)

OnLanes ==
  \A r \in Routes : \A i \in DOMAIN lane[r] :
    /\ lane[r][i] \in DOMAIN acts
    /\ lane[r][i] \notin copied => acts[lane[r][i]].state = "IN_FLIGHT"

\* The action between the two halves of its dispatch.
AtLane ==
  worker.at = "lane" =>
    LET a == worker.action
        x == obj[acts[a].obj]
    IN /\ First(a) /\ Queued(a) /\ acts[a].state = "QUEUED" /\ acts[a].lease # 0
       /\ IF Fetch(a)
          THEN /\ Fetchable(x) /\ x.lease = 0 /\ x.version = worker.version
               /\ leases[acts[a].obj][acts[a].lease].state = "IN_USE"
               /\ \A t \in DOMAIN tasks :
                    tasks[t].obj = acts[a].obj => tasks[t].lease # acts[a].lease
               /\ \A b \in DOMAIN acts :
                    acts[b].obj = acts[a].obj /\ acts[b].lease = acts[a].lease => b = a
          ELSE acts[a].lease = x.lease /\ x.spill

\* The action that is handled and not yet taken off its object's list.
AtDone ==
  worker.at = "done" =>
    LET a == worker.action IN
    /\ First(a)
    /\ IF Queued(a) THEN acts[a].state = "IN_FLIGHT" /\ a \in copied
                    ELSE acts[a].state = "QUEUED"

\* A copy of the newest version has made the spill copy current.
Committed ==
  worker.at = "done" =>
    LET a == worker.action
        x == obj[acts[a].obj]
    IN Copies(a) /\ acts[a].version = x.version => x.spillCurrent /\ x.spillVersion = x.version

\* Where an object is, by the first of its open actions.
Located ==
  \A o \in Objects :
    LET x == obj[o] IN
    /\ x.lease \in 0 .. Len(leases[o])
    /\ x.lease = 0 <=> x.residency \in {"SPILL_ONLY", "RELEASED"}
    /\ x.lease # 0 => x.execVersion = x.version
    /\ x.residency = "RELEASED" => ~x.spillCurrent
    /\ x.spillCurrent => x.spill
    /\ x.residency = "FETCHING" =>
         LET f == x.readiness IN
         /\ f \in DOMAIN acts /\ acts[f].obj = o /\ Fetch(f)
         /\ acts[f].state = "IN_FLIGHT" /\ ~Done(f)
    /\ x.residency = "EVICTING" => Leaving(o)
    /\ \A a \in DOMAIN acts : acts[a].obj = o /\ First(a) =>
         /\ x.lease = 0 <=> Waiting(a) \/ (Leaves(a) /\ Done(a))
         /\ Fetch(a) /\ acts[a].state = "IN_FLIGHT" /\ ~Done(a) =>
              x.residency = "FETCHING" /\ x.readiness = a

\* The state of every lease, by the departure that is pending.
LeaseStates ==
  \A o \in Objects :
    LET x == obj[o] IN
    /\ \A g \in DOMAIN leases[o] :
         /\ leases[o][g].state = "IN_USE" => leases[o][g].event = NoEvent
         /\ g # x.lease =>
              \/ leases[o][g].state = "FREE"
              \/ InHand(worker.action) /\ acts[worker.action].obj = o /\ acts[worker.action].lease = g
    /\ x.lease # 0 /\ ~(\E a \in DOMAIN acts : acts[a].obj = o /\ Open(a) /\ Leaves(a) /\ ~acts[a].late) =>
         leases[o][x.lease].state = "IN_USE"
    /\ x.lease # 0 => \A a \in DOMAIN acts :
         acts[a].obj = o /\ Open(a) /\ Leaves(a) /\ ~acts[a].late =>
           /\ leases[o][x.lease].state = "RETIRE_PENDING"
           /\ leases[o][x.lease].event =
                IF acts[a].kind = "RELEASE" THEN << "task", acts[a].task >>
                ELSE IF acts[a].state = "QUEUED" THEN NoEvent ELSE << "copy", a >>

\* The object a running boundary is about to mutate.
Updating ==
  \A o \in Objects : boundary.update = o =>
    boundary.at = "task" /\ obj[o].residency \in OnDevice /\ ~Leaving(o)

\* Who still touches which range.
Unrun(o) == {t \in ran + 1 .. Len(tasks) : tasks[t].obj = o}
Users ==
  /\ \A t \in DOMAIN tasks : tasks[t].lease \in 1 .. Len(leases[tasks[t].obj])
  /\ \A o \in Objects : \A t \in Unrun(o) : tasks[t].lease = obj[o].lease
  /\ \A a \in DOMAIN acts :
       a \notin copied /\ acts[a].lease # 0 /\ ~InHand(a) => acts[a].lease = obj[acts[a].obj].lease
  /\ \A t \in 1 .. ran : tasks[t].waits \subseteq copied

\* Tasks wait for the fetch of what they use.
Waits ==
  \A b \in DOMAIN acts : \A t \in DOMAIN tasks :
    /\ b \notin copied /\ Fetch(b) /\ tasks[t].obj = acts[b].obj /\ Open(b) =>
       /\ t > acts[b].task => b \in tasks[t].waits
       /\ acts[b].state = "IN_FLIGHT" /\ t > ran => b \in tasks[t].waits

\* What a release may find before it: a fetch that one of its tasks waits for.
Releases ==
  \A a, b \in DOMAIN acts :
    Behind(b, a) /\ acts[a].kind = "RELEASE" /\ ~acts[a].late /\ Queued(b) /\ b \notin copied =>
      Fetch(b) /\ \E t \in DOMAIN tasks : t <= acts[a].task /\ b \in tasks[t].waits

\* Which spill copies are worth reading, now or when the first actions are done.
Current(o) == obj[o].spill /\ obj[o].spillCurrent /\ obj[o].spillVersion = obj[o].version
Refreshed(o, a) ==
  \/ /\ Current(o)
     /\ o \notin plan.retained =>
          \A b \in DOMAIN acts : Fetch(b) => ~Behind(b, a)
  \/ \E b \in DOMAIN acts : Behind(b, a) /\ Copies(b) /\ acts[b].version = obj[o].version
Worth ==
  \A a \in DOMAIN acts : Open(a) =>
    LET o == acts[a].obj IN
    /\ obj[o].spillCurrent /\ obj[o].spillVersion = obj[o].version =>
         acts[a].version = obj[o].version
    /\ /\ acts[a].version = obj[o].version /\ (acts[a].spill \/ Waiting(a)) /\ ~Copies(a)
       => Refreshed(o, a) \/ (Fetch(a) /\ ~Waiting(a) /\ o \notin plan.retained)
    /\ Copies(a) /\ a \in copied /\ acts[a].version = obj[o].version /\ boundary.update # o =>
         spilled[o] = obj[o].version

\* What a range holds, followed along the tasks that have still to run.
Loading(o) == obj[o].residency = "FETCHING" /\ obj[o].readiness \notin copied
Held(o) == IF Loading(o) THEN spilled[o] ELSE leases[o][obj[o].lease].data
After(o, r) ==
  IF r = ran THEN Held(o) ELSE IF tasks[r].mutates THEN tasks[r].expects + 1 ELSE tasks[r].expects
Upcoming(o) == IF boundary.update = o THEN obj[o].version + 1 ELSE obj[o].version
Expected(o, s) == IF s \in DOMAIN tasks THEN tasks[s].expects ELSE Upcoming(o)
Points(o) == {ran} \cup Unrun(o)
Chained ==
  \A o \in Objects : obj[o].lease # 0 =>
    \A r \in Points(o), s \in Unrun(o) \cup {Len(tasks) + 1} :
      r < s /\ (\A u \in Unrun(o) : ~(r < u /\ u < s)) => Expected(o, s) = After(o, r)
Bounded ==
  \A o \in Objects : obj[o].lease # 0 => \A r \in Points(o) : After(o, r) <= Upcoming(o)
Reached ==
  \A a \in DOMAIN acts : Open(a) /\ Copies(a) /\ obj[acts[a].obj].lease # 0 =>
    \A r \in Points(acts[a].obj) :
      (\A u \in Unrun(acts[a].obj) : ~(r < u /\ u <= acts[a].task)) =>
        acts[a].version <= After(acts[a].obj, r)

\* Destinations over a range that was retiring when it was promised.
Reused ==
  \A a \in DOMAIN acts : acts[a].pred # NoRange =>
    LET range == acts[a].pred IN
    /\ Fetch(a) /\ range[1] \in Objects
    /\ range[2] \in DOMAIN leases[range[1]] /\ Lease(range).state # "IN_USE"
    /\ acts[a].lease # 0 =>
         Lease(range).state = "FREE" \/ (acts[a].waits = Lease(range).event /\ acts[a].waits # NoEvent)
    /\ a \in copied => Lease(range).state = "FREE" \/ Complete(Lease(range).event)

Lists == Listed /\ Static /\ Order /\ Awaited /\ Versions /\ Unpublished
Flights == Stages /\ OnLanes /\ AtLane /\ AtDone
Places == Located /\ LeaseStates /\ Updating
Uses == Users /\ Waits /\ Releases
Values == Worth /\ Chained /\ Bounded /\ Reached /\ SpillCopyTrue /\ TasksReadCurrent
IInv == Types /\ Lists /\ Flights /\ Places /\ Uses /\ Values /\ Reused /\ PlanNeverFails
        /\ Committed

-----------------------------------------------------------------------------
(* What the list of an object says.                                        *)

\* A list with one element replaced.
LEMMA Replaced ==
  ASSUME NEW S, NEW list \in Seq(S), NEW i \in DOMAIN list, NEW e \in S, NEW new,
         new = [list EXCEPT ![i] = e]
  PROVE  /\ new \in Seq(S) /\ Len(new) = Len(list) /\ DOMAIN new = DOMAIN list
         /\ new[i] = e /\ \A j \in DOMAIN list : j # i => new[j] = list[j]
<1>1. DOMAIN list = 1 .. Len(list) /\ Len(list) \in Nat /\ list \in [1 .. Len(list) -> S]
  OBVIOUS
<1>2. new \in [1 .. Len(list) -> S]
  BY <1>1
<1>3. new \in Seq(S) /\ Len(new) = Len(list)
  BY <1>1, <1>2
<1> QED BY <1>1, <1>3

\* The head of an object's fifo, the only action the worker takes for it, is the
\* object's first open action.
LEMMA HeadFirst ==
  ASSUME Types, Listed, NEW o \in Objects, fifo[o] # << >>
  PROVE  First(Head(fifo[o])) /\ acts[Head(fifo[o])].obj = o
<1>1. fifo[o] \in Seq(Nat) /\ 1 \in DOMAIN fifo[o] /\ Head(fifo[o]) = fifo[o][1]
  BY DEF Types
<1>2. fifo[o][1] \in Pending(o)
  BY <1>1 DEF Listed
<1>3. ASSUME NEW b \in DOMAIN acts, Behind(b, fifo[o][1])
      PROVE  FALSE
  <2>1. b \in Pending(o)
    BY <1>2, <1>3 DEF Behind, Pending
  <2>2. PICK i \in DOMAIN fifo[o] : fifo[o][i] = b
    BY <2>1 DEF Listed
  <2>3. i = 1 \/ fifo[o][1] < fifo[o][i]
    BY <1>1, <2>2 DEF Listed
  <2>4. b \in Int /\ fifo[o][1] \in Int
    <3>1. acts \in Seq(ActionRecord)
      BY DEF Types
    <3>2. b \in Int
      BY <3>1
    <3>3. fifo[o][1] \in Int
      BY <1>1
    <3> QED BY <3>2, <3>3
  <2> QED BY <1>3, <2>2, <2>3, <2>4 DEF Behind
<1> QED BY <1>1, <1>2, <1>3 DEF First, Pending

\* The tail of the fifo, which schedule_action projects from, is the last open action.
LEMMA LastBehind ==
  ASSUME Types, Listed, NEW o \in Objects, fifo[o] # << >>
  PROVE  LET z == Last(fifo[o]) IN
         /\ z \in DOMAIN acts /\ acts[z].obj = o /\ Open(z)
         /\ \A b \in DOMAIN acts : ~Behind(z, b)
<1> DEFINE n == Len(fifo[o])
<1>1. fifo[o] \in Seq(Nat) /\ n \in DOMAIN fifo[o] /\ Last(fifo[o]) = fifo[o][n]
  BY DEF Types, Last
<1>2. fifo[o][n] \in Pending(o)
  BY <1>1 DEF Listed
<1>3. ASSUME NEW b \in DOMAIN acts, Behind(fifo[o][n], b)
      PROVE  FALSE
  <2>1. b \in Pending(o)
    BY <1>2, <1>3 DEF Behind, Pending
  <2>2. PICK i \in DOMAIN fifo[o] : fifo[o][i] = b
    BY <2>1 DEF Listed
  <2>3. i = n \/ fifo[o][i] < fifo[o][n]
    BY <1>1, <2>2 DEF Listed
  <2>4. b \in Int /\ fifo[o][n] \in Int
    <3>1. acts \in Seq(ActionRecord)
      BY DEF Types
    <3>2. b \in Int
      BY <3>1
    <3>3. fifo[o][n] \in Int
      BY <1>1
    <3> QED BY <3>2, <3>3
  <2> QED BY <1>3, <2>2, <2>3, <2>4 DEF Behind
<1> QED BY <1>1, <1>2, <1>3 DEF Pending

\* An empty fifo: nothing is open on the object.
LEMMA NoneOpen ==
  ASSUME Types, Listed, NEW o \in Objects, fifo[o] = << >>, NEW a \in DOMAIN acts, acts[a].obj = o
  PROVE  ~Open(a)
BY DEF Listed, Pending

\* The worker handles first actions only.
LEMMA HandledFirst ==
  ASSUME Types, Listed, NEW a, Handles(a)
  PROVE  a \in DOMAIN acts /\ First(a) /\ acts[a].obj \in Objects /\ acts[a] \in ActionRecord
<1>1. a \in DOMAIN acts
  BY DEF Handles, Types
<1>2. acts \in Seq(ActionRecord)
  BY DEF Types
<1>3. acts[a] \in ActionRecord
  BY <1>1, <1>2
<1>4. acts[a].obj \in Objects
  BY <1>3 DEF ActionRecord
<1> QED BY <1>1, <1>3, <1>4, HeadFirst DEF Handles

\* One action of an object at a time is the first.
LEMMA OneFirst ==
  ASSUME Types, NEW a, NEW b, First(a), First(b), acts[a].obj = acts[b].obj
  PROVE  a = b
<1>1. a \in Nat /\ b \in Nat
  BY DEF Types, First
<1> QED BY <1>1 DEF First, Behind

\* The registered objects, and nothing scheduled.
LEMMA InitInv == Init => IInv
<1> SUFFICES ASSUME Init PROVE IInv
  OBVIOUS
<1> USE PlansAssumption, ObjectsAssumption
<1>1. Types
  <2>1. obj \in [Objects -> ObjectRecord]
    <3>1. \A o \in Objects : Registered(o) \in ObjectRecord
      BY DEF Registered, ObjectRecord
    <3> QED BY <3>1 DEF Init
  <2>2. leases \in [Objects -> Seq(LeaseRecord)]
    <3>1. Live \in LeaseRecord
      BY DEF Live, LeaseRecord, Events, NoEvent
    <3>2. << Live >> \in Seq(LeaseRecord) /\ << >> \in Seq(LeaseRecord)
      BY <3>1
    <3> HIDE DEF Live
    <3> QED BY <3>2 DEF Init
  <2>3. /\ worker \in [at : {"idle", "lane", "done"}, action : Nat, version : Nat]
        /\ boundary \in [at : {"idle", "task", "batch", "await"}, background : BOOLEAN,
                         update : Objects \cup {None}, batch : Seq(Nat)]
    BY DEF Init, Idle, Outside
  <2>4. /\ fifo \in [Objects -> Seq(Nat)] /\ lane \in [Routes -> Seq(Nat)]
        /\ spilled \in [Objects -> Int]
    BY DEF Init
  <2>5. /\ plan \in Plans /\ acts \in Seq(ActionRecord) /\ tasks \in Seq(LaunchRecord)
        /\ ran \in 0 .. Len(tasks) /\ copied \subseteq DOMAIN acts /\ sequences \in Nat
        /\ published \in 0 .. Len(acts)
    BY DEF Init
  <2> QED BY <2>1, <2>2, <2>3, <2>4, <2>5 DEF Types
<1>2. Lists
  BY DEF Init, Lists, Listed, Pending, Static, Order, Awaited, Versions, Unpublished, Registered
<1>3. Flights
  BY DEF Init, Flights, Stages, OnLanes, AtLane, AtDone, Idle
<1>4. Places
  BY DEF Init, Places, Located, LeaseStates, Updating, Registered, Live, Outside, OnDevice, First
<1>5. Uses
  BY DEF Init, Uses, Users, Waits, Releases, Unrun
<1>6. Reused /\ PlanNeverFails
  BY DEF Init, Reused, PlanNeverFails
<1>7. Worth /\ Reached /\ SpillCopyTrue /\ TasksReadCurrent
  <2>1. Worth /\ Reached
    BY DEF Init, Worth, Reached
  <2>2. SpillCopyTrue
    BY DEF Init, SpillCopyTrue, Registered
  <2>3. TasksReadCurrent
    BY DEF Init, TasksReadCurrent
  <2> QED BY <2>1, <2>2, <2>3
<1>8. Chained /\ Bounded
  BY DEF Init, Chained, Bounded, Points, Unrun, Expected, After, Held, Loading, Upcoming, Registered,
         Outside, Live
<1>9. Committed
  BY DEF Init, Idle, Committed
<1> QED BY <1>1, <1>2, <1>3, <1>4, <1>5, <1>6, <1>7, <1>8, <1>9 DEF IInv, Values

-----------------------------------------------------------------------------
(* Steps that move nothing.                                                *)

\* The actions are the same but for their collective numbers.
SameActions ==
  /\ DOMAIN acts' = DOMAIN acts
  /\ \A a \in DOMAIN acts :
       /\ acts'[a].kind = acts[a].kind /\ acts'[a].obj = acts[a].obj
       /\ acts'[a].task = acts[a].task /\ acts'[a].state = acts[a].state
       /\ acts'[a].version = acts[a].version /\ acts'[a].exec = acts[a].exec
       /\ acts'[a].spill = acts[a].spill /\ acts'[a].skips = acts[a].skips
       /\ acts'[a].late = acts[a].late /\ acts'[a].destination = acts[a].destination
       /\ acts'[a].lease = acts[a].lease /\ acts'[a].pred = acts[a].pred
       /\ acts'[a].waits = acts[a].waits

\* Only a task boundary holds an object it is about to mutate.
LEMMA NoUpdate ==
  ASSUME Types, Updating, boundary.at # "task"
  PROVE  boundary.update = None
BY DEF Types, Updating

\* A step that moves neither objects, ranges, lists, tasks nor lanes, and keeps
\* what actions say of themselves, keeps the parts that speak of those only.
LEMMA Still ==
  ASSUME IInv, SameActions, Types', boundary'.update = boundary.update,
         boundary'.update \in Objects => (boundary'.at = "task" <=> boundary.at = "task"),
         UNCHANGED << plan, obj, leases, fifo, tasks, ran, lane, copied, spilled, failed >>
  PROVE  /\ Listed' /\ Static' /\ Order' /\ Versions' /\ Unpublished' /\ OnLanes'
         /\ Updating' /\ Waits' /\ Releases' /\ Values' /\ Reused' /\ PlanNeverFails'
<1> USE DEF SameActions
<1>1. Listed'
  BY DEF IInv, Lists, Listed, Pending, Open
<1>2. Static'
  BY DEF IInv, Lists, Static, Fetch, Queued
<1>9. Versions' /\ Unpublished'
  BY DEF IInv, Lists, Versions, Unpublished, Fetch, Open, Leaves, Waiting
<1>3. Order'
  BY DEF IInv, Lists, Order, Behind, Leaves, Fetch, Open, Waiting
<1>4. OnLanes' /\ Updating' /\ PlanNeverFails'
  BY DEF IInv, Flights, Places, OnLanes, Updating, PlanNeverFails, Leaving, Open, Leaves
<1>5. Waits' /\ Releases'
  BY DEF IInv, Uses, Waits, Releases, Behind, Fetch, Open, Queued
<1>6. Worth'
  BY DEF IInv, Values, Worth, Refreshed, Current, Copies, Open, Waiting, Fetch, Behind
<1>7. Chained' /\ Bounded' /\ Reached' /\ SpillCopyTrue' /\ TasksReadCurrent'
  BY DEF IInv, Values, Chained, Bounded, Reached, SpillCopyTrue, TasksReadCurrent, Points, Unrun,
         Expected, After, Held, Loading, Upcoming, Copies, Open
<1>8. Reused'
  <2>1. \A event : Complete(event)' <=> Complete(event)
    BY DEF Complete
  <2> QED BY <2>1 DEF IInv, Reused, Fetch, Lease
<1> QED BY <1>1, <1>2, <1>3, <1>4, <1>5, <1>6, <1>7, <1>8, <1>9 DEF Values

\* An action batch opens (begin_action_batch).
LEMMA BeginActionBatchInv ==
  ASSUME IInv, BeginActionBatch
  PROVE  IInv'
<1>1. boundary' = [at |-> "batch", background |-> TRUE, update |-> None, batch |-> << >>]
  BY DEF BeginActionBatch, Outside
<1>2. Types'
  <2>1. boundary' \in [at : {"idle", "task", "batch", "await"}, background : BOOLEAN,
                       update : Objects \cup {None}, batch : Seq(Nat)]
    BY <1>1
  <2> QED BY <2>1 DEF BeginActionBatch, IInv, Types, device
<1>3. boundary.update = None
  BY NoUpdate DEF BeginActionBatch, IInv, Places
<1>4. SameActions
  BY DEF BeginActionBatch, SameActions
<1>5. /\ Listed' /\ Static' /\ Order' /\ Versions' /\ Unpublished' /\ OnLanes'
      /\ Updating' /\ Waits' /\ Releases' /\ Values' /\ Reused' /\ PlanNeverFails'
  <2>1. boundary.at = "idle"
    BY DEF BeginActionBatch
  <2>2. boundary'.at = "batch" /\ boundary'.update = None
    BY <1>1, SMTT(20)
  <2> QED BY <1>2, <1>3, <1>4, <2>1, <2>2, Still DEF BeginActionBatch, device
<1>6. Awaited'
  BY <1>1, SMTT(20) DEF BeginActionBatch, device, IInv, Lists, Awaited, Waiting, Fetch
<1>7. Stages' /\ AtLane' /\ AtDone' /\ Located' /\ LeaseStates' /\ Users'
  BY DEF BeginActionBatch, device, IInv, Flights, Places, Uses, Stages, AtLane, AtDone, Located,
         LeaseStates, Users, Unrun, First, Open, Behind, Done, InHand, Fetch, Queued, Copies,
         Triggered, Fetchable, Leaving, Leaves, Waiting
<1>8. Committed'
  BY DEF BeginActionBatch, device, IInv, Committed, Copies
<1> QED BY <1>2, <1>5, <1>6, <1>7, <1>8 DEF IInv, Lists, Flights, Places, Uses

\* The boundary's last wait ends.
LEMMA AcknowledgeInv ==
  ASSUME IInv, Acknowledge
  PROVE  IInv'
<1>1. boundary' = [at |-> "idle", background |-> FALSE, update |-> None, batch |-> << >>]
  BY DEF Acknowledge, Outside
<1>2. boundary'.at = "idle" /\ boundary'.update = None
  BY <1>1
<1>3. Types'
  <2>1. boundary' \in [at : {"idle", "task", "batch", "await"}, background : BOOLEAN,
                       update : Objects \cup {None}, batch : Seq(Nat)]
    BY <1>1
  <2> QED BY <2>1 DEF Acknowledge, IInv, Types, device
<1>4. boundary.at = "await" /\ boundary.update = None
  BY NoUpdate DEF Acknowledge, IInv, Places
<1>5. SameActions
  BY DEF Acknowledge, SameActions
<1>6. /\ Listed' /\ Static' /\ Order' /\ Versions' /\ Unpublished' /\ OnLanes'
      /\ Updating' /\ Waits' /\ Releases' /\ Values' /\ Reused' /\ PlanNeverFails'
  BY <1>2, <1>3, <1>4, <1>5, Still DEF Acknowledge, device
<1>7. Awaited'
  BY SMTT(20) DEF Acknowledge, device, IInv, Lists, Awaited, Waiting, Fetch
<1>8. Stages' /\ AtLane' /\ AtDone' /\ Located' /\ LeaseStates' /\ Users'
  BY DEF Acknowledge, device, IInv, Flights, Places, Uses, Stages, AtLane, AtDone, Located,
         LeaseStates, Users, Unrun, First, Open, Behind, Done, InHand, Fetch, Queued, Copies,
         Triggered, Fetchable, Leaving, Leaves, Waiting
<1>9. Committed'
  BY DEF Acknowledge, device, IInv, Committed, Copies
<1> QED BY <1>3, <1>6, <1>7, <1>8, <1>9 DEF IInv, Lists, Flights, Places, Uses

\* Numbering the collective copies of a batch changes no other field.
LEMMA NumberedSame ==
  ASSUME Types, acts' = Numbered
  PROVE  SameActions /\ acts' \in Seq(ActionRecord)
<1>1. ASSUME NEW a PROVE Place(a, "evict") \in Nat
  <2> DEFINE ahead == {b \in Collectives :
                         IF Route(b) = Route(a) THEN b <= a ELSE Route(b) = "evict"}
  <2>1. DOMAIN boundary.batch = 1 .. Len(boundary.batch) /\ Len(boundary.batch) \in Nat
    BY DEF Types
  <2>2. IsFiniteSet(DOMAIN boundary.batch)
    BY <2>1, FS_Interval
  <2>3. boundary.batch \in Surjection(DOMAIN boundary.batch, Range(boundary.batch))
    <3>1. boundary.batch \in Seq(Nat)
      BY DEF Types
    <3> QED BY <3>1 DEF Surjection, Range
  <2>4. IsFiniteSet(Range(boundary.batch))
    BY <2>2, <2>3, FS_Surjection
  <2>5. ahead \subseteq Range(boundary.batch)
    BY DEF Collectives
  <2>6. IsFiniteSet(ahead)
    BY <2>4, <2>5, FS_Subset
  <2> QED BY <2>6, FS_CardinalityType DEF Place
<1>2. DOMAIN acts' = DOMAIN acts /\ DOMAIN acts = 1 .. Len(acts) /\ Len(acts) \in Nat
  BY DEF Numbered, Types
<1>3. ASSUME NEW a \in DOMAIN acts
      PROVE  /\ acts'[a] \in ActionRecord
             /\ \E n \in Nat : acts'[a] = [acts[a] EXCEPT !.sequence = n]
  <2>1. acts[a] \in ActionRecord
    BY DEF Types
  <2>2. CASE a \in Collectives
    <3> DEFINE n == sequences + Place(a, "evict")
    <3>1. n \in Nat
      BY <1>1 DEF Types
    <3>2. acts'[a] = [acts[a] EXCEPT !.sequence = n]
      BY <2>2 DEF Numbered
    <3> HIDE DEF n
    <3> QED BY <2>1, <3>1, <3>2 DEF ActionRecord
  <2>3. CASE a \notin Collectives
    <3>1. acts'[a] = acts[a]
      BY <2>3 DEF Numbered
    <3>2. acts[a] = [acts[a] EXCEPT !.sequence = acts[a].sequence] /\ acts[a].sequence \in Nat
      BY <2>1 DEF ActionRecord
    <3> QED BY <2>1, <3>1, <3>2
  <2> QED BY <2>2, <2>3
<1>4. SameActions
  <2>1. ASSUME NEW a \in DOMAIN acts, NEW n \in Nat, acts'[a] = [acts[a] EXCEPT !.sequence = n]
        PROVE  /\ acts'[a].kind = acts[a].kind /\ acts'[a].obj = acts[a].obj
               /\ acts'[a].task = acts[a].task /\ acts'[a].state = acts[a].state
               /\ acts'[a].version = acts[a].version /\ acts'[a].exec = acts[a].exec
               /\ acts'[a].spill = acts[a].spill /\ acts'[a].skips = acts[a].skips
               /\ acts'[a].late = acts[a].late /\ acts'[a].destination = acts[a].destination
               /\ acts'[a].lease = acts[a].lease /\ acts'[a].pred = acts[a].pred
               /\ acts'[a].waits = acts[a].waits
    <3>1. acts[a] \in ActionRecord
      BY DEF Types
    <3> QED BY <2>1, <3>1 DEF ActionRecord
  <2> QED BY <1>2, <1>3, <2>1 DEF SameActions
<1>5. acts' \in Seq(ActionRecord)
  <2>1. acts' \in [1 .. Len(acts) -> ActionRecord]
    BY <1>2, <1>3 DEF Numbered
  <2> QED BY <1>2, <2>1
<1> QED BY <1>4, <1>5

\* The batch is numbered and published to the worker.
LEMMA PublishBatchInv ==
  ASSUME IInv, PublishBatch
  PROVE  IInv'
<1>1. SameActions /\ acts' \in Seq(ActionRecord) /\ Len(acts') = Len(acts)
  <2>1. SameActions /\ acts' \in Seq(ActionRecord)
    BY NumberedSame DEF PublishBatch, IInv
  <2> QED BY <2>1 DEF SameActions, IInv, Types
<1>2. boundary.at = "batch" /\ boundary.update = None
  BY NoUpdate DEF PublishBatch, IInv, Places
<1>3. /\ boundary' \in [at : {"idle", "task", "batch", "await"}, background : BOOLEAN,
                        update : Objects \cup {None}, batch : Seq(Nat)]
      /\ boundary'.at \in {"idle", "await"} /\ boundary'.update = None
      /\ boundary.batch # << >> => boundary'.at = "await" /\ boundary'.batch = boundary.batch
  <2>1. CASE boundary.batch = << >>
    <3>1. boundary' = [at |-> "idle", background |-> FALSE, update |-> None, batch |-> << >>]
      BY <2>1 DEF PublishBatch, Outside
    <3> QED BY <2>1, <3>1
  <2>2. CASE boundary.batch # << >>
    <3>1. boundary' = [boundary EXCEPT !.at = "await"]
      BY <2>2 DEF PublishBatch
    <3> QED BY <1>2, <2>2, <3>1 DEF IInv, Types
  <2> QED BY <2>1, <2>2
<1>4. Types'
  <2>1. sequences' \in Nat
    <3>1. DOMAIN boundary.batch = 1 .. Len(boundary.batch) /\ Len(boundary.batch) \in Nat
      BY DEF IInv, Types
    <3>2. IsFiniteSet(DOMAIN boundary.batch)
      BY <3>1, FS_Interval
    <3>3. boundary.batch \in Surjection(DOMAIN boundary.batch, Range(boundary.batch))
      <4>1. boundary.batch \in Seq(Nat)
        BY DEF IInv, Types
      <4> QED BY <4>1 DEF Surjection, Range
    <3>4. IsFiniteSet(Range(boundary.batch))
      BY <3>2, <3>3, FS_Surjection
    <3>5. Collectives \subseteq Range(boundary.batch)
      BY DEF Collectives
    <3>6. Cardinality(Collectives) \in Nat
      BY <3>4, <3>5, FS_Subset, FS_CardinalityType
    <3> QED BY <3>6 DEF PublishBatch, IInv, Types
  <2> QED BY <1>1, <1>3, <2>1, SMTT(20) DEF PublishBatch, IInv, Types, device, SameActions
<1>5. /\ Listed' /\ Static' /\ Order' /\ Versions' /\ Unpublished' /\ OnLanes'
      /\ Updating' /\ Waits' /\ Releases' /\ Values' /\ Reused' /\ PlanNeverFails'
  BY <1>1, <1>2, <1>3, <1>4, Still DEF PublishBatch, device
<1>6. Awaited'
  <2>1. ASSUME NEW a \in DOMAIN acts, Waiting(a)
        PROVE  boundary'.at = "await" /\ boundary'.batch = boundary.batch
    BY <1>3, <2>1 DEF IInv, Lists, Awaited
  <2> QED BY <1>1, <1>2, <2>1 DEF SameActions, PublishBatch, device, IInv, Lists, Awaited, Waiting, Fetch
<1>7. /\ \A a \in DOMAIN acts : (Open(a)' <=> Open(a)) /\ (First(a)' <=> First(a))
      /\ \A a : (Done(a)' <=> Done(a)) /\ (InHand(a)' <=> InHand(a))
  BY <1>1 DEF SameActions, PublishBatch, device, First, Open, Behind, Done, InHand
<1>8. Stages'
  BY <1>1, <1>7 DEF SameActions, PublishBatch, device, IInv, Flights, Stages, Fetch, Queued, Copies, Triggered
<1>9. AtLane'
  BY <1>1, <1>7 DEF SameActions, PublishBatch, device, IInv, Flights, AtLane, Fetch, Queued, Fetchable, First
<1>10. AtDone'
  BY <1>1, <1>7 DEF SameActions, PublishBatch, device, IInv, Flights, AtDone, Queued, First
<1>11. Located'
  BY <1>1, <1>7 DEF SameActions, PublishBatch, device, IInv, Places, Located, Fetch, Leaving, Leaves, Waiting
<1>12. LeaseStates'
  BY <1>1, <1>7 DEF SameActions, PublishBatch, device, IInv, Flights, AtLane, First, InHand, Places, LeaseStates, Leaves
<1>13. Users'
  BY <1>1, <1>7 DEF SameActions, PublishBatch, device, IInv, Uses, Users, Unrun
<1>14. Committed'
  BY <1>1 DEF SameActions, PublishBatch, device, IInv, Flights, AtDone, First, Committed, Copies
<1> QED BY <1>4, <1>5, <1>6, <1>8, <1>9, <1>10, <1>11, <1>12, <1>13, <1>14 DEF IInv, Lists, Flights, Places, Uses

\* A write-back that has nothing to copy is handled without a lane.
LEMMA SkipWriteBackInv ==
  ASSUME IInv, NEW a, SkipWriteBack(a)
  PROVE  IInv'
<1>1. a \in DOMAIN acts /\ First(a) /\ acts[a].obj \in Objects /\ acts[a].kind = "WRITE_BACK"
      /\ ~Queued(a) /\ acts[a].state = "QUEUED" /\ worker.at = "idle" /\ a \in Nat
  <2>1. Handles(a) /\ acts[a].skips /\ acts[a].state = "QUEUED" /\ worker.at = "idle"
    BY DEF SkipWriteBack, Handles
  <2>2. a \in DOMAIN acts /\ First(a) /\ acts[a].obj \in Objects
    BY <2>1, HandledFirst DEF IInv, Lists
  <2>3. acts[a].kind = "WRITE_BACK" /\ a \in Nat
    BY <2>1, <2>2, SMTT(20) DEF IInv, Lists, Static, Types
  <2> QED BY <2>1, <2>2, <2>3 DEF Queued
<1>2. worker' = [at |-> "done", action |-> a, version |-> 0]
  BY DEF SkipWriteBack, Idle
<1>3. Types'
  <2>1. worker' \in [at : {"idle", "lane", "done"}, action : Nat, version : Nat]
    BY <1>1, <1>2
  <2> QED BY <2>1 DEF SkipWriteBack, IInv, Types, device
<1>4. SameActions
  BY DEF SkipWriteBack, SameActions
<1>5. /\ Listed' /\ Static' /\ Order' /\ Versions' /\ Unpublished' /\ OnLanes'
      /\ Updating' /\ Waits' /\ Releases' /\ Values' /\ Reused' /\ PlanNeverFails'
  BY <1>3, <1>4, Still DEF SkipWriteBack, device
<1>6. Awaited'
  BY DEF SkipWriteBack, device, IInv, Lists, Awaited, Waiting, Fetch
<1>7. Stages' /\ AtLane' /\ AtDone' /\ LeaseStates' /\ Users'
  BY <1>1, <1>2 DEF SkipWriteBack, device, IInv, Flights, Places, Uses, Stages, AtLane, AtDone,
         LeaseStates, Users, Unrun, First, Open, Behind, Done, InHand, Fetch, Queued, Copies,
         Triggered, Fetchable, Leaving, Leaves, Waiting
<1>8. Located'
  <2>1. \A b : Done(b)' <=> b = a
    BY <1>2 DEF Done
  <2>2. ~Fetch(a) /\ ~Leaves(a) /\ \A b : ~Done(b)
    BY <1>1 DEF Fetch, Leaves, Done
  <2> QED BY <1>1, <2>1, <2>2 DEF SkipWriteBack, device, IInv, Places, Located, First, Open, Behind, Fetch,
         Leaving, Leaves, Waiting
<1>9. Committed'
  BY <1>1, <1>2 DEF SkipWriteBack, Committed, Copies, Queued
<1> QED BY <1>3, <1>5, <1>6, <1>7, <1>8, <1>9 DEF IInv, Lists, Flights, Places, Uses

\* A claim the lane returned, with the range it took, is as it was before.
LEMMA ReturnClaimInv ==
  ASSUME InScope, IInv, ReturnClaim
  PROVE  IInv'
<1>1. worker.at = "lane" /\ worker' = [at |-> "idle", action |-> 0, version |-> 0]
  BY DEF ReturnClaim, Idle
<1>2. ~Fetch(worker.action)
  BY DEF ReturnClaim, InScope, PlanInScope, IInv, Types, Fetch
<1>3. Types'
  <2>1. worker' \in [at : {"idle", "lane", "done"}, action : Nat, version : Nat]
    BY <1>1
  <2> QED BY <2>1 DEF ReturnClaim, IInv, Types, device
<1>4. SameActions
  BY DEF ReturnClaim, SameActions
<1>5. /\ Listed' /\ Static' /\ Order' /\ Versions' /\ Unpublished' /\ OnLanes'
      /\ Updating' /\ Waits' /\ Releases' /\ Values' /\ Reused' /\ PlanNeverFails'
  BY <1>3, <1>4, Still DEF ReturnClaim, device
<1>6. Awaited'
  BY DEF ReturnClaim, device, IInv, Lists, Awaited, Waiting, Fetch
<1>7. \A b : ~InHand(b)' /\ ~Done(b)' /\ ~Done(b) /\ (InHand(b) <=> b = worker.action)
  BY <1>1 DEF InHand, Done
<1>8. LET a == worker.action IN
      /\ First(a) /\ Queued(a) /\ acts[a].state = "QUEUED"
      /\ acts[a].lease = obj[acts[a].obj].lease /\ acts[a].lease # 0
  BY <1>1, <1>2 DEF IInv, Flights, AtLane
<1>9. Stages'
  BY <1>1, <1>2, <1>7, <1>8 DEF ReturnClaim, device, IInv, Flights, Stages, First, Open, Behind, Fetch, Queued,
         Copies, Triggered
<1>10. AtLane' /\ AtDone'
  BY <1>1 DEF AtLane, AtDone
<1>11. Located'
  BY <1>1, <1>7 DEF ReturnClaim, device, IInv, Places, Located, First, Open, Behind, Fetch, Leaving, Leaves, Waiting
<1>12. LeaseStates'
  BY <1>7, <1>8 DEF ReturnClaim, device, IInv, Places, LeaseStates, Open, Leaves
<1>13. Users'
  BY <1>7, <1>8 DEF ReturnClaim, device, IInv, Uses, Users, Unrun
<1>14. Committed'
  BY <1>1 DEF Committed
<1> QED BY <1>3, <1>5, <1>6, <1>9, <1>10, <1>11, <1>12, <1>13, <1>14 DEF IInv, Lists, Flights, Places, Uses

-----------------------------------------------------------------------------
(* Launching a task and publishing what it mutates.                        *)

\* No fetch is queued while the dispatcher is outside a batch.
LEMMA NoneWaiting ==
  ASSUME IInv, boundary.at \notin {"batch", "await"}, NEW a \in DOMAIN acts
  PROVE  ~Waiting(a)
BY DEF IInv, Lists, Awaited

\* The type of an action, of an object and of a launched task.
LEMMA ActionTyped ==
  ASSUME Types, NEW a \in DOMAIN acts
  PROVE  acts[a] \in ActionRecord /\ acts[a].obj \in Objects /\ a \in Nat \ {0} /\ a <= Len(acts)
<1>1. acts \in Seq(ActionRecord)
  BY DEF Types
<1>2. acts[a] \in ActionRecord /\ a \in 1 .. Len(acts) /\ Len(acts) \in Nat
  BY <1>1
<1> QED BY <1>2 DEF ActionRecord

\* The type of an object and of its ranges.
LEMMA ObjectTyped ==
  ASSUME Types, NEW o \in Objects
  PROVE  obj[o] \in ObjectRecord /\ leases[o] \in Seq(LeaseRecord)
BY DEF Types

\* An object that is projected onto the device is there, and nothing takes it away.
LEMMA Bindable ==
  ASSUME IInv, NEW o \in Objects, Projected(o).exec,
         \A a \in DOMAIN acts : acts[a].obj = o => ~Waiting(a)
  PROVE  /\ ~Leaving(o) /\ obj[o].lease # 0 /\ obj[o].residency \in OnDevice
         /\ obj[o].execVersion = obj[o].version
<1>1. Types /\ Listed /\ Order /\ Versions /\ Static /\ Located
  BY DEF IInv, Lists, Places
<1>2. obj[o] \in ObjectRecord
  BY <1>1, ObjectTyped
<1>3. CASE fifo[o] = << >>
  <2>1. \A a \in DOMAIN acts : acts[a].obj = o => ~Open(a)
    BY <1>1, <1>3, NoneOpen
  <2>2. obj[o].residency \in OnDevice /\ obj[o].lease # 0 /\ obj[o].execVersion = obj[o].version
    BY <1>3 DEF Projected
  <2> QED BY <2>1, <2>2 DEF Leaving
<1>4. CASE fifo[o] # << >>
  <2> DEFINE z == Last(fifo[o])
  <2>1. z \in DOMAIN acts /\ acts[z].obj = o /\ Open(z) /\ \A b \in DOMAIN acts : ~Behind(z, b)
    BY <1>1, <1>4, LastBehind
  <2> HIDE DEF z
  <2>2. \A c \in DOMAIN acts : acts[c].obj = o /\ Open(c) => c = z \/ Behind(c, z)
    <3> SUFFICES ASSUME NEW c \in DOMAIN acts, acts[c].obj = o, Open(c), c # z
                 PROVE  Behind(c, z)
      OBVIOUS
    <3>1. c \in Nat /\ z \in Nat
      BY <1>1, <2>1, ActionTyped
    <3> QED BY <2>1, <3>1 DEF Behind
  <2>3. CASE acts[z].version = obj[o].version
    <3>1. acts[z].exec
      BY <1>4, <2>3 DEF Projected, z
    <3>2. ~Leaves(z)
      BY <1>1, <2>1, <3>1 DEF Static, Leaves
    <3>3. ~Leaving(o)
      BY <1>1, <2>1, <2>2, <3>2 DEF Leaving, Order
    <3>4. First(Head(fifo[o])) /\ acts[Head(fifo[o])].obj = o
      BY <1>1, <1>4, HeadFirst
    <3>5. Head(fifo[o]) \in DOMAIN acts /\ Open(Head(fifo[o]))
      BY <3>4 DEF First
    <3>6. ~Leaves(Head(fifo[o])) /\ ~Waiting(Head(fifo[o]))
      BY <3>3, <3>4, <3>5 DEF Leaving
    <3>7. obj[o].lease # 0
      BY <1>1, <3>4, <3>5, <3>6 DEF Located
    <3> QED BY <1>1, <1>2, <3>3, <3>7 DEF Located, OnDevice, ObjectRecord
  <2>4. CASE acts[z].version # obj[o].version
    <3>1. obj[o].residency \in OnDevice /\ obj[o].lease # 0 /\ obj[o].execVersion = obj[o].version
      BY <1>4, <2>4 DEF Projected, z
    <3>2. ~Leaving(o)
      <4> SUFFICES ASSUME NEW c \in DOMAIN acts, acts[c].obj = o, Open(c), Leaves(c) PROVE FALSE
        BY DEF Leaving
      <4>1. acts[c].version = obj[o].version /\ acts[z].version <= obj[o].version
        BY <1>1, <2>1 DEF Versions
      <4>2. acts[c].version <= acts[z].version
        BY <1>1, <2>1, <2>2, <2>4, <4>1 DEF Order
      <4>3. acts[z].version \in Int
        <5>1. acts[z] \in ActionRecord
          BY <1>1, <2>1, ActionTyped
        <5> QED BY <5>1 DEF ActionRecord
      <4>4. obj[o].version \in Int
        BY <1>2 DEF ObjectRecord
      <4> QED BY <2>4, <4>1, <4>2, <4>3, <4>4
    <3> QED BY <3>1, <3>2
  <2> QED BY <2>3, <2>4
<1> QED BY <1>3, <1>4

\* A fetch that has not run and is not queued is the one the object waits for.
LEMMA FetchUnderWay ==
  ASSUME IInv, NEW b \in DOMAIN acts, Fetch(b), Open(b), ~Waiting(b), b \notin copied
  PROVE  /\ acts[b].state = "IN_FLIGHT" /\ First(b)
         /\ obj[acts[b].obj].residency = "FETCHING" /\ obj[acts[b].obj].readiness = b
<1>1. acts[b] \in ActionRecord /\ acts[b].obj \in Objects
  BY ActionTyped DEF IInv
<1>2. acts[b].state = "IN_FLIGHT"
  BY <1>1 DEF ActionRecord, AllStates, Open, Waiting
<1>3. First(b)
  BY <1>2 DEF IInv, Flights, Stages
<1>4. ~Done(b)
  BY <1>2 DEF IInv, Flights, AtDone, Done
<1> QED BY <1>1, <1>2, <1>3, <1>4 DEF IInv, Places, Located

\* The type of a launched task.
LEMMA TaskTyped ==
  ASSUME Types, NEW t \in DOMAIN tasks
  PROVE  /\ tasks[t] \in LaunchRecord /\ tasks[t].obj \in Objects /\ t \in Nat /\ t <= Len(tasks)
<1>1. tasks \in Seq(LaunchRecord)
  BY DEF Types
<1>2. tasks[t] \in LaunchRecord /\ t \in 1 .. Len(tasks) /\ Len(tasks) \in Nat
  BY <1>1
<1> QED BY <1>2 DEF LaunchRecord

\* A step that leaves the spill copies alone, or makes a newer version.
LEMMA CommittedStill ==
  ASSUME IInv, worker' = worker, NEW changed \in SUBSET Objects,
         \A a \in DOMAIN acts :
           /\ acts'[a].kind = acts[a].kind /\ acts'[a].skips = acts[a].skips
           /\ acts'[a].obj = acts[a].obj /\ acts'[a].version = acts[a].version,
         \A o \in Objects \ changed :
           /\ obj'[o].version = obj[o].version /\ obj'[o].spillCurrent = obj[o].spillCurrent
           /\ obj'[o].spillVersion = obj[o].spillVersion,
         \A o \in changed : obj'[o].version = obj[o].version + 1
  PROVE  Committed'
<1> SUFFICES ASSUME worker.at = "done",
                    NEW a, a = worker.action, NEW o, o = acts'[a].obj,
                    acts'[a].kind \in {"EVICT", "WRITE_BACK"}, ~acts'[a].skips,
                    acts'[a].version = obj'[o].version
             PROVE  obj'[o].spillCurrent /\ obj'[o].spillVersion = obj'[o].version
  BY DEF Committed, Copies
<1>1. a \in DOMAIN acts /\ Open(a)
  BY DEF IInv, Flights, AtDone, First
<1>2. o \in Objects /\ o = acts[a].obj /\ acts[a] \in ActionRecord /\ obj[o] \in ObjectRecord
  BY <1>1, ActionTyped, ObjectTyped DEF IInv
<1>3. acts[a].version <= obj[o].version
  BY <1>1, <1>2 DEF IInv, Lists, Versions
<1>4. o \notin changed
  BY <1>1, <1>2, <1>3 DEF ActionRecord, ObjectRecord
<1> QED BY <1>1, <1>2, <1>4 DEF IInv, Committed, Copies


\* Versions along the tasks are numbers.
LEMMA AfterTyped ==
  ASSUME IInv, NEW o \in Objects, obj[o].lease # 0, NEW r \in Points(o)
  PROVE  After(o, r) \in Int
<1>1. Types /\ ran \in Nat /\ obj[o].lease \in DOMAIN leases[o] /\ leases[o] \in Seq(LeaseRecord)
  <2>1. Types /\ Located
    BY DEF IInv, Places
  <2>2. leases \in [Objects -> Seq(LeaseRecord)] /\ tasks \in Seq(LaunchRecord) /\ ran \in 0 .. Len(tasks)
    BY <2>1 DEF Types
  <2>3. leases[o] \in Seq(LeaseRecord)
    BY <2>2
  <2>4. ran \in Nat
    BY <2>2
  <2>5. obj[o].lease \in 0 .. Len(leases[o])
    BY <2>1 DEF Located
  <2>6. obj[o].lease \in DOMAIN leases[o]
    BY <2>3, <2>5
  <2> QED BY <2>1, <2>3, <2>4, <2>6
<1>2. Held(o) \in Int
  <2>1. leases[o][obj[o].lease] \in LeaseRecord /\ spilled[o] \in Int
    BY <1>1 DEF Types
  <2> QED BY <2>1 DEF Held, LeaseRecord
<1>3. CASE r = ran
  BY <1>2, <1>3 DEF After
<1>4. CASE r # ran
  <2>1. r \in DOMAIN tasks
    BY <1>1, <1>4 DEF Points, Unrun, Types
  <2>2. tasks[r] \in LaunchRecord
    BY <1>1, <2>1, TaskTyped
  <2> QED BY <1>4, <2>2 DEF After, LaunchRecord
<1> QED BY <1>3, <1>4

\* A boundary binds its object and launches its task.
LEMMA BeginTaskInv ==
  ASSUME IInv, NEW o \in Objects, NEW mutates \in BOOLEAN, BeginTask(o, mutates)
  PROVE  IInv'
<1> DEFINE task == [obj |-> o, lease |-> obj[o].lease, mutates |-> mutates,
                    expects |-> obj[o].version, saw |-> -1, waits |-> Readiness(o)]
           upd == IF mutates THEN o ELSE None
<1>1. boundary.at = "idle" /\ boundary.update = None /\ \A a \in DOMAIN acts : ~Waiting(a)
  <2>1. boundary.at = "idle"
    BY DEF BeginTask
  <2>2. boundary.update = None
    BY <2>1, NoUpdate DEF IInv, Places
  <2> QED BY <2>1, <2>2, NoneWaiting
<1>2. /\ ~Leaving(o) /\ obj[o].lease # 0 /\ obj[o].residency \in OnDevice
      /\ obj[o].execVersion = obj[o].version
  BY <1>1, Bindable DEF BeginTask
<1>3. Types
  BY DEF IInv
<1>4. obj[o] \in ObjectRecord /\ leases[o] \in Seq(LeaseRecord)
  BY <1>3, ObjectTyped
<1>5. Bound(o)
  <2>1. obj[o].unpublished = 0
    BY <1>1 DEF IInv, Lists, Unpublished
  <2>2. obj[o].residency = "FETCHING" => obj[o].readiness # 0
    BY <1>3, ActionTyped DEF IInv, Places, Located
  <2> QED BY <1>2, <2>1, <2>2 DEF Bound
<1>6. /\ tasks' = Append(tasks, task) /\ boundary' = [Outside EXCEPT !.at = "task", !.update = upd]
      /\ UNCHANGED << obj, leases, acts, fifo, sequences, worker, published, failed, ran, lane, copied,
                      spilled, plan >>
  BY <1>5 DEF BeginTask
<1>7. boundary' = [at |-> "task", background |-> FALSE, update |-> upd, batch |-> << >>]
  BY <1>6 DEF Outside
<1>8. task \in LaunchRecord
  <2>1. obj[o].lease \in Nat /\ obj[o].version \in Nat /\ obj[o].readiness \in Nat
    BY <1>4 DEF ObjectRecord
  <2>2. Readiness(o) \subseteq Nat
    BY <2>1 DEF Readiness
  <2> QED BY <2>1, <2>2 DEF LaunchRecord
<1> HIDE DEF task
<1>0. PICK n \in Nat : n = Len(tasks) + 1
  BY <1>3 DEF Types
<1>9. /\ Len(tasks) \in Nat /\ DOMAIN tasks = 1 .. Len(tasks) /\ n \in Nat
      /\ DOMAIN tasks' = 1 .. n /\ Len(tasks') = n
      /\ tasks'[n] = task /\ \A t \in DOMAIN tasks : tasks'[t] = tasks[t]
  BY <1>0, <1>3, <1>6, <1>8, SMTT(20) DEF Types
<1>10. /\ task.obj = o /\ task.lease = obj[o].lease /\ task.mutates = mutates
       /\ task.expects = obj[o].version /\ task.waits = Readiness(o)
  BY DEF task
<1>11. ran \in Nat /\ ran <= Len(tasks) /\ ran < n
  BY <1>0, <1>3, <1>9 DEF Types
<1>12. upd \in Objects \cup {None} /\ (upd # None => upd = o) /\ None \notin Objects
  BY ObjectsAssumption
<1> HIDE DEF upd
<1>13. boundary'.at = "task" /\ boundary'.update = upd
  BY <1>7
<1>14. Types'
  <2>1. tasks' \in Seq(LaunchRecord)
    BY <1>3, <1>6, <1>8 DEF Types
  <2>2. boundary' \in [at : {"idle", "task", "batch", "await"}, background : BOOLEAN,
                       update : Objects \cup {None}, batch : Seq(Nat)]
    BY <1>7, <1>12
  <2>3. ran' \in 0 .. Len(tasks')
    BY <1>6, <1>9, <1>11
  <2> QED BY <1>3, <1>6, <2>1, <2>2, <2>3 DEF Types
<1>15. Listed' /\ Order' /\ Unpublished' /\ Awaited'
  BY <1>1, <1>6 DEF IInv, Lists, Listed, Pending, Order, Unpublished, Awaited, Behind, Open, Leaves, Fetch, Waiting
<1>16. Static'
  <2>1. \A a \in DOMAIN acts : acts[a].task <= Len(tasks) => acts[a].task <= n
    BY <1>0, <1>3, <1>9, ActionTyped DEF ActionRecord
  <2> QED BY <1>6, <1>9, <2>1 DEF IInv, Lists, Static, Fetch, Queued
<1>17. Versions'
  BY <1>0, <1>2, <1>6, <1>9, <1>10 DEF IInv, Lists, Versions, Open, Leaves, Leaving
<1>18. Stages' /\ OnLanes' /\ AtDone'
  BY <1>6 DEF IInv, Flights, Stages, OnLanes, AtDone, First, Open, Behind, Done, InHand, Fetch, Queued, Copies, Triggered
<1>19. AtLane'
  <2>1. worker.at = "lane" => ~Fetch(worker.action)
    BY <1>1 DEF IInv, Flights, AtLane, First, Waiting
  <2> QED BY <1>6, <2>1 DEF IInv, Flights, AtLane, First, Open, Behind, Fetch, Queued
<1>20. Located' /\ LeaseStates'
  BY <1>6 DEF IInv, Places, Located, LeaseStates, Leaving, First, Open, Behind, Done, InHand, Fetch, Leaves, Waiting
<1>21. Updating'
  BY <1>2, <1>6, <1>12, <1>13 DEF Updating, Leaving, Open, Leaves
<1>22. /\ \A p \in Objects : p # o => Unrun(p)' = Unrun(p)
       /\ Unrun(o)' = Unrun(o) \cup {n}
       /\ \A p \in Objects : Unrun(p) \subseteq DOMAIN tasks
  BY <1>0, <1>6, <1>9, <1>10, <1>11 DEF Unrun
<1>23. Users'
  <2>1. \A t \in DOMAIN tasks' : tasks'[t].lease \in 1 .. Len(leases'[tasks'[t].obj])
    <3>1. task.lease \in 1 .. Len(leases[o])
      BY <1>2, <1>4, <1>10 DEF IInv, Places, Located
    <3> QED BY <1>0, <1>6, <1>9, <1>10, <3>1 DEF IInv, Uses, Users
  <2>2. ASSUME NEW p \in Objects, NEW t \in Unrun(p)' PROVE tasks'[t].lease = obj'[p].lease
    <3>1. CASE t \in Unrun(p)
      BY <1>6, <1>9, <1>22, <3>1 DEF IInv, Uses, Users
    <3>2. CASE t = n /\ p = o
      BY <1>6, <1>9, <1>10, <3>2
    <3> QED BY <1>22, <3>1, <3>2
  <2>3. \A t \in 1 .. ran' : tasks'[t].waits \subseteq copied'
    BY <1>6, <1>9, <1>11 DEF IInv, Uses, Users
  <2> QED BY <1>6, <2>1, <2>2, <2>3 DEF IInv, Uses, Users, InHand
<1>24. Waits'
  <2> SUFFICES ASSUME NEW b \in DOMAIN acts, NEW t \in DOMAIN tasks', b \notin copied, Fetch(b),
                      tasks'[t].obj = acts[b].obj, Open(b)
               PROVE  /\ t > acts[b].task => b \in tasks'[t].waits
                      /\ acts[b].state = "IN_FLIGHT" /\ t > ran => b \in tasks'[t].waits
    BY <1>6 DEF Waits, Fetch, Open
  <2>1. CASE t \in DOMAIN tasks
    BY <1>9, <2>1 DEF IInv, Uses, Waits
  <2>2. CASE t = n
    <3>1. acts[b].obj = o
      BY <1>9, <1>10, <2>2
    <3>2. obj[o].residency = "FETCHING" /\ obj[o].readiness = b
      BY <1>1, <3>1, FetchUnderWay
    <3> QED BY <1>9, <1>10, <2>2, <3>2 DEF Readiness
  <2> QED BY <1>0, <1>9, <2>1, <2>2
<1>25. Releases'
  BY <1>0, <1>6, <1>9 DEF IInv, Uses, Releases, Behind, Fetch, Open, Queued
<1>26. Worth'
  <2>1. \A p \in Objects : boundary.update # p
    BY <1>1, ObjectsAssumption
  <2>2. \A a \in DOMAIN acts : acts[a].obj \in Objects
    BY <1>3, ActionTyped
  <2>3. /\ \A a, b : Behind(a, b)' <=> Behind(a, b)
        /\ \A p : Current(p)' <=> Current(p)
        /\ \A a : (Open(a)' <=> Open(a)) /\ (Copies(a)' <=> Copies(a)) /\ (Waiting(a)' <=> Waiting(a))
                 /\ (Fetch(a)' <=> Fetch(a))
    BY <1>6 DEF Behind, Current, Open, Copies, Waiting, Fetch
  <2>4. \A p, a : Refreshed(p, a)' <=> Refreshed(p, a)
    BY <1>6, <2>3 DEF Refreshed
  <2> QED BY <1>6, <2>1, <2>2, <2>3, <2>4 DEF IInv, Values, Worth
<1>27. SpillCopyTrue' /\ TasksReadCurrent'
  BY <1>1, <1>6, <1>9, <1>11, <1>12 DEF IInv, Values, SpillCopyTrue, TasksReadCurrent
<1>28. Reused'
  <2>1. \A event : Complete(event)' <=> Complete(event)
    BY <1>6 DEF Complete
  <2> QED BY <1>6, <2>1 DEF IInv, Reused, Fetch, Lease
<1>29. PlanNeverFails'
  BY <1>6 DEF IInv, PlanNeverFails
<1>30. /\ \A p \in Objects : Held(p)' = Held(p)
       /\ \A p \in Objects : Upcoming(p) = obj[p].version
       /\ \A p \in Objects : p # o => Upcoming(p)' = obj[p].version
       /\ Upcoming(o)' = IF mutates THEN obj[o].version + 1 ELSE obj[o].version
  BY <1>1, <1>6, <1>13, ObjectsAssumption DEF Held, Loading, Upcoming, upd
<1>31. \A p \in Objects : \A r \in Points(p) :
         r \in Nat /\ r < n /\ After(p, r)' = After(p, r)
  BY <1>0, <1>6, <1>9, <1>11, <1>22, <1>30 DEF Points, After
<1>32. After(o, n)' = Upcoming(o)'
  BY <1>6, <1>9, <1>10, <1>11, <1>30 DEF After
<1>33. ASSUME NEW p \in Objects
       PROVE  /\ Points(p)' = Points(p) \cup (IF p = o THEN {n} ELSE {})
              /\ \A s \in Unrun(p) : s \in Nat /\ s < n /\ Expected(p, s)' = Expected(p, s)
              /\ Expected(p, n) = obj[p].version
              /\ Expected(o, n)' = obj[o].version
              /\ Expected(p, n + 1)' = Upcoming(p)'
  <2>1. Points(p)' = Points(p) \cup (IF p = o THEN {n} ELSE {})
    BY <1>6, <1>22 DEF Points
  <2>2. \A s \in Unrun(p) : s \in Nat /\ s < n /\ s \in DOMAIN tasks
    BY <1>0, <1>9, <1>22
  <2>3. n \notin DOMAIN tasks /\ n \in DOMAIN tasks' /\ n + 1 \notin DOMAIN tasks'
    BY <1>0, <1>9
  <2>4. \A s \in Unrun(p) : Expected(p, s)' = Expected(p, s)
    BY <1>9, <2>2, <2>3 DEF Expected
  <2>5. Expected(p, n) = obj[p].version
    BY <1>30, <2>3 DEF Expected
  <2>6. Expected(o, n)' = obj[o].version
    BY <1>9, <1>10, <2>3 DEF Expected
  <2>7. Expected(p, n + 1)' = Upcoming(p)'
    BY <2>3 DEF Expected
  <2> QED BY <2>1, <2>2, <2>4, <2>5, <2>6, <2>7
<1>34. Bounded'
  <2> SUFFICES ASSUME NEW p \in Objects, obj[p].lease # 0, NEW r \in Points(p)'
               PROVE  After(p, r)' <= Upcoming(p)'
    BY <1>6 DEF Bounded
  <2>1. obj[p].version \in Nat
    BY <1>3, ObjectTyped DEF ObjectRecord
  <2>2. CASE r \in Points(p)
    <3>1. After(p, r)' <= obj[p].version
      BY <1>30, <1>31, <2>2 DEF IInv, Values, Bounded
    <3>2. Upcoming(p)' = obj[p].version \/ Upcoming(p)' = obj[p].version + 1
      BY <1>30
    <3>3. After(p, r)' \in Int
      BY <1>31, <2>2, AfterTyped
    <3> QED BY <2>1, <3>1, <3>2, <3>3
  <2>3. CASE p = o /\ r = n
    BY <1>32, <2>1, <2>3, <1>30
  <2> QED BY <1>33, <2>2, <2>3
<1>35. Reached'
  <2> SUFFICES ASSUME NEW a \in DOMAIN acts, Open(a), Copies(a), NEW p \in Objects,
                      p = acts[a].obj, obj[p].lease # 0, NEW r \in Points(p)',
                      \A u \in Unrun(p)' : ~(r < u /\ u <= acts[a].task)
               PROVE  acts[a].version <= After(p, r)'
    <3>1. \A a \in DOMAIN acts : acts'[a].obj \in Objects
      BY <1>3, <1>6, ActionTyped
    <3> QED BY <1>6, <3>1 DEF Reached, Open, Copies
  <2>1. acts[a] \in ActionRecord
    BY <1>3, ActionTyped
  <2>2. Unrun(p) \subseteq Unrun(p)'
    BY <1>22, <2>1
  <2>3. CASE r \in Points(p)
    BY <1>31, <2>1, <2>2, <2>3 DEF IInv, Values, Reached
  <2>4. CASE p = o /\ r = n
    <3>1. acts[a].version <= obj[o].version
      BY <2>4 DEF IInv, Lists, Versions
    <3>2. acts[a].version \in Nat /\ obj[o].version \in Nat
      BY <2>1, <1>4 DEF ActionRecord, ObjectRecord
    <3> QED BY <1>30, <1>32, <2>4, <3>1, <3>2
  <2> QED BY <1>33, <2>1, <2>3, <2>4
<1>36. Chained'
  <2> SUFFICES ASSUME NEW p \in Objects, obj[p].lease # 0,
                      NEW r \in Points(p)', NEW s \in Unrun(p)' \cup {n + 1}, r < s,
                      \A u \in Unrun(p)' : ~(r < u /\ u < s)
               PROVE  Expected(p, s)' = After(p, r)'
    BY <1>6, <1>9 DEF Chained
  <2>1. \A q \in Points(p), t \in Unrun(p) \cup {n} :
          q < t /\ (\A u \in Unrun(p) : ~(q < u /\ u < t)) => Expected(p, t) = After(p, q)
    BY <1>0 DEF IInv, Values, Chained
  <2>2. CASE p # o
    <3>1. Unrun(p)' = Unrun(p) /\ r \in Points(p)
      BY <1>22, <1>33, <2>2
    <3>2. CASE s \in Unrun(p)
      BY <1>31, <1>33, <2>1, <3>1, <3>2
    <3>3. CASE s = n + 1
      <4>1. r < n /\ \A u \in Unrun(p) : ~(r < u /\ u < n)
        BY <1>31, <1>33, <3>1, <3>3
      <4>2. Expected(p, n) = After(p, r)
        BY <2>1, <3>1, <4>1
      <4> QED BY <1>30, <1>31, <1>33, <2>2, <3>1, <3>3, <4>2
    <3> QED BY <3>1, <3>2, <3>3
  <2>3. CASE p = o
    <3>1. Unrun(o)' = Unrun(o) \cup {n} /\ Points(o)' = Points(o) \cup {n}
      BY <1>22, <1>33, <2>3
    <3>2. CASE r = n
      <4>1. s = n + 1
        BY <1>33, <2>3, <3>1, <3>2
      <4> QED BY <1>32, <1>33, <2>3, <3>2, <4>1
    <3>3. CASE r \in Points(o)
      <4>1. s \in Unrun(o) \cup {n}
        BY <1>31, <2>3, <3>1, <3>3
      <4>2. \A u \in Unrun(o) : ~(r < u /\ u < s)
        BY <2>3, <3>1
      <4>3. Expected(o, s) = After(o, r)
        BY <2>1, <2>3, <3>3, <4>1, <4>2
      <4>4. Expected(o, s)' = Expected(o, s)
        BY <1>33, <4>1
      <4> QED BY <1>31, <2>3, <3>3, <4>3, <4>4
    <3> QED BY <2>3, <3>1, <3>2, <3>3
  <2> QED BY <2>2, <2>3
<1>37. Committed'
  BY <1>6 DEF IInv, Committed, Copies
<1> QED BY <1>37, <1>14, <1>15, <1>16, <1>17, <1>18, <1>19, <1>20, <1>21, <1>23, <1>24, <1>25, <1>26, <1>27,
           <1>28, <1>29, <1>34, <1>35, <1>36 DEF IInv, Lists, Flights, Places, Uses, Values

\* A boundary publishes the version its task writes.
LEMMA PublishMutationInv ==
  ASSUME IInv, PublishMutation
  PROVE  IInv'
<1> DEFINE o == boundary.update
<1>1. boundary.at = "task" /\ \A a \in DOMAIN acts : ~Waiting(a)
  <2>1. boundary.at = "task"
    BY DEF PublishMutation
  <2> QED BY <2>1, NoneWaiting
<1>2. Types /\ o \in Objects \cup {None}
  BY DEF IInv, Types
<1>3. boundary' = [boundary EXCEPT !.at = "batch", !.update = None]
  BY DEF PublishMutation
<1>4. boundary' = [at |-> "batch", background |-> boundary.background, update |-> None,
                   batch |-> boundary.batch]
  BY <1>2, <1>3 DEF Types
<1>5. boundary'.at = "batch" /\ boundary'.update = None
  BY <1>4
<1>6. boundary' \in [at : {"idle", "task", "batch", "await"}, background : BOOLEAN,
                     update : Objects \cup {None}, batch : Seq(Nat)]
  BY <1>2, <1>4 DEF Types
<1>7. CASE o = None
  <2>1. UNCHANGED obj /\ UNCHANGED failed
    BY <1>7 DEF PublishMutation
  <2>2. Types'
    BY <1>2, <1>6, <2>1 DEF PublishMutation, device, Types
  <2>3. SameActions
    BY DEF PublishMutation, SameActions
  <2>4. /\ Listed' /\ Static' /\ Order' /\ Versions' /\ Unpublished' /\ OnLanes'
        /\ Updating' /\ Waits' /\ Releases' /\ Values' /\ Reused' /\ PlanNeverFails'
    BY <1>5, <1>7, <2>1, <2>2, <2>3, Still, ObjectsAssumption DEF PublishMutation, device
  <2>5. Awaited'
    BY <1>1, SMTT(20) DEF PublishMutation, Awaited, Waiting, Fetch
  <2>6. Stages' /\ AtLane' /\ AtDone'
    BY <2>1, ZenonT(20) DEF PublishMutation, device, IInv, Flights, Stages, AtLane, AtDone, First, Open, Behind, Done, InHand,
       Fetch, Queued, Copies, Triggered, Fetchable
  <2>7. Located' /\ LeaseStates'
    BY <2>1 DEF PublishMutation, device, IInv, Places, Located, LeaseStates, First, Open, Behind, Done, InHand,
       Fetch, Leaving, Leaves, Waiting
  <2>8. Users'
    BY <2>1 DEF PublishMutation, device, IInv, Uses, Users, Unrun, InHand
  <2>9. Committed'
    BY <2>1 DEF PublishMutation, device, IInv, Committed, Copies
  <2> QED BY <2>2, <2>4, <2>5, <2>6, <2>7, <2>8, <2>9 DEF IInv, Lists, Flights, Places, Uses
<1>8. CASE o \in Objects
  <2>0. o # None
    BY <1>8, ObjectsAssumption
  <2>1. obj[o].residency \in OnDevice /\ ~Leaving(o)
    BY <1>8 DEF IInv, Places, Updating
  <2>2. /\ UNCHANGED failed
        /\ obj' = [obj EXCEPT ![o].version = @ + 1, ![o].execVersion = obj[o].version + 1,
                              ![o].spillCurrent = FALSE]
    BY <2>0, <2>1 DEF PublishMutation
  <2>3. /\ UNCHANGED << leases, acts, fifo, sequences, worker, published, tasks, ran, lane, copied,
                        spilled, plan >>
    BY DEF PublishMutation, device
  <2>4. PICK w : w = o
    OBVIOUS
  <2>5. obj[w] \in ObjectRecord /\ w \in Objects /\ w # None
    BY <1>2, <1>8, <2>0, <2>4, ObjectTyped
  <2>6. /\ obj' = [obj EXCEPT ![w] = obj'[w]]
        /\ obj'[w] = [obj[w] EXCEPT !.version = obj[w].version + 1, !.execVersion = obj[w].version + 1,
                                    !.spillCurrent = FALSE]
    BY <1>2, <2>2, <2>4, <2>5 DEF Types
  <2>7. /\ \A p \in Objects : p # w => obj'[p] = obj[p]
        /\ DOMAIN obj' = Objects
        /\ obj'[w].version = obj[w].version + 1 /\ obj'[w].execVersion = obj'[w].version
        /\ obj'[w].spillCurrent = FALSE
        /\ obj'[w].lease = obj[w].lease /\ obj'[w].residency = obj[w].residency
        /\ obj'[w].spill = obj[w].spill /\ obj'[w].readiness = obj[w].readiness
        /\ obj'[w].unpublished = obj[w].unpublished
        /\ obj'[w] \in ObjectRecord
    <3>1. obj[w].version \in Nat
      BY <2>5 DEF ObjectRecord
    <3>0. obj'[w] = [obj[w] EXCEPT !.version = obj[w].version + 1, !.execVersion = obj[w].version + 1,
                                   !.spillCurrent = FALSE]
      BY <2>6
    <3>2. obj'[w] \in ObjectRecord
      <4>1. obj[w].version + 1 \in Nat
        BY <3>1
      <4> QED BY <2>5, <3>0, <4>1 DEF ObjectRecord
    <3>3. \A p \in Objects : p # w => obj'[p] = obj[p]
      BY <1>2, <2>6 DEF Types
    <3>4. DOMAIN obj' = Objects
      BY <1>2, <2>2 DEF Types
    <3>5. /\ obj'[w].version = obj[w].version + 1 /\ obj'[w].execVersion = obj[w].version + 1
          /\ obj'[w].spillCurrent = FALSE
          /\ obj'[w].lease = obj[w].lease /\ obj'[w].residency = obj[w].residency
          /\ obj'[w].spill = obj[w].spill /\ obj'[w].readiness = obj[w].readiness
          /\ obj'[w].unpublished = obj[w].unpublished
      BY <2>5, <3>0 DEF ObjectRecord
    <3> QED BY <3>2, <3>3, <3>4, <3>5
  <2>8. \A p \in Objects : /\ obj'[p].lease = obj[p].lease /\ obj'[p].residency = obj[p].residency
                           /\ obj'[p].spill = obj[p].spill /\ obj'[p].readiness = obj[p].readiness
                           /\ obj'[p].unpublished = obj[p].unpublished
    BY <2>7
  <2>9. \A a \in DOMAIN acts : acts[a].obj \in Objects
    BY <1>2, ActionTyped
  <2>10. \A a \in DOMAIN acts : acts[a].obj = w /\ Open(a) =>
           /\ ~Leaves(a) /\ acts[a].version \in Nat /\ obj[w].version \in Nat
           /\ acts[a].version <= obj[w].version /\ acts[a].version # obj'[w].version
    <3>1. \A a \in DOMAIN acts : acts[a].version \in Nat
      BY <1>2, ActionTyped DEF ActionRecord
    <3>2. obj[w].version \in Nat
      BY <2>5 DEF ObjectRecord
    <3> QED BY <2>1, <2>4, <2>7, <3>1, <3>2 DEF Leaving, IInv, Lists, Versions
  <2>11. Types'
    <3>1. obj' \in [Objects -> ObjectRecord]
      <4>1. \A p \in Objects : obj'[p] \in ObjectRecord
        BY <1>2, <2>7, ObjectTyped
      <4>2. obj' = [p \in Objects |-> obj'[p]]
        BY <1>2, <2>2 DEF Types
      <4> QED BY <4>1, <4>2
    <3> QED BY <1>2, <1>6, <2>3, <3>1 DEF Types
  <2>12. Listed' /\ Static' /\ Order' /\ Awaited'
    BY <1>1, <2>3 DEF IInv, Lists, Listed, Pending, Static, Order, Awaited, Behind, Open, Leaves, Fetch, Waiting,
       Queued
  <2>13. Versions'
    <3> SUFFICES ASSUME NEW a \in DOMAIN acts, Open(a)
                 PROVE  /\ acts[a].version <= obj'[acts[a].obj].version
                        /\ Leaves(a) => /\ acts[a].version = obj'[acts[a].obj].version
                                        /\ \A t \in DOMAIN tasks : tasks[t].obj = acts[a].obj => t <= acts[a].task
      BY <2>3 DEF Versions, Open, Leaves
    <3>1. CASE acts[a].obj = w
      BY <2>7, <2>10, <3>1
    <3>2. CASE acts[a].obj # w
      BY <2>7, <2>9, <3>2 DEF IInv, Lists, Versions
    <3> QED BY <3>1, <3>2
  <2>14. Unpublished'
    BY <2>3, <2>8 DEF IInv, Lists, Unpublished, Waiting, Fetch
  <2>15. Stages' /\ OnLanes' /\ AtDone'
    BY <2>3, <2>8, <2>9 DEF IInv, Flights, Stages, OnLanes, AtDone, First, Open, Behind, Done, InHand, Fetch, Queued,
       Copies, Triggered
  <2>16. AtLane'
    <3>1. worker.at = "lane" => ~Fetch(worker.action)
      BY <1>1 DEF IInv, Flights, AtLane, First, Waiting
    <3> QED BY <2>3, <2>8, <2>9, <3>1 DEF IInv, Flights, AtLane, First, Open, Behind, Fetch, Queued
  <2>17. Located'
    <3>1. \A p \in Objects : obj[p].execVersion = obj[p].version => obj'[p].execVersion = obj'[p].version
      BY <2>7
    <3>2. \A p \in Objects : ~obj[p].spillCurrent => ~obj'[p].spillCurrent
      BY <2>7
    <3> QED BY <2>3, <2>8, <3>1, <3>2 DEF IInv, Places, Located, First, Open, Behind, Done, Fetch, Leaving, Leaves, Waiting
  <2>18. LeaseStates'
    BY <2>3, <2>8 DEF IInv, Places, LeaseStates, Open, Leaves, InHand
  <2>19. Updating'
    BY <1>5, ObjectsAssumption DEF Updating
  <2>20. Users' /\ Waits' /\ Releases'
    BY <2>3, <2>8, <2>9 DEF IInv, Uses, Users, Waits, Releases, Unrun, InHand, Behind, Fetch, Open, Queued
  <2>21. Worth'
    <3>1. \A a, b : Behind(a, b)' <=> Behind(a, b)
      BY <2>3 DEF Behind, Open
    <3>2. /\ \A a : (Open(a)' <=> Open(a)) /\ (Copies(a)' <=> Copies(a)) /\ (Waiting(a)' <=> Waiting(a))
                     /\ (Fetch(a)' <=> Fetch(a))
      BY <2>3 DEF Behind, Current, Open, Copies, Waiting, Fetch
    <3>3. \A p \in Objects, a \in DOMAIN acts : p # w => (Refreshed(p, a)' <=> Refreshed(p, a))
      BY <2>3, <2>7, <3>1, <3>2 DEF Refreshed, Current
    <3> SUFFICES ASSUME NEW a \in DOMAIN acts, Open(a), NEW p \in Objects, p = acts[a].obj
                 PROVE
          /\ obj'[p].spillCurrent /\ obj'[p].spillVersion = obj'[p].version =>
                   acts[a].version = obj'[p].version
          /\ /\ acts[a].version = obj'[p].version /\ (acts[a].spill \/ Waiting(a)) /\ ~Copies(a)
                 => Refreshed(p, a)' \/ (Fetch(a) /\ ~Waiting(a) /\ p \notin plan.retained)
          /\ Copies(a) /\ a \in copied /\ acts[a].version = obj'[p].version /\ boundary'.update # p =>
                   spilled[p] = obj'[p].version
      BY <2>3, <2>9, <3>2 DEF Worth
    <3>4. CASE p = w
      BY <2>7, <2>10, <3>4
    <3>5. CASE p # w
      BY <2>4, <2>7, <3>3, <3>5 DEF IInv, Values, Worth
    <3> QED BY <3>4, <3>5
  <2>22. /\ \A p \in Objects : Held(p)' = Held(p) /\ Upcoming(p)' = Upcoming(p) /\ Points(p)' = Points(p)
                               /\ Unrun(p)' = Unrun(p)
    <3>1. \A p \in Objects : Upcoming(p)' = Upcoming(p)
      BY <1>5, <2>4, <2>5, <2>7, ObjectsAssumption DEF Upcoming
    <3> QED BY <2>3, <2>8, <3>1 DEF Held, Loading, Points, Unrun
  <2>23. \A p \in Objects : \A r : After(p, r)' = After(p, r) /\ Expected(p, r)' = Expected(p, r)
    BY <2>3, <2>22 DEF After, Expected
  <2>24. Chained' /\ Bounded'
    BY <2>3, <2>8, <2>22, <2>23 DEF IInv, Values, Chained, Bounded
  <2>25. Reached'
    <3>1. \A a \in DOMAIN acts : acts'[a].obj \in Objects /\ (Copies(a)' <=> Copies(a)) /\ (Open(a)' <=> Open(a))
      BY <2>3, <2>9 DEF Copies, Open
    <3> QED BY <2>3, <2>8, <2>22, <2>23, <3>1 DEF IInv, Values, Reached
  <2>26. SpillCopyTrue' /\ TasksReadCurrent'
    <3>1. TasksReadCurrent'
      BY <2>3, SMTT(20) DEF IInv, Values, TasksReadCurrent
    <3> QED BY <2>3, <2>4, <2>7, <3>1 DEF IInv, Values, SpillCopyTrue
  <2>27. Reused' /\ PlanNeverFails'
    <3>1. \A event : Complete(event)' <=> Complete(event)
      BY <2>3 DEF Complete
    <3> QED BY <2>2, <2>3, <3>1 DEF IInv, Reused, PlanNeverFails, Fetch, Lease
  <2>28. Committed'
    <3>1. {w} \in SUBSET Objects
      BY <2>5
    <3>2. \A p \in Objects \ {w} :
            /\ obj'[p].version = obj[p].version /\ obj'[p].spillCurrent = obj[p].spillCurrent
            /\ obj'[p].spillVersion = obj[p].spillVersion
      BY <2>7
    <3>3. \A p \in {w} : obj'[p].version = obj[p].version + 1
      BY <2>7
    <3>4. worker' = worker /\ \A a \in DOMAIN acts :
            /\ acts'[a].kind = acts[a].kind /\ acts'[a].skips = acts[a].skips
            /\ acts'[a].obj = acts[a].obj /\ acts'[a].version = acts[a].version
      BY <2>3
    <3> HIDE DEF o
    <3> QED BY <3>1, <3>2, <3>3, <3>4, CommittedStill
  <2> QED BY <2>28, <2>11, <2>12, <2>13, <2>14, <2>15, <2>16, <2>17, <2>18, <2>19, <2>20, <2>21, <2>24, <2>25,
             <2>26, <2>27 DEF IInv, Lists, Flights, Places, Uses, Values
<1> QED BY <1>2, <1>7, <1>8

-----------------------------------------------------------------------------
(* Scheduling an action.                                                   *)

\* The last of an object's open actions is behind every other.
LEMMA BehindLast ==
  ASSUME Types, Listed, NEW o \in Objects, fifo[o] # << >>,
         NEW a \in DOMAIN acts, acts[a].obj = o, Open(a)
  PROVE  a = Last(fifo[o]) \/ Behind(a, Last(fifo[o]))
<1> DEFINE z == Last(fifo[o])
<1>1. z \in DOMAIN acts /\ acts[z].obj = o /\ Open(z) /\ \A b \in DOMAIN acts : ~Behind(z, b)
  BY LastBehind
<1> HIDE DEF z
<1>2. a \in Nat /\ z \in Nat
  BY <1>1, ActionTyped
<1>3. a = z \/ Behind(a, z)
  BY <1>1, <1>2 DEF Behind
<1> QED BY <1>3 DEF z

\* An object with no fetch queued and projected off the device is off it, or the
\* last of its actions takes it away.
LEMMA ProjectedAway ==
  ASSUME IInv, NEW o \in Objects, ~Projected(o).exec
  PROVE  /\ \A a \in DOMAIN acts : acts[a].obj = o => ~Waiting(a)
         /\ fifo[o] = << >> => obj[o].lease = 0
         /\ fifo[o] # << >> => Leaves(Last(fifo[o])) /\ acts[Last(fifo[o])].version = obj[o].version
<1>1. Types /\ Listed /\ Order /\ Versions /\ Static /\ Located /\ Awaited
  BY DEF IInv, Lists, Places
<1>2. obj[o] \in ObjectRecord
  BY <1>1, ObjectTyped
<1>3. CASE fifo[o] = << >>
  <2>1. \A a \in DOMAIN acts : acts[a].obj = o => ~Open(a)
    BY <1>1, <1>3, NoneOpen
  <2>2. \A a \in DOMAIN acts : acts[a].obj = o => ~Waiting(a)
    BY <2>1 DEF Waiting, Open
  <2>3. ~(obj[o].residency \in OnDevice /\ obj[o].lease # 0 /\ obj[o].execVersion = obj[o].version)
    BY <1>3 DEF Projected
  <2>4. obj[o].residency # "EVICTING"
    BY <1>1, <2>1 DEF Located, Leaving
  <2>5. obj[o].lease = 0
    BY <1>1, <1>2, <2>3, <2>4 DEF Located, OnDevice, ObjectRecord
  <2> QED BY <1>3, <2>2, <2>5
<1>4. CASE fifo[o] # << >>
  <2> DEFINE z == Last(fifo[o])
  <2>1. z \in DOMAIN acts /\ acts[z].obj = o /\ Open(z) /\ \A b \in DOMAIN acts : ~Behind(z, b)
    BY <1>1, <1>4, LastBehind
  <2>2. \A c \in DOMAIN acts : acts[c].obj = o /\ Open(c) => c = z \/ Behind(c, z)
    BY <1>1, <1>4, BehindLast
  <2>3. acts[z].version = obj[o].version => ~acts[z].exec
    BY <1>4 DEF Projected
  <2>4. acts[z].version # obj[o].version =>
          ~(obj[o].residency \in OnDevice /\ obj[o].lease # 0 /\ obj[o].execVersion = obj[o].version)
    BY <1>4 DEF Projected
  <2> HIDE DEF z
  <2>5. acts[z] \in ActionRecord
    BY <1>1, <2>1, ActionTyped
  <2>6. \A c \in DOMAIN acts : acts[c].obj = o /\ Open(c) /\ acts[c].version = obj[o].version =>
          acts[z].version = obj[o].version
    <3> SUFFICES ASSUME NEW c \in DOMAIN acts, acts[c].obj = o, Open(c), acts[c].version = obj[o].version
                 PROVE  acts[z].version = obj[o].version
      OBVIOUS
    <3>1. CASE c = z
      BY <3>1
    <3>2. CASE Behind(c, z)
      <4>1. acts[c].version <= acts[z].version
        BY <1>1, <2>1, <3>2 DEF Order
      <4>2. acts[z].version <= obj[o].version
        BY <1>1, <2>1 DEF Versions
      <4>3. acts[z].version \in Nat /\ obj[o].version \in Nat
        BY <1>2, <2>5 DEF ActionRecord, ObjectRecord
      <4> QED BY <4>1, <4>2, <4>3
    <3> QED BY <2>2, <3>1, <3>2
  <2>7. acts[z].version = obj[o].version
    <3> SUFFICES ASSUME acts[z].version # obj[o].version PROVE FALSE
      OBVIOUS
    <3>1. \A c \in DOMAIN acts : acts[c].obj = o /\ Open(c) => ~Leaves(c) /\ ~Waiting(c)
      <4> SUFFICES ASSUME NEW c \in DOMAIN acts, acts[c].obj = o, Open(c), Leaves(c) \/ Waiting(c) PROVE FALSE
        OBVIOUS
      <4>1. acts[c].version = obj[o].version
        BY <1>1 DEF Versions, Awaited
      <4> QED BY <2>6, <4>1
    <3>2. First(Head(fifo[o])) /\ acts[Head(fifo[o])].obj = o
      BY <1>1, <1>4, HeadFirst
    <3>3. obj[o].lease # 0
      BY <1>1, <3>1, <3>2 DEF Located, First
    <3>4. obj[o].residency # "EVICTING"
      BY <1>1, <3>1 DEF Located, Leaving
    <3> QED BY <1>1, <1>2, <2>4, <3>3, <3>4 DEF Located, OnDevice, ObjectRecord
  <2>8. Leaves(z)
    <3>1. acts[z].kind \notin {"FETCH", "WRITE_BACK"}
      BY <1>1, <2>1, <2>3, <2>7 DEF Static
    <3> QED BY <2>5, <3>1 DEF Leaves, ActionRecord, AllKinds
  <2>9. \A a \in DOMAIN acts : acts[a].obj = o => ~Waiting(a)
    <3> SUFFICES ASSUME NEW a \in DOMAIN acts, acts[a].obj = o, Waiting(a) PROVE FALSE
      OBVIOUS
    <3>1. Open(a)
      BY DEF Waiting, Open
    <3>2. a # z
      BY <2>8 DEF Waiting, Fetch, Leaves
    <3>3. Behind(a, z)
      BY <2>2, <3>1, <3>2
    <3> QED BY <1>1, <2>1, <3>3 DEF Order
  <2> QED BY <1>4, <2>7, <2>8, <2>9 DEF z
<1> QED BY <1>3, <1>4

\* The spill copy an object is projected to have is there, or a copy that is
\* pending makes it.
Kept(o) ==
  \/ /\ Current(o)
     /\ o \notin plan.retained => \A b \in DOMAIN acts : acts[b].obj = o /\ Open(b) => ~Fetch(b)
  \/ \E b \in DOMAIN acts : acts[b].obj = o /\ Open(b) /\ Copies(b) /\ acts[b].version = obj[o].version

\* An object no fetch is queued for has the spill copy it is projected to have.
LEMMA ProjectedKept ==
  ASSUME IInv, NEW o \in Objects, Projected(o).spill,
         \A a \in DOMAIN acts : acts[a].obj = o => ~Waiting(a)
  PROVE  Kept(o)
<1>1. Types /\ Listed /\ Order /\ Static /\ Worth
  BY DEF IInv, Lists, Values
<1>2. CASE fifo[o] = << >>
  <2>1. \A a \in DOMAIN acts : acts[a].obj = o => ~Open(a)
    BY <1>1, <1>2, NoneOpen
  <2>2. obj[o].spill /\ obj[o].spillCurrent /\ obj[o].spillVersion = obj[o].version
    BY <1>2 DEF Projected
  <2> QED BY <2>1, <2>2 DEF Kept, Current
<1>3. CASE fifo[o] # << >>
  <2> DEFINE z == Last(fifo[o])
  <2>1. z \in DOMAIN acts /\ acts[z].obj = o /\ Open(z) /\ \A b \in DOMAIN acts : ~Behind(z, b)
    BY <1>1, <1>3, LastBehind
  <2>2. \A c \in DOMAIN acts : acts[c].obj = o /\ Open(c) => c = z \/ Behind(c, z)
    BY <1>1, <1>3, BehindLast
  <2>3. acts[z].version = obj[o].version => acts[z].spill
    BY <1>3 DEF Projected
  <2>4. acts[z].version # obj[o].version =>
          obj[o].spill /\ obj[o].spillCurrent /\ obj[o].spillVersion = obj[o].version
    BY <1>3 DEF Projected
  <2> HIDE DEF z
  <2>5. acts[z].version = obj[o].version /\ acts[z].spill
    BY <1>1, <2>1, <2>3, <2>4 DEF Worth
  <2>6. CASE Copies(z)
    BY <2>1, <2>5, <2>6 DEF Kept
  <2>7. CASE ~Copies(z)
    <3>1. ~(Fetch(z) /\ o \notin plan.retained)
      BY <1>1, <2>1, <2>5 DEF Static
    <3>2. Refreshed(o, z)
      BY <1>1, <2>1, <2>5, <2>7, <3>1 DEF Worth
    <3>3. CASE \E b \in DOMAIN acts : Behind(b, z) /\ Copies(b) /\ acts[b].version = obj[o].version
      BY <2>1, <3>3 DEF Kept, Behind
    <3>4. CASE /\ Current(o)
               /\ o \notin plan.retained => \A b \in DOMAIN acts : Fetch(b) => ~Behind(b, z)
      BY <2>2, <3>1, <3>4 DEF Kept
    <3> QED BY <3>2, <3>3, <3>4 DEF Refreshed
  <2> QED BY <2>6, <2>7
<1> QED BY <1>2, <1>3

\* An action is scheduled: it joins its object's list, takes the retirement of
\* what it leaves, and is the last the object knows.
LEMMA InstantiateActionInv ==
  ASSUME IInv, NEW kind \in AllKinds, NEW o \in Objects, NEW pred \in Promisable \cup {NoRange},
         kind # "FETCH" => pred = NoRange, InstantiateAction(kind, o, pred)
  PROVE  IInv'
<1> DEFINE new == Scheduled(kind, o, pred)
           source == << o, obj[o].lease >>
           T == Len(tasks)
           retires == kind = "EVICT" \/ (kind = "RELEASE" /\ ~new.late)
           event == IF kind = "RELEASE" THEN << "task", Len(tasks) >> ELSE NoEvent
<1>1. Types
  BY DEF IInv
<1>2. obj[o] \in ObjectRecord /\ leases[o] \in Seq(LeaseRecord)
  BY <1>1, ObjectTyped
<1>3. \A a \in DOMAIN acts : acts[a] \in ActionRecord /\ acts[a].obj \in Objects /\ a \in Nat
  BY <1>1, ActionTyped
<1>4. PICK n \in Nat : n = Len(acts) + 1
  BY <1>1 DEF Types
<1>5. /\ boundary.at = "batch" /\ boundary.update = None
  BY NoUpdate DEF InstantiateAction, IInv, Places
<1>6. \A a \in DOMAIN acts : acts[a].obj = o => ~Waiting(a)
  <2>1. CASE kind = "FETCH"
    BY <2>1, ProjectedAway DEF InstantiateAction, Schedulable
  <2>2. CASE kind # "FETCH"
    <3> SUFFICES ASSUME NEW a \in DOMAIN acts, acts[a].obj = o, Waiting(a) PROVE FALSE
      OBVIOUS
    <3>1. acts[a].task = Len(tasks)
      BY DEF IInv, Lists, Awaited
    <3>2. PICK t \in DOMAIN tasks : t > acts[a].task
      BY <2>2 DEF InstantiateAction, Movable, Waiting, Fetch
    <3>3. t \in Nat /\ t <= Len(tasks) /\ Len(tasks) \in Nat
      BY <1>1, TaskTyped DEF Types
    <3> QED BY <3>1, <3>2, <3>3
  <2> QED BY <2>1, <2>2
<1>7. ASSUME kind # "FETCH"
      PROVE  /\ ~Leaving(o) /\ obj[o].lease # 0 /\ obj[o].residency \in OnDevice
             /\ obj[o].lease \in DOMAIN leases[o] /\ leases[o][obj[o].lease].state = "IN_USE"
  <2>1. Projected(o).exec
    BY <1>7 DEF InstantiateAction, Schedulable
  <2>2. ~Leaving(o) /\ obj[o].lease # 0 /\ obj[o].residency \in OnDevice
    BY <1>6, <2>1, Bindable
  <2>3. obj[o].lease \in DOMAIN leases[o]
    BY <1>2, <2>2 DEF IInv, Places, Located
  <2>4. leases[o][obj[o].lease].state = "IN_USE"
    BY <2>2 DEF IInv, Places, LeaseStates, Leaving
  <2> QED BY <2>2, <2>3, <2>4
<1>8. kind = "FETCH" =>
        /\ fifo[o] = << >> => obj[o].lease = 0
        /\ fifo[o] # << >> => Leaves(Last(fifo[o]))
  BY ProjectedAway DEF InstantiateAction, Schedulable
<1>9. kind = "FETCH" \/ new.skips \/ (kind = "RELEASE" /\ new.spill) => Kept(o)
  <2>1. kind = "FETCH" \/ new.skips \/ (kind = "RELEASE" /\ new.spill) => Projected(o).spill
    BY DEF InstantiateAction, Schedulable, Scheduled
  <2> QED BY <1>6, <2>1, ProjectedKept
<1>10. /\ new.kind = kind /\ new.obj = o /\ new.task = T /\ new.state = "QUEUED"
       /\ new.version = obj[o].version /\ new.exec = (kind \in {"FETCH", "WRITE_BACK"})
       /\ new.skips => kind = "WRITE_BACK"
       /\ new.late = (kind = "RELEASE" /\ PendingCopy(o))
       /\ new.destination = NeedsDestination(kind, o) /\ new.lease = 0 /\ new.pred = pred
       /\ kind \in {"EVICT", "WRITE_BACK"} => new.spill
       /\ kind = "FETCH" => new.spill = (o \in plan.retained)
       /\ new.waits = NoEvent
  BY DEF Scheduled
<1>11. new \in ActionRecord
  <2>1. Projected(o).spill \in BOOLEAN
    <3>1. CASE fifo[o] = << >>
      BY <1>2, <3>1 DEF Projected, ObjectRecord
    <3>2. CASE fifo[o] # << >>
      <4> DEFINE z == Last(fifo[o])
      <4>1. z \in DOMAIN acts
        BY <1>1, <3>2, LastBehind DEF IInv, Lists
      <4>2. acts[z].spill \in BOOLEAN
        BY <1>3, <4>1 DEF ActionRecord
      <4>3. obj[o].spill \in BOOLEAN /\ obj[o].spillCurrent \in BOOLEAN
        BY <1>2 DEF ObjectRecord
      <4> HIDE DEF z
      <4>4. Projected(o).spill \in {acts[z].spill, obj[o].spill /\ obj[o].spillCurrent /\ obj[o].spillVersion = obj[o].version}
        BY DEF Projected, z
      <4> QED BY <4>2, <4>3, <4>4
    <3> QED BY <3>1, <3>2
  <2>2. /\ boundary.background \in BOOLEAN /\ T \in Nat /\ obj[o].version \in Nat
    BY <1>1, <1>2 DEF Types, ObjectRecord
  <2>3. pred \in (Objects \X Nat) \cup {NoRange}
    <3> SUFFICES ASSUME pred \in Promisable PROVE pred \in Objects \X Nat
      OBVIOUS
    <3>1. PICK q \in Objects : pred \in {q} \X DOMAIN leases[q]
      BY DEF Promisable
    <3>2. DOMAIN leases[q] \subseteq Nat
      BY <1>1, ObjectTyped
    <3> QED BY <3>1, <3>2
  <2>4. NoEvent \in Events
    BY DEF Events
  <2> DEFINE ex == kind \in {"FETCH", "WRITE_BACK"}
             sp == CASE kind = "FETCH" -> o \in plan.retained
                     [] kind = "RELEASE" -> Projected(o).spill
                     [] OTHER -> TRUE
             sk == kind = "WRITE_BACK" /\ Projected(o).spill
             la == kind = "RELEASE" /\ PendingCopy(o)
             de == NeedsDestination(kind, o)
  <2>5. ex \in BOOLEAN /\ sp \in BOOLEAN /\ sk \in BOOLEAN /\ la \in BOOLEAN /\ de \in BOOLEAN
    <3>1. ex \in BOOLEAN /\ la \in BOOLEAN
      BY DEF PendingCopy
    <3>2. sk \in BOOLEAN
      BY <2>1
    <3>3. sp \in BOOLEAN
      <4>1. kind = "FETCH" => (sp <=> o \in plan.retained) /\ sp \in BOOLEAN
        OBVIOUS
      <4>2. kind = "RELEASE" => sp = Projected(o).spill
        OBVIOUS
      <4>3. kind \notin {"FETCH", "RELEASE"} => sp = TRUE
        OBVIOUS
      <4> HIDE DEF sp
      <4> QED BY <2>1, <4>1, <4>2, <4>3
    <3>4. de \in BOOLEAN
      BY DEF NeedsDestination
    <3> QED BY <3>1, <3>2, <3>3, <3>4
  <2>6. new = [kind |-> kind, obj |-> o, background |-> boundary.background, task |-> T,
               state |-> "QUEUED", version |-> obj[o].version, exec |-> ex, spill |-> sp, skips |-> sk,
               late |-> la, destination |-> de, lease |-> 0, pred |-> pred, waits |-> NoEvent, sequence |-> 0]
    BY DEF Scheduled
  <2> HIDE DEF new, ex, sp, sk, la, de
  <2> QED BY <2>2, <2>3, <2>4, <2>5, <2>6 DEF ActionRecord, AllStates
<1>12. /\ acts' = Append(acts, new)
       /\ fifo' = [fifo EXCEPT ![o] = Append(@, Len(acts) + 1)]
       /\ boundary' = [boundary EXCEPT !.batch = Append(@, Len(acts) + 1)]
       /\ obj' = [obj EXCEPT ![o].unpublished = IF kind = "FETCH" THEN @ + 1 ELSE @]
       /\ UNCHANGED << sequences, worker, published, tasks, ran, lane, copied, spilled, plan >>
  BY DEF InstantiateAction, device
<1>13. /\ failed' = failed
       /\ IF kind # "FETCH" /\ retires THEN leases' = Retire(source, event) ELSE leases' = leases
  <2>1. kind # "FETCH" => Retirable(source) /\ obj[o].lease # 0
    BY <1>7 DEF Retirable, Lease
  <2> QED BY <2>1 DEF InstantiateAction
<1> HIDE DEF new
<1>14. /\ DOMAIN acts' = 1 .. n /\ DOMAIN acts = 1 .. n - 1 /\ Len(acts') = n
       /\ acts'[n] = new /\ \A a \in DOMAIN acts : acts'[a] = acts[a] /\ a < n
       /\ n \notin DOMAIN acts /\ DOMAIN acts \subseteq DOMAIN acts' /\ n \in DOMAIN acts'
       /\ acts' \in Seq(ActionRecord)
  <2>1. acts \in Seq(ActionRecord) /\ Len(acts) \in Nat
    BY <1>1 DEF Types
  <2>2. DOMAIN acts = 1 .. n - 1 /\ Len(acts) = n - 1
    BY <1>4, <2>1
  <2>3. /\ acts' \in Seq(ActionRecord) /\ DOMAIN acts' = 1 .. n /\ Len(acts') = n
        /\ acts'[n] = new /\ \A a \in 1 .. n - 1 : acts'[a] = acts[a]
    BY <1>4, <1>11, <1>12, <2>1, <2>2
  <2> QED BY <1>4, <2>2, <2>3
<1>15. \A a \in DOMAIN acts' : a = n \/ a \in DOMAIN acts
  BY <1>4, <1>14
<1>16. /\ DOMAIN obj' = Objects
       /\ \A p \in Objects : p # o => obj'[p] = obj[p]
       /\ obj'[o] = [obj[o] EXCEPT !.unpublished = IF kind = "FETCH" THEN obj[o].unpublished + 1
                                                   ELSE obj[o].unpublished]
       /\ \A p \in Objects : p # o => fifo'[p] = fifo[p]
       /\ fifo'[o] = Append(fifo[o], n) /\ DOMAIN fifo' = Objects
  BY <1>1, <1>4, <1>12 DEF Types
<1>17. /\ \A p \in Objects : /\ obj'[p].residency = obj[p].residency /\ obj'[p].version = obj[p].version
                             /\ obj'[p].lease = obj[p].lease /\ obj'[p].execVersion = obj[p].execVersion
                             /\ obj'[p].spill = obj[p].spill /\ obj'[p].spillCurrent = obj[p].spillCurrent
                             /\ obj'[p].spillVersion = obj[p].spillVersion
                             /\ obj'[p].readiness = obj[p].readiness
       /\ obj'[o].unpublished = IF kind = "FETCH" THEN obj[o].unpublished + 1 ELSE obj[o].unpublished
       /\ obj'[o] \in ObjectRecord
  <2>1. obj[o].unpublished \in Nat
    BY <1>2 DEF ObjectRecord
  <2>2. (IF kind = "FETCH" THEN obj[o].unpublished + 1 ELSE obj[o].unpublished) \in Nat
    BY <2>1
  <2>3. obj'[o] \in ObjectRecord
    BY <1>2, <1>16, <2>2 DEF ObjectRecord
  <2>4. /\ obj'[o].residency = obj[o].residency /\ obj'[o].version = obj[o].version
        /\ obj'[o].lease = obj[o].lease /\ obj'[o].execVersion = obj[o].execVersion
        /\ obj'[o].spill = obj[o].spill /\ obj'[o].spillCurrent = obj[o].spillCurrent
        /\ obj'[o].spillVersion = obj[o].spillVersion
        /\ obj'[o].readiness = obj[o].readiness
        /\ obj'[o].unpublished = IF kind = "FETCH" THEN obj[o].unpublished + 1 ELSE obj[o].unpublished
    BY <1>2, <1>16 DEF ObjectRecord
  <2> QED BY <1>16, <2>3, <2>4
<1>18. /\ boundary'.at = "batch" /\ boundary'.update = None
       /\ boundary'.batch = Append(boundary.batch, n) /\ boundary.batch \in Seq(Nat)
       /\ boundary' \in [at : {"idle", "task", "batch", "await"}, background : BOOLEAN,
                         update : Objects \cup {None}, batch : Seq(Nat)]
  <2>1. boundary' = [at |-> boundary.at, background |-> boundary.background,
                     update |-> boundary.update, batch |-> Append(boundary.batch, n)]
    BY <1>1, <1>4, <1>12 DEF Types
  <2>2. boundary.batch \in Seq(Nat)
    BY <1>1 DEF Types
  <2> QED BY <1>1, <1>5, <2>1, <2>2 DEF Types
<1>19. /\ leases' \in [Objects -> Seq(LeaseRecord)]
       /\ \A p \in Objects : Len(leases'[p]) = Len(leases[p]) /\ DOMAIN leases'[p] = DOMAIN leases[p]
       /\ \A p \in Objects : \A h \in DOMAIN leases[p] : leases'[p][h].data = leases[p][h].data
       /\ \A p \in Objects : \A h \in DOMAIN leases[p] :
            ~(p = o /\ h = obj[o].lease /\ kind # "FETCH" /\ retires) => leases'[p][h] = leases[p][h]
       /\ kind # "FETCH" /\ retires =>
            leases'[o][obj[o].lease].state = "RETIRE_PENDING" /\ leases'[o][obj[o].lease].event = event
  <2>1. CASE kind # "FETCH" /\ retires
    <3> DEFINE old == leases[o][obj[o].lease]
               item == [old EXCEPT !.state = "RETIRE_PENDING", !.event = event]
    <3>1. obj[o].lease \in DOMAIN leases[o] /\ old \in LeaseRecord
      BY <1>2, <1>7, <2>1
    <3>2. leases' = [leases EXCEPT ![o] = [leases[o] EXCEPT ![obj[o].lease] = item]]
      BY <1>1, <1>13, <2>1 DEF Retire, Types
    <3>3. event \in Events
      BY <1>1 DEF Events, Types
    <3>4. item \in LeaseRecord /\ item.data = old.data /\ item.state = "RETIRE_PENDING" /\ item.event = event
      <4> HIDE DEF event, old
      <4> QED BY <3>1, <3>3 DEF LeaseRecord
    <3> HIDE DEF item
    <3>5. [leases[o] EXCEPT ![obj[o].lease] = item] \in Seq(LeaseRecord)
      BY <1>2, <3>1, <3>4
    <3>6. /\ leases'[o] = [leases[o] EXCEPT ![obj[o].lease] = item]
          /\ \A p \in Objects : p # o => leases'[p] = leases[p]
          /\ leases' \in [Objects -> Seq(LeaseRecord)]
      BY <1>1, <3>2, <3>5 DEF Types
    <3>7. /\ leases'[o][obj[o].lease] = item
          /\ \A h \in DOMAIN leases[o] : h # obj[o].lease => leases'[o][h] = leases[o][h]
          /\ Len(leases'[o]) = Len(leases[o]) /\ DOMAIN leases'[o] = DOMAIN leases[o]
      BY <1>2, <3>1, <3>4, <3>6
    <3> HIDE DEF old
    <3>8. \A h \in DOMAIN leases[o] : leases'[o][h].data = leases[o][h].data
      BY <3>4, <3>7 DEF old
    <3> QED BY <2>1, <3>4, <3>6, <3>7, <3>8
  <2>2. CASE ~(kind # "FETCH" /\ retires)
    BY <1>1, <1>13, <2>2 DEF Types
  <2> QED BY <2>1, <2>2
<1> HIDE DEF source, event
<1>20. Types'
  <2>1. obj' \in [Objects -> ObjectRecord]
    <3>1. \A p \in Objects : obj'[p] \in ObjectRecord
      BY <1>1, <1>16, <1>17, ObjectTyped
    <3>2. obj' = [p \in Objects |-> obj'[p]]
      BY <1>1, <1>12 DEF Types
    <3> QED BY <3>1, <3>2
  <2>2. fifo' \in [Objects -> Seq(Nat)]
    <3>1. fifo'[o] \in Seq(Nat)
      BY <1>1, <1>16 DEF Types
    <3>2. \A p \in Objects : fifo'[p] \in Seq(Nat)
      BY <1>1, <1>16, <3>1 DEF Types
    <3>3. fifo' = [p \in Objects |-> fifo'[p]]
      BY <1>1, <1>12 DEF Types
    <3> QED BY <3>2, <3>3
  <2>3. published' \in 0 .. Len(acts') /\ copied' \subseteq DOMAIN acts'
    BY <1>1, <1>4, <1>12, <1>14, SMTT(20) DEF Types
  <2> QED BY <1>1, <1>12, <1>14, <1>18, <1>19, <2>1, <2>2, <2>3 DEF Types
<1>21. /\ \A a \in DOMAIN acts : /\ (Open(a)' <=> Open(a)) /\ (Queued(a)' <=> Queued(a))
                                 /\ (Copies(a)' <=> Copies(a)) /\ (Fetch(a)' <=> Fetch(a))
                                 /\ (Leaves(a)' <=> Leaves(a)) /\ (Waiting(a)' <=> Waiting(a))
                                 /\ (Triggered(a)' <=> Triggered(a))
       /\ Open(n)' /\ (Fetch(n)' <=> kind = "FETCH") /\ (Waiting(n)' <=> kind = "FETCH")
       /\ (Leaves(n)' <=> kind \in {"EVICT", "RELEASE"})
       /\ (Copies(n)' <=> kind \in {"EVICT", "WRITE_BACK"} /\ ~new.skips)
       /\ (Queued(n)' <=> kind # "RELEASE" /\ ~new.skips)
  BY <1>10, <1>12, <1>14 DEF Open, Queued, Copies, Fetch, Leaves, Waiting, Triggered
<1>22. /\ \A a, b \in DOMAIN acts : Behind(a, b)' <=> Behind(a, b)
       /\ \A a \in DOMAIN acts' : ~Behind(n, a)'
       /\ \A a \in DOMAIN acts : Behind(a, n)' <=> acts[a].obj = o /\ Open(a)
  <2>1. \A a \in DOMAIN acts' : ~(n < a)
    BY <1>4, <1>14
  <2> QED BY <1>10, <1>14, <1>21, <2>1 DEF Behind
<1>23. /\ \A a \in DOMAIN acts : First(a)' <=> First(a)
       /\ First(n)' => \A a \in DOMAIN acts : acts[a].obj = o => ~Open(a)
  BY <1>14, <1>15, <1>21, <1>22 DEF First
<1>24. /\ \A a : (Done(a)' <=> Done(a)) /\ (InHand(a)' <=> InHand(a))
       /\ ~Done(n) /\ ~InHand(n)
  <2>1. worker.at # "idle" => worker.action \in DOMAIN acts
    BY <1>1 DEF IInv, Flights, AtLane, AtDone, First, Types
  <2> QED BY <1>12, <1>14, <2>1 DEF Done, InHand
<1>25. Listed'
  <2>1. Pending(o)' = Pending(o) \cup {n} /\ \A p \in Objects : p # o => Pending(p)' = Pending(p)
    BY <1>10, <1>14, <1>15, <1>21 DEF Pending
  <2> SUFFICES ASSUME NEW p \in Objects
               PROVE  /\ \A i \in DOMAIN fifo'[p] : fifo'[p][i] \in Pending(p)'
                      /\ \A a \in Pending(p)' : \E i \in DOMAIN fifo'[p] : fifo'[p][i] = a
                      /\ \A i, j \in DOMAIN fifo'[p] : i < j => fifo'[p][i] < fifo'[p][j]
    BY DEF Listed
  <2>2. CASE p # o
    BY <1>16, <2>1, <2>2 DEF IInv, Lists, Listed
  <2>3. CASE p = o
    <3> DEFINE m == Len(fifo[o])
    <3>1. fifo[o] \in Seq(Nat) /\ m \in Nat
      BY <1>1 DEF Types
    <3>2. /\ DOMAIN fifo'[o] = 1 .. m + 1 /\ fifo'[o][m + 1] = n /\ DOMAIN fifo[o] = 1 .. m
          /\ \A i \in 1 .. m : fifo'[o][i] = fifo[o][i]
      BY <1>16, <3>1
    <3> HIDE DEF m
    <3>3. \A i \in 1 .. m : fifo[o][i] \in Pending(o) /\ fifo[o][i] < n /\ fifo[o][i] \in Nat
      BY <1>3, <1>14, <3>2 DEF IInv, Lists, Listed, Pending
    <3>4. \A i \in DOMAIN fifo'[o] : fifo'[o][i] \in Pending(o)'
      BY <2>1, <3>1, <3>2, <3>3, SMTT(20)
    <3>5. \A a \in Pending(o)' : \E i \in DOMAIN fifo'[o] : fifo'[o][i] = a
      <4> SUFFICES ASSUME NEW a \in Pending(o)' PROVE \E i \in DOMAIN fifo'[o] : fifo'[o][i] = a
        OBVIOUS
      <4>1. CASE a = n
        <5>1. m + 1 \in DOMAIN fifo'[o]
          BY <3>1, <3>2
        <5> QED BY <3>2, <4>1, <5>1
      <4>2. CASE a \in Pending(o)
        <5>1. PICK i \in 1 .. m : fifo[o][i] = a
          BY <3>2, <4>2 DEF IInv, Lists, Listed
        <5>2. i \in DOMAIN fifo'[o]
          BY <3>1, <3>2
        <5> QED BY <3>2, <5>1, <5>2
      <4> QED BY <2>1, <4>1, <4>2
    <3>6. \A i, j \in DOMAIN fifo'[o] : i < j => fifo'[o][i] < fifo'[o][j]
      <4> SUFFICES ASSUME NEW i \in DOMAIN fifo'[o], NEW j \in DOMAIN fifo'[o], i < j
                   PROVE  fifo'[o][i] < fifo'[o][j]
        OBVIOUS
      <4>1. i \in 1 .. m /\ (j \in 1 .. m \/ j = m + 1)
        BY <3>1, <3>2
      <4>2. CASE j \in 1 .. m
        BY <3>2, <4>1, <4>2 DEF IInv, Lists, Listed
      <4>3. CASE j = m + 1
        BY <3>2, <3>3, <4>1, <4>3
      <4> QED BY <4>1, <4>2, <4>3
    <3> QED BY <2>3, <3>4, <3>5, <3>6
  <2> QED BY <2>2, <2>3
<1>26. Static'
  <2> SUFFICES ASSUME NEW a \in DOMAIN acts'
               PROVE  (/\ acts[a].exec = (acts[a].kind \in {"FETCH", "WRITE_BACK"})
                       /\ acts[a].skips => acts[a].kind = "WRITE_BACK"
                       /\ acts[a].late => acts[a].kind = "RELEASE"
                       /\ acts[a].kind \in {"EVICT", "WRITE_BACK"} => acts[a].spill
                       /\ Fetch(a) => acts[a].spill = (acts[a].obj \in plan.retained)
                       /\ acts[a].task <= Len(tasks)
                       /\ acts[a].lease \in 0 .. Len(leases[acts[a].obj])
                       /\ ~Queued(a) => acts[a].lease = 0)'
    BY DEF Static
  <2>1. CASE a \in DOMAIN acts
    BY <1>3, <1>12, <1>14, <1>19, <1>21, <2>1 DEF IInv, Lists, Static
  <2>2. CASE a = n
    <3>1. Len(leases'[o]) \in Nat /\ Len(tasks) \in Nat
      BY <1>1, <1>19 DEF Types
    <3>2. acts'[n].exec = (acts'[n].kind \in {"FETCH", "WRITE_BACK"})
      BY <1>10, <1>14
    <3>3. kind = "FETCH" => acts'[n].spill = (acts'[n].obj \in plan'.retained)
      BY <1>10, <1>12, <1>14
    <3>4. /\ acts'[n].skips => acts'[n].kind = "WRITE_BACK"
          /\ acts'[n].late => acts'[n].kind = "RELEASE"
          /\ acts'[n].kind \in {"EVICT", "WRITE_BACK"} => acts'[n].spill
          /\ acts'[n].lease = 0 /\ acts'[n].obj = o
      <4>1. new.kind = kind
        BY <1>10
      <4> QED BY <1>10, <1>14, <4>1
    <3>6. acts'[n].task <= Len(tasks')
      BY <1>10, <1>12, <1>14, <3>1
    <3>5. acts'[n].lease \in 0 .. Len(leases'[acts'[n].obj])
      BY <3>1, <3>4
    <3> QED BY <1>21, <2>2, <3>2, <3>3, <3>4, <3>5, <3>6
  <2> QED BY <1>15, <2>1, <2>2
<1>27. Order'
  <2> SUFFICES ASSUME NEW a \in DOMAIN acts', NEW b \in DOMAIN acts', Behind(a, b)'
               PROVE  (/\ Leaves(a) => Fetch(b)
                       /\ Fetch(b) => /\ Waiting(b)
                                      /\ \E c \in DOMAIN acts : /\ acts[c].obj = acts[a].obj /\ Open(c)
                                                                /\ Leaves(c) /\ a <= c /\ c < b
                       /\ ~Waiting(a)
                       /\ acts[a].version <= acts[b].version)'
    BY DEF Order
  <2>1. a \in DOMAIN acts
    BY <1>15, <1>22
  <2>2. CASE b \in DOMAIN acts
    <3>1. Behind(a, b)
      BY <1>22, <2>1, <2>2
    <3>2. /\ Leaves(a) => Fetch(b)
          /\ Fetch(b) => Waiting(b)
          /\ ~Waiting(a)
          /\ acts[a].version <= acts[b].version
      BY <2>1, <2>2, <3>1 DEF IInv, Lists, Order
    <3>3. ASSUME Fetch(b) PROVE \E c \in DOMAIN acts' : /\ acts'[c].obj = acts'[a].obj /\ Open(c)' /\ Leaves(c)'
                                                        /\ a <= c /\ c < b
      <4>1. PICK c \in DOMAIN acts : acts[c].obj = acts[a].obj /\ Open(c) /\ Leaves(c) /\ a <= c /\ c < b
        BY <2>1, <2>2, <3>1, <3>3 DEF IInv, Lists, Order
      <4> QED BY <1>14, <1>21, <2>1, <4>1
    <3> QED BY <1>14, <1>21, <2>1, <2>2, <3>2, <3>3
  <2>3. CASE b = n
    <3>1. acts[a].obj = o /\ Open(a)
      BY <1>22, <2>1, <2>3
    <3>2. ~Waiting(a)
      BY <1>6, <2>1, <3>1
    <3>3. acts[a].version <= obj[o].version
      BY <2>1, <3>1 DEF IInv, Lists, Versions
    <3>4. Leaves(a) => kind = "FETCH"
      BY <1>7, <2>1, <3>1 DEF Leaving
    <3>5. ASSUME kind = "FETCH"
          PROVE  \E c \in DOMAIN acts' : /\ acts'[c].obj = acts'[a].obj /\ Open(c)' /\ Leaves(c)'
                                         /\ a <= c /\ c < b
      <4> DEFINE z == Last(fifo[o])
      <4>1. fifo[o] # << >>
        BY <1>1, <2>1, <3>1, NoneOpen DEF IInv, Lists
      <4>2. z \in DOMAIN acts /\ acts[z].obj = o /\ Open(z) /\ Leaves(z)
        BY <1>1, <1>8, <3>5, <4>1, LastBehind DEF IInv, Lists
      <4>3. a = z \/ Behind(a, z)
        BY <1>1, <2>1, <3>1, <4>1, BehindLast DEF IInv, Lists
      <4> HIDE DEF z
      <4>4. a <= z /\ z < n
        BY <1>3, <1>14, <2>1, <4>2, <4>3 DEF Behind
      <4> QED BY <1>14, <1>21, <2>1, <2>3, <3>1, <4>2, <4>4
    <3> QED BY <1>10, <1>14, <1>21, <2>1, <2>3, <3>2, <3>3, <3>4, <3>5
  <2> QED BY <1>15, <2>2, <2>3
<1>28. Awaited'
  <2>1. /\ Len(boundary.batch) \in Nat /\ Len(boundary.batch) + 1 \in DOMAIN boundary'.batch
        /\ boundary'.batch[Len(boundary.batch) + 1] = n
        /\ \A i \in DOMAIN boundary.batch : i \in DOMAIN boundary'.batch /\ boundary'.batch[i] = boundary.batch[i]
    BY <1>18, SMTT(20)
  <2> SUFFICES ASSUME NEW a \in DOMAIN acts', Waiting(a)'
               PROVE  /\ \E i \in DOMAIN boundary'.batch : boundary'.batch[i] = a
                      /\ acts'[a].task = Len(tasks')
                      /\ acts'[a].version = obj'[acts'[a].obj].version
    BY <1>18 DEF Awaited
  <2>2. CASE a = n
    <3>1. \E i \in DOMAIN boundary'.batch : boundary'.batch[i] = n
      BY <2>1
    <3>2. acts'[n].task = Len(tasks') /\ acts'[n].version = obj'[acts'[n].obj].version
      BY <1>10, <1>12, <1>14, <1>17
    <3> QED BY <2>2, <3>1, <3>2
  <2>3. CASE a \in DOMAIN acts
    <3>1. Waiting(a)
      BY <1>21, <2>3
    <3>2. /\ \E i \in DOMAIN boundary.batch : boundary.batch[i] = a
          /\ acts[a].task = Len(tasks) /\ acts[a].version = obj[acts[a].obj].version
      BY <2>3, <3>1 DEF IInv, Lists, Awaited
    <3> QED BY <1>3, <1>12, <1>14, <1>17, <2>1, <2>3, <3>2
  <2> QED BY <1>15, <2>2, <2>3
<1>29. Versions'
  <2> SUFFICES ASSUME NEW a \in DOMAIN acts', Open(a)'
               PROVE  (/\ acts[a].version <= obj[acts[a].obj].version
                       /\ Leaves(a) => /\ acts[a].version = obj[acts[a].obj].version
                                       /\ \A t \in DOMAIN tasks : tasks[t].obj = acts[a].obj => t <= acts[a].task)'
    BY DEF Versions
  <2>1. CASE a \in DOMAIN acts
    BY <1>3, <1>12, <1>14, <1>17, <1>21, <2>1 DEF IInv, Lists, Versions
  <2>2. CASE a = n
    <3>1. obj[o].version \in Nat
      BY <1>2 DEF ObjectRecord
    <3>2. \A t \in DOMAIN tasks : t <= Len(tasks)
      BY <1>1, TaskTyped
    <3> QED BY <1>10, <1>12, <1>14, <1>17, <2>2, <3>1, <3>2
  <2> QED BY <1>15, <2>1, <2>2
<1>30. Unpublished'
  <2> SUFFICES ASSUME NEW p \in Objects
               PROVE  obj'[p].unpublished =
                        IF \E a \in DOMAIN acts' : acts'[a].obj = p /\ Waiting(a)' THEN 1 ELSE 0
    BY DEF Unpublished
  <2>1. CASE p # o
    <3>1. (\E a \in DOMAIN acts' : acts'[a].obj = p /\ Waiting(a)')
            <=> (\E a \in DOMAIN acts : acts[a].obj = p /\ Waiting(a))
      BY <1>10, <1>14, <1>15, <1>21, <2>1
    <3> QED BY <1>16, <2>1, <3>1 DEF IInv, Lists, Unpublished
  <2>2. CASE p = o
    <3>1. obj[o].unpublished = 0
      BY <1>6 DEF IInv, Lists, Unpublished
    <3>2. (\E a \in DOMAIN acts' : acts'[a].obj = o /\ Waiting(a)') <=> kind = "FETCH"
      BY <1>6, <1>10, <1>14, <1>15, <1>21
    <3> QED BY <1>17, <2>2, <3>1, <3>2
  <2> QED BY <2>1, <2>2
<1>31. Stages'
  <2> SUFFICES ASSUME NEW a \in DOMAIN acts'
               PROVE  (/\ ~Open(a) /\ Queued(a) => a \in copied
                       /\ a \in copied => Queued(a) /\ acts[a].state # "QUEUED" /\ (~Fetch(a) => Triggered(a))
                       /\ acts[a].state = "IN_FLIGHT" =>
                            /\ Queued(a) /\ First(a) /\ acts[a].lease # 0
                            /\ ~Done(a) => acts[a].lease = obj[acts[a].obj].lease
                            /\ Copies(a) => obj[acts[a].obj].spill
                       /\ acts[a].state = "QUEUED" =>
                            /\ Fetch(a) /\ ~InHand(a) => acts[a].lease = 0 /\ acts[a].destination
                            /\ Copies(a) /\ acts[a].lease # 0 => acts[a].lease = obj[acts[a].obj].lease
                            /\ Copies(a) /\ ~acts[a].destination =>
                                 /\ obj[acts[a].obj].spill
                                 /\ acts[a].obj \in plan.retained \/ First(a))'
    BY DEF Stages
  <2>1. CASE a \in DOMAIN acts
    BY <1>3, <1>12, <1>14, <1>17, <1>21, <1>23, <1>24, <2>1 DEF IInv, Flights, Stages
  <2>2. CASE a = n
    <3>1. n \notin copied
      BY <1>1, <1>14 DEF Types
    <3>2. kind = "FETCH" => new.destination
      BY <1>10 DEF NeedsDestination
    <3>3. kind \in {"EVICT", "WRITE_BACK"} /\ ~new.destination => obj[o].spill /\ o \in plan.retained
      BY <1>10 DEF NeedsDestination
    <3> QED BY <1>10, <1>12, <1>14, <1>17, <1>21, <2>2, <3>1, <3>2, <3>3
  <2> QED BY <1>15, <2>1, <2>2
<1>32. OnLanes'
  BY <1>12, <1>14 DEF IInv, Flights, OnLanes
<1>33. AtDone'
  <2>1. worker.at = "done" => worker.action \in DOMAIN acts
    BY DEF IInv, Flights, AtDone, First
  <2> QED BY <1>12, <1>14, <1>21, <1>23, <2>1 DEF IInv, Flights, AtDone
<1>34. AtLane'
  <2> SUFFICES ASSUME worker.at = "lane", NEW a \in DOMAIN acts, a = worker.action
               PROVE  (/\ First(a) /\ Queued(a) /\ acts[a].state = "QUEUED" /\ acts[a].lease # 0
                       /\ IF Fetch(a)
                          THEN /\ Fetchable(obj[acts[a].obj]) /\ obj[acts[a].obj].lease = 0
                               /\ obj[acts[a].obj].version = worker.version
                               /\ leases[acts[a].obj][acts[a].lease].state = "IN_USE"
                               /\ \A t \in DOMAIN tasks :
                                    tasks[t].obj = acts[a].obj => tasks[t].lease # acts[a].lease
                               /\ \A b \in DOMAIN acts :
                                    acts[b].obj = acts[a].obj /\ acts[b].lease = acts[a].lease => b = a
                          ELSE acts[a].lease = obj[acts[a].obj].lease /\ obj[acts[a].obj].spill)'
    <3>1. worker.at = "lane" => worker.action \in DOMAIN acts
      BY DEF IInv, Flights, AtLane, First
    <3> QED BY <1>12, <3>1 DEF AtLane
  <2>1. First(a) /\ Queued(a) /\ acts[a].state = "QUEUED" /\ acts[a].lease # 0
    BY DEF IInv, Flights, AtLane
  <2>2. CASE Fetch(a)
    <3>1. /\ Fetchable(obj[acts[a].obj]) /\ obj[acts[a].obj].lease = 0
          /\ obj[acts[a].obj].version = worker.version
          /\ leases[acts[a].obj][acts[a].lease].state = "IN_USE"
          /\ \A t \in DOMAIN tasks : tasks[t].obj = acts[a].obj => tasks[t].lease # acts[a].lease
          /\ \A b \in DOMAIN acts : acts[b].obj = acts[a].obj /\ acts[b].lease = acts[a].lease => b = a
      BY <2>2 DEF IInv, Flights, AtLane
    <3>2. acts[a].obj = o => kind = "FETCH"
      BY <1>7, <3>1
    <3>3. acts[a].lease \in DOMAIN leases[acts[a].obj]
      BY <1>1, <1>3, <2>1, ObjectTyped DEF IInv, Lists, Static
    <3>4. leases'[acts[a].obj][acts[a].lease].state = "IN_USE"
      BY <1>3, <1>19, <3>1, <3>2, <3>3
    <3>5. Fetchable(obj'[acts[a].obj])
      BY <1>3, <1>17, <3>1 DEF Fetchable
    <3>6. \A b \in DOMAIN acts' : acts'[b].obj = acts[a].obj /\ acts'[b].lease = acts[a].lease => b = a
      BY <1>10, <1>14, <1>15, <2>1, <3>1
    <3>7. acts'[a] = acts[a] /\ worker' = worker /\ tasks' = tasks /\ acts[a].obj \in Objects
      BY <1>3, <1>12, <1>14
    <3>8. obj'[acts[a].obj].lease = 0 /\ obj'[acts[a].obj].version = worker.version
      BY <1>17, <3>1, <3>7
    <3>9. Fetch(a)' /\ First(a)' /\ Queued(a)'
      BY <1>21, <1>23, <2>1, <2>2
    <3> QED BY <2>1, <3>1, <3>4, <3>5, <3>6, <3>7, <3>8, <3>9
  <2>3. CASE ~Fetch(a)
    <3>1. acts[a].lease = obj[acts[a].obj].lease /\ obj[acts[a].obj].spill
      BY <2>3 DEF IInv, Flights, AtLane
    <3> QED BY <1>3, <1>14, <1>17, <1>21, <1>23, <2>1, <2>3, <3>1
  <2> QED BY <2>2, <2>3
<1>35. Located'
  <2>1. \A p \in Objects : Leaving(p) => Leaving(p)'
    BY <1>14, <1>21 DEF Leaving
  <2> SUFFICES ASSUME NEW p \in Objects
               PROVE  (/\ obj[p].lease \in 0 .. Len(leases[p])
                       /\ obj[p].lease = 0 <=> obj[p].residency \in {"SPILL_ONLY", "RELEASED"}
                       /\ obj[p].lease # 0 => obj[p].execVersion = obj[p].version
                       /\ obj[p].residency = "RELEASED" => ~obj[p].spillCurrent
                       /\ obj[p].spillCurrent => obj[p].spill
                       /\ obj[p].residency = "FETCHING" =>
                            LET f == obj[p].readiness IN
                            /\ f \in DOMAIN acts /\ acts[f].obj = p /\ Fetch(f)
                            /\ acts[f].state = "IN_FLIGHT" /\ ~Done(f)
                       /\ obj[p].residency = "EVICTING" => Leaving(p)
                       /\ \A a \in DOMAIN acts : acts[a].obj = p /\ First(a) =>
                            /\ obj[p].lease = 0 <=> Waiting(a) \/ (Leaves(a) /\ Done(a))
                            /\ Fetch(a) /\ acts[a].state = "IN_FLIGHT" /\ ~Done(a) =>
                                 obj[p].residency = "FETCHING" /\ obj[p].readiness = a)'
    BY DEF Located
  <2>2. /\ obj[p].lease \in 0 .. Len(leases[p])
        /\ obj[p].lease = 0 <=> obj[p].residency \in {"SPILL_ONLY", "RELEASED"}
        /\ obj[p].lease # 0 => obj[p].execVersion = obj[p].version
        /\ obj[p].residency = "RELEASED" => ~obj[p].spillCurrent
        /\ obj[p].spillCurrent => obj[p].spill
        /\ obj[p].residency = "EVICTING" => Leaving(p)
    BY DEF IInv, Places, Located
  <2>3. obj[p].residency = "FETCHING" =>
          /\ obj[p].readiness \in DOMAIN acts /\ acts[obj[p].readiness].obj = p /\ Fetch(obj[p].readiness)
          /\ acts[obj[p].readiness].state = "IN_FLIGHT" /\ ~Done(obj[p].readiness)
    BY DEF IInv, Places, Located
  <2>4. \A a \in DOMAIN acts : acts[a].obj = p /\ First(a) =>
          /\ obj[p].lease = 0 <=> Waiting(a) \/ (Leaves(a) /\ Done(a))
          /\ Fetch(a) /\ acts[a].state = "IN_FLIGHT" /\ ~Done(a) =>
               obj[p].residency = "FETCHING" /\ obj[p].readiness = a
    BY DEF IInv, Places, Located
  <2>5. p = o /\ First(n)' => (obj[p].lease = 0 <=> kind = "FETCH")
    <3> SUFFICES ASSUME p = o, First(n)' PROVE obj[o].lease = 0 <=> kind = "FETCH"
      OBVIOUS
    <3>1. \A a \in DOMAIN acts : acts[a].obj = o => ~Open(a)
      BY <1>23
    <3>2. fifo[o] = << >>
      BY <1>1, <3>1, LastBehind DEF IInv, Lists
    <3> QED BY <1>7, <1>8, <3>2
  <2>6. ASSUME NEW a \in DOMAIN acts', acts'[a].obj = p, First(a)'
        PROVE  /\ obj[p].lease = 0 <=> Waiting(a)' \/ (Leaves(a)' /\ Done(a)')
               /\ Fetch(a)' /\ acts'[a].state = "IN_FLIGHT" /\ ~Done(a)' =>
                               obj[p].residency = "FETCHING" /\ obj[p].readiness = a
    <3>1. CASE a \in DOMAIN acts
      BY <1>14, <1>21, <1>23, <1>24, <2>4, <2>6, <3>1
    <3>2. CASE a = n
      BY <1>10, <1>14, <1>21, <1>24, <2>5, <2>6, <3>2
    <3> QED BY <1>15, <3>1, <3>2
  <2>7. obj[p].residency = "FETCHING" =>
          (/\ obj[p].readiness \in DOMAIN acts /\ acts[obj[p].readiness].obj = p /\ Fetch(obj[p].readiness)
           /\ acts[obj[p].readiness].state = "IN_FLIGHT" /\ ~Done(obj[p].readiness))'
    BY <1>14, <1>17, <1>21, <1>24, <2>3
  <2> QED BY <1>17, <1>19, <2>1, <2>2, <2>6, <2>7
<1>36. LeaseStates'
  <2> SUFFICES ASSUME NEW p \in Objects
               PROVE  (/\ \A g \in DOMAIN leases[p] :
                            /\ leases[p][g].state = "IN_USE" => leases[p][g].event = NoEvent
                            /\ g # obj[p].lease =>
                                 \/ leases[p][g].state = "FREE"
                                 \/ /\ InHand(worker.action) /\ acts[worker.action].obj = p
                                    /\ acts[worker.action].lease = g
                       /\ obj[p].lease # 0 /\ ~(\E a \in DOMAIN acts : acts[a].obj = p /\ Open(a) /\ Leaves(a) /\ ~acts[a].late) =>
                            leases[p][obj[p].lease].state = "IN_USE"
                       /\ obj[p].lease # 0 => \A a \in DOMAIN acts :
                            acts[a].obj = p /\ Open(a) /\ Leaves(a) /\ ~acts[a].late =>
                              /\ leases[p][obj[p].lease].state = "RETIRE_PENDING"
                              /\ leases[p][obj[p].lease].event =
                                   IF acts[a].kind = "RELEASE" THEN << "task", acts[a].task >>
                                   ELSE IF acts[a].state = "QUEUED" THEN NoEvent ELSE << "copy", a >>)'
    BY DEF LeaseStates
  <2>1. InHand(worker.action) => worker.action \in DOMAIN acts
    BY DEF IInv, Flights, AtLane, InHand, First
  <2>2. ASSUME NEW h \in DOMAIN leases'[p]
        PROVE  (/\ leases[p][h].state = "IN_USE" => leases[p][h].event = NoEvent
                /\ h # obj[p].lease =>
                     \/ leases[p][h].state = "FREE"
                     \/ /\ InHand(worker.action) /\ acts[worker.action].obj = p
                        /\ acts[worker.action].lease = h)'
    <3>1. /\ leases[p][h].state = "IN_USE" => leases[p][h].event = NoEvent
          /\ h # obj[p].lease =>
               \/ leases[p][h].state = "FREE"
               \/ /\ InHand(worker.action) /\ acts[worker.action].obj = p
                  /\ acts[worker.action].lease = h
      BY <1>19, <2>2 DEF IInv, Places, LeaseStates
    <3>2. CASE p = o /\ h = obj[o].lease /\ kind # "FETCH" /\ retires
      BY <1>17, <1>19, <3>2
    <3>3. CASE ~(p = o /\ h = obj[o].lease /\ kind # "FETCH" /\ retires)
      <4>1. leases'[p][h] = leases[p][h]
        BY <1>19, <2>2, <3>3
      <4> QED BY <1>12, <1>14, <1>17, <1>24, <2>1, <3>1, <4>1
    <3> QED BY <3>2, <3>3
  <2>3. CASE p # o
    <3>1. /\ obj[p].lease # 0 /\ ~(\E a \in DOMAIN acts : acts[a].obj = p /\ Open(a) /\ Leaves(a) /\ ~acts[a].late) =>
               leases[p][obj[p].lease].state = "IN_USE"
          /\ obj[p].lease # 0 => \A a \in DOMAIN acts :
               acts[a].obj = p /\ Open(a) /\ Leaves(a) /\ ~acts[a].late =>
                 /\ leases[p][obj[p].lease].state = "RETIRE_PENDING"
                 /\ leases[p][obj[p].lease].event =
                      IF acts[a].kind = "RELEASE" THEN << "task", acts[a].task >>
                      ELSE IF acts[a].state = "QUEUED" THEN NoEvent ELSE << "copy", a >>
      BY DEF IInv, Places, LeaseStates
    <3>2. obj[p].lease # 0 => leases'[p][obj[p].lease] = leases[p][obj[p].lease]
      <4>1. obj[p].lease # 0 => obj[p].lease \in DOMAIN leases[p]
        BY <1>1, ObjectTyped DEF IInv, Places, Located
      <4> QED BY <1>19, <2>3, <4>1
    <3>3. \A a \in DOMAIN acts' : acts'[a].obj = p => a \in DOMAIN acts /\ acts'[a] = acts[a]
      BY <1>10, <1>14, <1>15, <2>3
    <3>4. \A a \in DOMAIN acts : acts'[a] = acts[a] /\ a \in DOMAIN acts'
      BY <1>14
    <3> QED BY <1>17, <1>21, <2>2, <3>1, <3>2, <3>3, <3>4
  <2>4. CASE p = o /\ kind = "FETCH"
    <3>1. /\ obj[o].lease # 0 /\ ~(\E a \in DOMAIN acts : acts[a].obj = o /\ Open(a) /\ Leaves(a) /\ ~acts[a].late) =>
               leases[o][obj[o].lease].state = "IN_USE"
          /\ obj[o].lease # 0 => \A a \in DOMAIN acts :
               acts[a].obj = o /\ Open(a) /\ Leaves(a) /\ ~acts[a].late =>
                 /\ leases[o][obj[o].lease].state = "RETIRE_PENDING"
                 /\ leases[o][obj[o].lease].event =
                      IF acts[a].kind = "RELEASE" THEN << "task", acts[a].task >>
                      ELSE IF acts[a].state = "QUEUED" THEN NoEvent ELSE << "copy", a >>
      BY DEF IInv, Places, LeaseStates
    <3>2. leases' = leases
      BY <1>13, <2>4
    <3>3. \A a \in DOMAIN acts' : Leaves(a)' => a \in DOMAIN acts /\ acts'[a] = acts[a]
      BY <1>14, <1>15, <1>21, <2>4
    <3>4. \A a \in DOMAIN acts : acts'[a] = acts[a] /\ a \in DOMAIN acts'
      BY <1>14
    <3> QED BY <1>17, <1>21, <2>2, <2>4, <3>1, <3>2, <3>3, <3>4
  <2>5. CASE p = o /\ kind # "FETCH"
    <3>1. \A a \in DOMAIN acts' : acts'[a].obj = o /\ Open(a)' /\ Leaves(a)' => a = n
      BY <1>7, <1>14, <1>15, <1>21, <2>5 DEF Leaving
    <3>2. CASE retires
      <4>1. Leaves(n)' /\ ~acts'[n].late /\ acts'[n].obj = o
        BY <1>10, <1>14, <1>21, <3>2
      <4>2. event = IF acts'[n].kind = "RELEASE" THEN << "task", acts'[n].task >>
                    ELSE IF acts'[n].state = "QUEUED" THEN NoEvent ELSE << "copy", n >>
        BY <1>10, <1>14 DEF event
      <4>3. leases'[o][obj[o].lease].state = "RETIRE_PENDING" /\ leases'[o][obj[o].lease].event = event
        BY <1>19, <2>5, <3>2
      <4>4. n \in DOMAIN acts' /\ Open(n)' /\ obj'[o].lease = obj[o].lease
        BY <1>14, <1>17, <1>21
      <4>5. \E a \in DOMAIN acts' : acts'[a].obj = o /\ Open(a)' /\ Leaves(a)' /\ ~acts'[a].late
        BY <4>1, <4>4
      <4>6. ASSUME NEW a \in DOMAIN acts', acts'[a].obj = o, Open(a)', Leaves(a)'
            PROVE  /\ leases'[o][obj'[o].lease].state = "RETIRE_PENDING"
                   /\ leases'[o][obj'[o].lease].event =
                        IF acts'[a].kind = "RELEASE" THEN << "task", acts'[a].task >>
                        ELSE IF acts'[a].state = "QUEUED" THEN NoEvent ELSE << "copy", a >>
        <5>1. a = n
          BY <3>1, <4>6
        <5> QED BY <4>2, <4>3, <4>4, <5>1
      <4> QED BY <2>2, <2>5, <4>5, <4>6
    <3>3. CASE ~retires
      <4>1. Leaves(n)' => acts'[n].late
        BY <1>10, <1>14, <1>21, <3>3
      <4>2. leases'[o][obj[o].lease].state = "IN_USE"
        BY <1>7, <1>19, <2>5, <3>3
      <4> QED BY <1>17, <2>2, <2>5, <3>1, <4>1, <4>2
    <3> QED BY <3>2, <3>3
  <2> QED BY <2>3, <2>4, <2>5
<1>37. Updating'
  BY <1>18, ObjectsAssumption DEF Updating
<1>38. \A p \in Objects : Unrun(p)' = Unrun(p)
  BY <1>12 DEF Unrun
<1>39. Users'
  <2>1. \A t \in DOMAIN tasks' : tasks'[t].lease \in 1 .. Len(leases'[tasks'[t].obj])
    <3>1. \A t \in DOMAIN tasks : tasks[t].obj \in Objects
      BY <1>1, TaskTyped
    <3> QED BY <1>12, <1>19, <3>1 DEF IInv, Uses, Users
  <2>2. \A p \in Objects : \A t \in Unrun(p)' : tasks'[t].lease = obj'[p].lease
    BY <1>12, <1>17, <1>38 DEF IInv, Uses, Users
  <2>3. \A a \in DOMAIN acts' : a \notin copied' /\ acts'[a].lease # 0 /\ ~InHand(a)' =>
          acts'[a].lease = obj'[acts'[a].obj].lease
    <3> SUFFICES ASSUME NEW a \in DOMAIN acts', a \notin copied', acts'[a].lease # 0, ~InHand(a)'
                 PROVE  acts'[a].lease = obj'[acts'[a].obj].lease
      OBVIOUS
    <3>1. a \in DOMAIN acts /\ acts'[a] = acts[a] /\ acts[a].obj \in Objects
      BY <1>3, <1>10, <1>14, <1>15
    <3>2. acts[a].lease = obj[acts[a].obj].lease
      BY <1>12, <1>24, <3>1 DEF IInv, Uses, Users
    <3> QED BY <1>17, <3>1, <3>2
  <2>4. \A t \in 1 .. ran' : tasks'[t].waits \subseteq copied'
    BY <1>12 DEF IInv, Uses, Users
  <2> QED BY <2>1, <2>2, <2>3, <2>4 DEF Users
<1>40. Waits'
  <2> SUFFICES ASSUME NEW b \in DOMAIN acts', NEW t \in DOMAIN tasks, b \notin copied, Fetch(b)',
                      tasks[t].obj = acts'[b].obj, Open(b)'
               PROVE  /\ t > acts'[b].task => b \in tasks[t].waits
                      /\ acts'[b].state = "IN_FLIGHT" /\ t > ran => b \in tasks[t].waits
    BY <1>12 DEF Waits
  <2>1. CASE b \in DOMAIN acts
    BY <1>14, <1>21, <2>1 DEF IInv, Uses, Waits
  <2>2. CASE b = n
    <3>1. t <= Len(tasks) /\ t \in Nat /\ Len(tasks) \in Nat
      BY <1>1, TaskTyped DEF Types
    <3>2. ~(t > Len(tasks))
      BY <3>1
    <3> QED BY <1>10, <1>14, <2>2, <3>2
  <2> QED BY <1>15, <2>1, <2>2
<1>41. Releases'
  <2> SUFFICES ASSUME NEW a \in DOMAIN acts', NEW b \in DOMAIN acts', Behind(b, a)', acts'[a].kind = "RELEASE",
                      ~acts'[a].late, Queued(b)', b \notin copied
               PROVE  Fetch(b)' /\ \E t \in DOMAIN tasks : t <= acts'[a].task /\ b \in tasks[t].waits
    BY <1>12 DEF Releases
  <2>1. b \in DOMAIN acts
    BY <1>15, <1>22
  <2>2. CASE a \in DOMAIN acts
    <3>1. Behind(b, a)
      BY <1>22, <2>1, <2>2
    <3> QED BY <1>14, <1>21, <2>1, <2>2, <3>1 DEF IInv, Uses, Releases
  <2>3. CASE a = n
    <3>1. acts[b].obj = o /\ Open(b) /\ kind = "RELEASE" /\ ~PendingCopy(o) /\ Queued(b)
      BY <1>10, <1>14, <1>21, <1>22, <2>1, <2>3
    <3>2. ~Copies(b) \/ acts[b].kind # "WRITE_BACK"
      <4>1. b \in Pending(o)
        BY <2>1, <3>1 DEF Pending
      <4>2. PICK i \in DOMAIN fifo[o] : fifo[o][i] = b
        BY <4>1 DEF IInv, Lists, Listed
      <4> QED BY <3>1, <4>2 DEF PendingCopy
    <3>3. Fetch(b)
      <4>1. ~Leaves(b)
        BY <1>7, <2>1, <3>1 DEF Leaving
      <4>2. acts[b].kind \in AllKinds
        BY <1>3, <2>1 DEF ActionRecord
      <4> QED BY <3>1, <3>2, <4>1, <4>2 DEF AllKinds, Leaves, Fetch, Copies, Queued
    <3>4. PICK t \in DOMAIN tasks : tasks[t].obj = o /\ t > acts[b].task
      BY <2>1, <3>1, <3>3 DEF InstantiateAction, Movable, Fetch
    <3>5. b \in tasks[t].waits
      BY <2>1, <3>1, <3>3, <3>4 DEF IInv, Uses, Waits
    <3>6. t <= Len(tasks)
      BY <1>1, TaskTyped
    <3> QED BY <1>10, <1>14, <1>21, <2>1, <2>3, <3>3, <3>5, <3>6
  <2> QED BY <1>15, <2>2, <2>3
<1>42. Worth'
  <2>1. \A p \in Objects : Current(p)' <=> Current(p)
    BY <1>17 DEF Current
  <2>2. \A p \in Objects, a \in DOMAIN acts : Refreshed(p, a) => Refreshed(p, a)'
    <3> SUFFICES ASSUME NEW p \in Objects, NEW a \in DOMAIN acts, Refreshed(p, a)
                 PROVE  Refreshed(p, a)'
      OBVIOUS
    <3>1. CASE \E b \in DOMAIN acts : Behind(b, a) /\ Copies(b) /\ acts[b].version = obj[p].version
      <4>1. PICK b \in DOMAIN acts : Behind(b, a) /\ Copies(b) /\ acts[b].version = obj[p].version
        BY <3>1
      <4>2. b \in DOMAIN acts' /\ Behind(b, a)' /\ Copies(b)' /\ acts'[b].version = obj'[p].version
        BY <1>14, <1>17, <1>21, <1>22, <4>1
      <4> QED BY <4>2 DEF Refreshed
    <3>2. CASE /\ Current(p)
               /\ p \notin plan.retained => \A b \in DOMAIN acts : Fetch(b) => ~Behind(b, a)
      <4>1. p \notin plan'.retained => \A b \in DOMAIN acts' : Fetch(b)' => ~Behind(b, a)'
        BY <1>12, <1>14, <1>15, <1>21, <1>22, <3>2
      <4> QED BY <2>1, <3>2, <4>1 DEF Refreshed
    <3> QED BY <3>1, <3>2 DEF Refreshed
  <2>3. Kept(o) => Refreshed(o, n)'
    <3>1. ASSUME NEW b \in DOMAIN acts, acts[b].obj = o, Open(b), Copies(b), acts[b].version = obj[o].version
          PROVE  Refreshed(o, n)'
      <4>1. b \in DOMAIN acts' /\ Behind(b, n)' /\ Copies(b)' /\ acts'[b].version = obj'[o].version
        BY <1>14, <1>17, <1>21, <1>22, <3>1
      <4> QED BY <4>1 DEF Refreshed
    <3>2. ASSUME Current(o), o \notin plan.retained => \A b \in DOMAIN acts : acts[b].obj = o /\ Open(b) => ~Fetch(b)
          PROVE  Refreshed(o, n)'
      <4>1. o \notin plan'.retained => \A b \in DOMAIN acts' : Fetch(b)' => ~Behind(b, n)'
        BY <1>12, <1>14, <1>15, <1>21, <1>22, <3>2
      <4> QED BY <2>1, <3>2, <4>1 DEF Refreshed
    <3> QED BY <3>1, <3>2 DEF Kept
  <2> SUFFICES ASSUME NEW a \in DOMAIN acts', Open(a)', NEW p \in Objects, p = acts'[a].obj
               PROVE
          /\ obj'[p].spillCurrent /\ obj'[p].spillVersion = obj'[p].version =>
                   acts'[a].version = obj'[p].version
          /\ /\ acts'[a].version = obj'[p].version /\ (acts'[a].spill \/ Waiting(a)') /\ ~Copies(a)'
                 => Refreshed(p, a)' \/ (Fetch(a)' /\ ~Waiting(a)' /\ p \notin plan'.retained)
          /\ Copies(a)' /\ a \in copied' /\ acts'[a].version = obj'[p].version /\ boundary'.update # p =>
                   spilled'[p] = obj'[p].version
    <3>1. \A a \in DOMAIN acts' : acts'[a].obj \in Objects
      BY <1>3, <1>10, <1>14, <1>15
    <3> QED BY <3>1 DEF Worth
  <2>4. CASE a \in DOMAIN acts
    <3>1. acts'[a] = acts[a] /\ p = acts[a].obj /\ Open(a)
      BY <1>14, <1>21, <2>4
    <3>2. /\ obj[p].spillCurrent /\ obj[p].spillVersion = obj[p].version =>
                   acts[a].version = obj[p].version
          /\ /\ acts[a].version = obj[p].version /\ (acts[a].spill \/ Waiting(a)) /\ ~Copies(a)
                 => Refreshed(p, a) \/ (Fetch(a) /\ ~Waiting(a) /\ p \notin plan.retained)
          /\ Copies(a) /\ a \in copied /\ acts[a].version = obj[p].version /\ boundary.update # p =>
                   spilled[p] = obj[p].version
      BY <2>4, <3>1 DEF IInv, Values, Worth
    <3>3. boundary.update # p
      BY <1>5, ObjectsAssumption
    <3> QED BY <1>12, <1>17, <1>21, <2>2, <2>4, <3>1, <3>2, <3>3
  <2>5. CASE a = n
    <3>1. p = o /\ acts'[a].version = obj'[p].version
      BY <1>10, <1>14, <1>17, <2>5
    <3>2. n \notin copied
      BY <1>1, <1>14 DEF Types
    <3>3. (acts'[n].spill \/ Waiting(n)') /\ ~Copies(n)' => Kept(o)
      BY <1>9, <1>10, <1>14, <1>21 DEF AllKinds
    <3> QED BY <1>12, <2>3, <2>5, <3>1, <3>2, <3>3
  <2> QED BY <1>15, <2>4, <2>5
<1>43. /\ \A p \in Objects : obj[p].lease # 0 => Held(p)' = Held(p)
       /\ \A p \in Objects : Upcoming(p)' = obj[p].version /\ Upcoming(p) = obj[p].version
                              /\ Points(p)' = Points(p)
  <2>1. \A p \in Objects : Upcoming(p)' = obj[p].version /\ Upcoming(p) = obj[p].version
    BY <1>5, <1>17, <1>18, ObjectsAssumption DEF Upcoming
  <2>2. \A p \in Objects : Points(p)' = Points(p)
    BY <1>12, <1>38 DEF Points
  <2>3. ASSUME NEW p \in Objects, obj[p].lease # 0 PROVE Held(p)' = Held(p)
    <3>1. obj[p].lease \in DOMAIN leases[p]
      BY <1>1, <2>3, ObjectTyped DEF IInv, Places, Located
    <3>2. leases'[p][obj[p].lease].data = leases[p][obj[p].lease].data
      BY <1>19, <3>1
    <3> QED BY <1>12, <1>17, <3>2 DEF Held, Loading
  <2> QED BY <2>1, <2>2, <2>3
<1>44. \A p \in Objects : obj[p].lease # 0 => \A r : After(p, r)' = After(p, r)
  BY <1>12, <1>43 DEF After
<1>45. \A p \in Objects : \A s : Expected(p, s)' = Expected(p, s)
  BY <1>12, <1>43 DEF Expected
<1>46. Chained' /\ Bounded'
  BY <1>12, <1>17, <1>38, <1>43, <1>44, <1>45 DEF IInv, Values, Chained, Bounded
<1>47. Reached'
  <2> SUFFICES ASSUME NEW a \in DOMAIN acts', Open(a)', Copies(a)', NEW p \in Objects, p = acts'[a].obj,
                      obj[p].lease # 0, NEW r \in Points(p),
                      \A u \in Unrun(p) : ~(r < u /\ u <= acts'[a].task)
               PROVE  acts'[a].version <= After(p, r)
    <3>1. \A a \in DOMAIN acts' : acts'[a].obj \in Objects
      BY <1>3, <1>10, <1>14, <1>15
    <3> QED BY <1>17, <1>38, <1>43, <1>44, <3>1 DEF Reached
  <2>1. CASE a \in DOMAIN acts
    <3>1. acts'[a] = acts[a] /\ Open(a) /\ Copies(a) /\ p = acts[a].obj
      BY <1>14, <1>21, <2>1
    <3> QED BY <2>1, <3>1 DEF IInv, Values, Reached
  <2>2. CASE a = n
    <3>1. p = o /\ acts'[a].version = obj[o].version /\ acts'[a].task = Len(tasks)
      BY <1>10, <1>14, <2>2
    <3>2. Len(tasks) \in Nat /\ r \in Nat /\ r <= Len(tasks) /\ \A u \in Unrun(o) : u \in Nat /\ u <= Len(tasks)
      BY <1>1, <3>1, SMTT(20) DEF Types, Points, Unrun
    <3>3. r < Len(tasks) + 1 /\ \A u \in Unrun(o) : ~(r < u /\ u < Len(tasks) + 1)
      BY <3>1, <3>2
    <3>4. Expected(o, Len(tasks) + 1) = After(o, r)
      BY <3>1, <3>3 DEF IInv, Values, Chained
    <3>5. Expected(o, Len(tasks) + 1) = obj[o].version
      <4>1. Len(tasks) + 1 \notin DOMAIN tasks
        BY <1>1 DEF Types
      <4> QED BY <1>43, <4>1 DEF Expected
    <3>6. obj[o].version \in Nat
      BY <1>2 DEF ObjectRecord
    <3> QED BY <3>1, <3>4, <3>5, <3>6
  <2> QED BY <1>15, <2>1, <2>2
<1>48. SpillCopyTrue' /\ TasksReadCurrent' /\ PlanNeverFails'
  <2>1. SpillCopyTrue'
    BY <1>5, <1>12, <1>17, <1>18 DEF IInv, Values, SpillCopyTrue
  <2>2. TasksReadCurrent' /\ PlanNeverFails'
    BY <1>12, <1>13 DEF IInv, Values, TasksReadCurrent, PlanNeverFails
  <2> QED BY <2>1, <2>2
<1>49. Reused'
  <2>1. \A e : Complete(e)' <=> Complete(e)
    BY <1>12 DEF Complete
  <2> SUFFICES ASSUME NEW a \in DOMAIN acts', acts'[a].pred # NoRange
               PROVE  (LET range == acts[a].pred IN
                       /\ Fetch(a) /\ range[1] \in Objects
                       /\ range[2] \in DOMAIN leases[range[1]] /\ Lease(range).state # "IN_USE"
                       /\ acts[a].lease # 0 =>
                            Lease(range).state = "FREE" \/ (acts[a].waits = Lease(range).event /\ acts[a].waits # NoEvent)
                       /\ a \in copied => Lease(range).state = "FREE" \/ Complete(Lease(range).event))'
    BY DEF Reused
  <2>2. CASE a \in DOMAIN acts
    <3> DEFINE range == acts[a].pred
    <3>1. acts'[a] = acts[a]
      BY <1>14, <2>2
    <3>2. /\ Fetch(a) /\ range[1] \in Objects
          /\ range[2] \in DOMAIN leases[range[1]] /\ Lease(range).state # "IN_USE"
          /\ acts[a].lease # 0 =>
               Lease(range).state = "FREE" \/ (acts[a].waits = Lease(range).event /\ acts[a].waits # NoEvent)
          /\ a \in copied => Lease(range).state = "FREE" \/ Complete(Lease(range).event)
      BY <2>2, <3>1 DEF IInv, Reused
    <3>3. ~(range[1] = o /\ range[2] = obj[o].lease /\ kind # "FETCH")
      BY <1>7, <3>2 DEF Lease
    <3>4. leases'[range[1]][range[2]] = leases[range[1]][range[2]] /\ DOMAIN leases'[range[1]] = DOMAIN leases[range[1]]
      BY <1>19, <3>2, <3>3
    <3> HIDE DEF range
    <3>5. acts'[a].pred = range
      BY <3>1 DEF range
    <3> QED BY <1>12, <1>21, <2>1, <2>2, <3>1, <3>2, <3>4, <3>5 DEF Lease
  <2>3. CASE a = n
    <3>1. acts'[n].pred = pred /\ acts'[n].lease = 0 /\ kind = "FETCH" /\ Fetch(n)'
      BY <1>10, <1>14, <1>21, <2>3
    <3>2. pred \in Promisable
      BY <2>3, <3>1
    <3>3. PICK q \in Objects : pred \in {q} \X DOMAIN leases[q]
      BY <3>2 DEF Promisable
    <3>4. pred[1] \in Objects /\ pred[2] \in DOMAIN leases[pred[1]] /\ Lease(pred).state # "IN_USE"
      BY <3>2, <3>3 DEF Promisable
    <3>5. leases' = leases
      BY <1>13, <3>1
    <3>6. n \notin copied'
      BY <1>1, <1>12, <1>14 DEF Types
    <3> QED BY <2>3, <3>1, <3>4, <3>5, <3>6 DEF Lease
  <2> QED BY <1>15, <2>2, <2>3
<1>50. Committed'
  <2>1. {} \in SUBSET Objects /\ worker' = worker
    BY <1>12
  <2>2. \A a \in DOMAIN acts :
          /\ acts'[a].kind = acts[a].kind /\ acts'[a].skips = acts[a].skips
          /\ acts'[a].obj = acts[a].obj /\ acts'[a].version = acts[a].version
    BY <1>14
  <2>3. \A p \in Objects \ {} :
          /\ obj'[p].version = obj[p].version /\ obj'[p].spillCurrent = obj[p].spillCurrent
          /\ obj'[p].spillVersion = obj[p].spillVersion
    BY <1>17
  <2> QED BY <2>1, <2>2, <2>3, CommittedStill
<1> QED BY <1>50, <1>20, <1>25, <1>26, <1>27, <1>28, <1>29, <1>30, <1>31, <1>32, <1>33, <1>34, <1>35, <1>36, <1>37,
           <1>39, <1>40, <1>41, <1>42, <1>46, <1>47, <1>48, <1>49
        DEF IInv, Lists, Flights, Places, Uses, Values

-----------------------------------------------------------------------------
(* An object leaves the device.                                            *)

\* The departure at the head of an object's list: its tasks have run, and the
\* only actions behind it are fetches that wait.
LEMMA Departure ==
  ASSUME IInv, NEW a, First(a), Leaves(a), Triggered(a), NEW o \in Objects, o = acts[a].obj
  PROVE  /\ Unrun(o) = {}
         /\ \A b \in DOMAIN acts : acts[b].obj = o /\ Open(b) /\ b # a => Waiting(b) /\ Behind(a, b)
         /\ acts[a].version = obj[o].version /\ boundary.update # o
<1>1. Types /\ a \in DOMAIN acts /\ Open(a)
  BY DEF IInv, First
<1>2. acts[a].task \in Nat /\ ran \in Nat /\ a \in Nat
  <2>1. acts[a] \in ActionRecord /\ a \in Nat
    BY <1>1, ActionTyped
  <2>2. ran \in Nat
    BY <1>1 DEF Types
  <2> QED BY <2>1, <2>2 DEF ActionRecord
<1>3. \A t \in DOMAIN tasks : tasks[t].obj = o => t <= acts[a].task
  BY <1>1 DEF IInv, Lists, Versions
<1>4. Unrun(o) = {}
  <2>1. DOMAIN tasks = 1 .. Len(tasks) /\ Len(tasks) \in Nat
    BY <1>1 DEF Types
  <2>2. acts[a].task <= ran
    BY DEF Triggered
  <2> QED BY <1>2, <1>3, <2>1, <2>2 DEF Unrun
<1>5. ASSUME NEW b \in DOMAIN acts, acts[b].obj = o, Open(b), b # a
      PROVE  Waiting(b) /\ Behind(a, b)
  <2>1. b \in Nat
    BY <1>1, ActionTyped
  <2>2. Behind(a, b)
    BY <1>1, <1>2, <1>5, <2>1 DEF First, Behind
  <2> QED BY <1>1, <1>5, <2>2 DEF IInv, Lists, Order
<1>6. acts[a].version = obj[o].version
  BY <1>1 DEF IInv, Lists, Versions
<1>7. boundary.update # o
  BY <1>1 DEF IInv, Places, Updating, Leaving
<1> QED BY <1>4, <1>5, <1>6, <1>7

\* What the release and the commit of an eviction have in common.
LEMMA Departs ==
  ASSUME IInv, NEW a, First(a), Leaves(a), Triggered(a), NEW o \in Objects, o = acts[a].obj,
         worker.at = "idle",
         IF Queued(a) THEN acts[a].state = "IN_FLIGHT" /\ a \in copied ELSE acts[a].state = "QUEUED",
         leases' = Freed(o),
         obj' = [obj EXCEPT ![o] = obj'[o]], obj'[o] \in ObjectRecord, obj'[o].lease = 0,
         obj'[o].residency \in {"SPILL_ONLY", "RELEASED"},
         obj'[o].residency = "RELEASED" => ~obj'[o].spillCurrent,
         obj'[o].spillCurrent => obj'[o].spill,
         obj'[o].version = obj[o].version, obj'[o].spill = obj[o].spill,
         obj'[o].unpublished = obj[o].unpublished,
         worker' = [at |-> "done", action |-> a, version |-> 0],
         UNCHANGED << acts, fifo, sequences, boundary, published, failed, device >>
  PROVE  /\ Types' /\ Lists' /\ Flights' /\ Places' /\ Uses' /\ Reused' /\ PlanNeverFails'
         /\ Chained' /\ Bounded' /\ Reached' /\ TasksReadCurrent'
<1> USE DEF device
<1>1. Types /\ a \in DOMAIN acts /\ Open(a) /\ a \in Nat
  BY ActionTyped DEF IInv, First
<1>2. obj[o] \in ObjectRecord /\ leases[o] \in Seq(LeaseRecord)
  BY <1>1, ObjectTyped
<1>3. \A b \in DOMAIN acts : acts[b] \in ActionRecord /\ acts[b].obj \in Objects /\ b \in Nat
  BY <1>1, ActionTyped
<1>4. /\ Unrun(o) = {} /\ boundary.update # o
      /\ \A b \in DOMAIN acts : acts[b].obj = o /\ Open(b) /\ b # a => Waiting(b)
  BY Departure
<1>5. /\ \A p \in Objects : p # o => obj'[p] = obj[p]
      /\ obj' \in [Objects -> ObjectRecord]
  BY <1>1 DEF Types
<1>6. obj[o].lease # 0 /\ obj[o].lease \in DOMAIN leases[o]
  <2>1. ~Waiting(a) /\ ~Done(a)
    BY DEF Waiting, Fetch, Leaves, Done
  <2>2. obj[o].lease # 0 /\ obj[o].lease \in 0 .. Len(leases[o])
    BY <1>1, <2>1 DEF IInv, Places, Located
  <2> QED BY <1>2, <2>2
<1>7. /\ leases' \in [Objects -> Seq(LeaseRecord)]
      /\ \A p \in Objects : p # o => leases'[p] = leases[p]
      /\ Len(leases'[o]) = Len(leases[o]) /\ DOMAIN leases'[o] = DOMAIN leases[o]
      /\ leases'[o][obj[o].lease].state = "FREE"
      /\ \A h \in DOMAIN leases[o] : h # obj[o].lease => leases'[o][h] = leases[o][h]
  <2> DEFINE item == [leases[o][obj[o].lease] EXCEPT !.state = "FREE"]
  <2>1. leases[o][obj[o].lease] \in LeaseRecord
    BY <1>2, <1>6, SMTT(20)
  <2>2. item \in LeaseRecord /\ item.state = "FREE"
    BY <2>1 DEF LeaseRecord
  <2>3. leases' = [leases EXCEPT ![o] = [leases[o] EXCEPT ![obj[o].lease] = item]]
    BY <1>1 DEF Freed, Types
  <2> HIDE DEF item
  <2>4. [leases[o] EXCEPT ![obj[o].lease] = item] \in Seq(LeaseRecord)
    BY <1>2, <1>6, <2>2
  <2>5. /\ leases'[o] = [leases[o] EXCEPT ![obj[o].lease] = item]
        /\ \A p \in Objects : p # o => leases'[p] = leases[p]
        /\ leases' \in [Objects -> Seq(LeaseRecord)]
    <3> DEFINE list == [leases[o] EXCEPT ![obj[o].lease] = item]
    <3>1. leases \in [Objects -> Seq(LeaseRecord)] /\ leases' = [leases EXCEPT ![o] = list]
          /\ list \in Seq(LeaseRecord)
      BY <1>1, <2>3, <2>4 DEF Types
    <3> HIDE DEF list
    <3>2. leases'[o] = list /\ (\A p \in Objects : p # o => leases'[p] = leases[p])
          /\ leases' \in [Objects -> Seq(LeaseRecord)]
      BY <3>1
    <3> QED BY <3>2 DEF list
  <2>6. /\ leases'[o][obj[o].lease] = item
        /\ \A h \in DOMAIN leases[o] : h # obj[o].lease => leases'[o][h] = leases[o][h]
        /\ Len(leases'[o]) = Len(leases[o]) /\ DOMAIN leases'[o] = DOMAIN leases[o]
    BY <1>2, <1>6, <2>2, <2>5
  <2> QED BY <2>2, <2>5, <2>6
<1>8. /\ \A p \in Objects : Len(leases'[p]) = Len(leases[p]) /\ DOMAIN leases'[p] = DOMAIN leases[p]
      /\ \A p \in Objects : obj'[p].version = obj[p].version /\ obj'[p].spill = obj[p].spill
                            /\ obj'[p].unpublished = obj[p].unpublished
  BY <1>5, <1>7
<1>9. worker'.at = "done" /\ worker'.action = a
  OBVIOUS
<1>10. Types'
  <2>1. worker' \in [at : {"idle", "lane", "done"}, action : Nat, version : Nat]
    BY <1>1
  <2> QED BY <1>1, <1>5, <1>7, <2>1 DEF Types
<1>11. /\ \A b, c : Behind(b, c)' <=> Behind(b, c)
       /\ \A b : /\ (Open(b)' <=> Open(b)) /\ (Queued(b)' <=> Queued(b)) /\ (Copies(b)' <=> Copies(b))
                 /\ (Fetch(b)' <=> Fetch(b)) /\ (Leaves(b)' <=> Leaves(b)) /\ (Waiting(b)' <=> Waiting(b))
                 /\ (Triggered(b)' <=> Triggered(b)) /\ (First(b)' <=> First(b))
                 /\ ~InHand(b) /\ ~InHand(b)' /\ ~Done(b) /\ (Done(b)' <=> b = a)
       /\ \A p : (Leaving(p)' <=> Leaving(p)) /\ Pending(p)' = Pending(p) /\ Unrun(p)' = Unrun(p)
                 /\ Points(p)' = Points(p)
  BY <1>9 DEF Behind, Open, Queued, Copies, Fetch, Leaves, Waiting, Triggered, First, InHand, Done, Leaving,
     Pending, Unrun, Points
<1>12. Lists'
  <2>1. Listed' /\ Order'
    BY <1>11 DEF IInv, Lists, Listed, Order
  <2>2. Static'
    BY <1>3, <1>8, <1>11 DEF IInv, Lists, Static
  <2>3. Awaited' /\ Versions'
    BY <1>3, <1>8, <1>11 DEF IInv, Lists, Awaited, Versions
  <2>4. Unpublished'
    BY <1>8, <1>11 DEF IInv, Lists, Unpublished
  <2> QED BY <2>1, <2>2, <2>3, <2>4 DEF Lists
<1>13. \A b \in DOMAIN acts : First(b) /\ acts[b].obj = o => b = a
  BY <1>1, OneFirst
<1>14. Stages'
  <2> SUFFICES ASSUME NEW b \in DOMAIN acts
               PROVE  (/\ ~Open(b) /\ Queued(b) => b \in copied
                       /\ b \in copied => Queued(b) /\ acts[b].state # "QUEUED" /\ (~Fetch(b) => Triggered(b))
                       /\ acts[b].state = "IN_FLIGHT" =>
                            /\ Queued(b) /\ First(b) /\ acts[b].lease # 0
                            /\ ~Done(b) => acts[b].lease = obj[acts[b].obj].lease
                            /\ Copies(b) => obj[acts[b].obj].spill
                       /\ acts[b].state = "QUEUED" =>
                            /\ Fetch(b) /\ ~InHand(b) => acts[b].lease = 0 /\ acts[b].destination
                            /\ Copies(b) /\ acts[b].lease # 0 => acts[b].lease = obj[acts[b].obj].lease
                            /\ Copies(b) /\ ~acts[b].destination =>
                                 /\ obj[acts[b].obj].spill
                                 /\ acts[b].obj \in plan.retained \/ First(b))'
    BY DEF Stages
  <2>1. /\ ~Open(b) /\ Queued(b) => b \in copied
        /\ b \in copied => Queued(b) /\ acts[b].state # "QUEUED" /\ (~Fetch(b) => Triggered(b))
        /\ acts[b].state = "IN_FLIGHT" =>
             /\ Queued(b) /\ First(b) /\ acts[b].lease # 0
             /\ acts[b].lease = obj[acts[b].obj].lease
             /\ Copies(b) => obj[acts[b].obj].spill
        /\ acts[b].state = "QUEUED" =>
             /\ Fetch(b) => acts[b].lease = 0 /\ acts[b].destination
             /\ Copies(b) /\ acts[b].lease # 0 => acts[b].lease = obj[acts[b].obj].lease
             /\ Copies(b) /\ ~acts[b].destination =>
                  /\ obj[acts[b].obj].spill
                  /\ acts[b].obj \in plan.retained \/ First(b)
    BY <1>11 DEF IInv, Flights, Stages
  <2>2. ASSUME acts[b].state = "IN_FLIGHT", b # a PROVE acts[b].obj # o
    BY <1>13, <2>1, <2>2
  <2>3. ASSUME acts[b].state = "QUEUED", Copies(b) PROVE acts[b].obj # o
    <3>1. b # a
      BY <2>3 DEF Copies, Queued
    <3>2. Open(b) /\ ~Fetch(b)
      BY <2>3 DEF Open, Copies, Fetch
    <3> QED BY <1>4, <3>1, <3>2 DEF Waiting
  <2>4. acts[b].obj # o => obj'[acts[b].obj] = obj[acts[b].obj]
    BY <1>3, <1>5
  <2> QED BY <1>3, <1>8, <1>11, <2>1, <2>2, <2>3, <2>4
<1>15. OnLanes' /\ AtLane' /\ AtDone'
  <2>1. OnLanes'
    BY DEF IInv, Flights, OnLanes
  <2> QED BY <1>9, <1>11, <2>1 DEF AtLane, AtDone
<1>16. Located'
  <2>1. ASSUME NEW p \in Objects, p # o
        PROVE  (/\ obj[p].lease \in 0 .. Len(leases[p])
                /\ obj[p].lease = 0 <=> obj[p].residency \in {"SPILL_ONLY", "RELEASED"}
                /\ obj[p].lease # 0 => obj[p].execVersion = obj[p].version
                /\ obj[p].residency = "RELEASED" => ~obj[p].spillCurrent
                /\ obj[p].spillCurrent => obj[p].spill
                /\ obj[p].residency = "FETCHING" =>
                     LET f == obj[p].readiness IN
                     /\ f \in DOMAIN acts /\ acts[f].obj = p /\ Fetch(f)
                     /\ acts[f].state = "IN_FLIGHT" /\ ~Done(f)
                /\ obj[p].residency = "EVICTING" => Leaving(p)
                /\ \A b \in DOMAIN acts : acts[b].obj = p /\ First(b) =>
                     /\ obj[p].lease = 0 <=> Waiting(b) \/ (Leaves(b) /\ Done(b))
                     /\ Fetch(b) /\ acts[b].state = "IN_FLIGHT" /\ ~Done(b) =>
                          obj[p].residency = "FETCHING" /\ obj[p].readiness = b)'
    <3>1. /\ obj[p].lease \in 0 .. Len(leases[p])
          /\ obj[p].lease = 0 <=> obj[p].residency \in {"SPILL_ONLY", "RELEASED"}
          /\ obj[p].lease # 0 => obj[p].execVersion = obj[p].version
          /\ obj[p].residency = "RELEASED" => ~obj[p].spillCurrent
          /\ obj[p].spillCurrent => obj[p].spill
          /\ obj[p].residency = "EVICTING" => Leaving(p)
      BY DEF IInv, Places, Located
    <3>2. obj[p].residency = "FETCHING" =>
            LET f == obj[p].readiness IN
            /\ f \in DOMAIN acts /\ acts[f].obj = p /\ Fetch(f)
            /\ acts[f].state = "IN_FLIGHT"
      BY DEF IInv, Places, Located
    <3>3. \A b \in DOMAIN acts : acts[b].obj = p /\ First(b) =>
            /\ obj[p].lease = 0 <=> Waiting(b)
            /\ Fetch(b) /\ acts[b].state = "IN_FLIGHT" =>
                 obj[p].residency = "FETCHING" /\ obj[p].readiness = b
      BY <1>11 DEF IInv, Places, Located
    <3>4. obj'[p] = obj[p] /\ leases'[p] = leases[p] /\ \A b \in DOMAIN acts : acts[b].obj = p => b # a
      BY <1>5, <1>7, <2>1
    <3> QED BY <1>11, <3>1, <3>2, <3>3, <3>4
  <2>2. (/\ obj[o].lease \in 0 .. Len(leases[o])
         /\ obj[o].lease = 0 <=> obj[o].residency \in {"SPILL_ONLY", "RELEASED"}
         /\ obj[o].lease # 0 => obj[o].execVersion = obj[o].version
         /\ obj[o].residency = "RELEASED" => ~obj[o].spillCurrent
         /\ obj[o].spillCurrent => obj[o].spill
         /\ obj[o].residency = "FETCHING" =>
              LET f == obj[o].readiness IN
              /\ f \in DOMAIN acts /\ acts[f].obj = o /\ Fetch(f)
              /\ acts[f].state = "IN_FLIGHT" /\ ~Done(f)
         /\ obj[o].residency = "EVICTING" => Leaving(o)
         /\ \A b \in DOMAIN acts : acts[b].obj = o /\ First(b) =>
              /\ obj[o].lease = 0 <=> Waiting(b) \/ (Leaves(b) /\ Done(b))
              /\ Fetch(b) /\ acts[b].state = "IN_FLIGHT" /\ ~Done(b) =>
                   obj[o].residency = "FETCHING" /\ obj[o].readiness = b)'
    <3>1. 0 \in 0 .. Len(leases'[o])
      BY <1>2, <1>7, SMTT(20)
    <3> QED BY <1>11, <1>13, <3>1
  <2> QED BY <2>1, <2>2 DEF Located
<1>17. LeaseStates'
  <2> SUFFICES ASSUME NEW p \in Objects
               PROVE  (/\ \A g \in DOMAIN leases[p] :
                            /\ leases[p][g].state = "IN_USE" => leases[p][g].event = NoEvent
                            /\ g # obj[p].lease =>
                                 \/ leases[p][g].state = "FREE"
                                 \/ /\ InHand(worker.action) /\ acts[worker.action].obj = p
                                    /\ acts[worker.action].lease = g
                       /\ obj[p].lease # 0 /\ ~(\E b \in DOMAIN acts : acts[b].obj = p /\ Open(b) /\ Leaves(b) /\ ~acts[b].late) =>
                            leases[p][obj[p].lease].state = "IN_USE"
                       /\ obj[p].lease # 0 => \A b \in DOMAIN acts :
                            acts[b].obj = p /\ Open(b) /\ Leaves(b) /\ ~acts[b].late =>
                              /\ leases[p][obj[p].lease].state = "RETIRE_PENDING"
                              /\ leases[p][obj[p].lease].event =
                                   IF acts[b].kind = "RELEASE" THEN << "task", acts[b].task >>
                                   ELSE IF acts[b].state = "QUEUED" THEN NoEvent ELSE << "copy", b >>)'
    BY ZenonT(20) DEF LeaseStates
  <2>1. /\ \A g \in DOMAIN leases[p] :
             /\ leases[p][g].state = "IN_USE" => leases[p][g].event = NoEvent
             /\ g # obj[p].lease => leases[p][g].state = "FREE"
        /\ obj[p].lease # 0 /\ ~(\E b \in DOMAIN acts : acts[b].obj = p /\ Open(b) /\ Leaves(b) /\ ~acts[b].late) =>
             leases[p][obj[p].lease].state = "IN_USE"
        /\ obj[p].lease # 0 => \A b \in DOMAIN acts :
             acts[b].obj = p /\ Open(b) /\ Leaves(b) /\ ~acts[b].late =>
               /\ leases[p][obj[p].lease].state = "RETIRE_PENDING"
               /\ leases[p][obj[p].lease].event =
                    IF acts[b].kind = "RELEASE" THEN << "task", acts[b].task >>
                    ELSE IF acts[b].state = "QUEUED" THEN NoEvent ELSE << "copy", b >>
    BY <1>11, SMTT(20) DEF IInv, Places, LeaseStates
  <2>2. CASE p # o
    <3>1. obj'[p] = obj[p] /\ leases'[p] = leases[p]
      BY <1>5, <1>7, <2>2, SMTT(20)
    <3> QED BY <1>11, <2>1, <3>1
  <2>3. CASE p = o
    <3>1. \A g \in DOMAIN leases'[o] :
             /\ leases'[o][g].state = "IN_USE" => leases'[o][g].event = NoEvent
             /\ leases'[o][g].state = "FREE"
      <4> SUFFICES ASSUME NEW g \in DOMAIN leases[o] PROVE leases'[o][g].state = "FREE"
        BY <1>7, ZenonT(20)
      <4>1. CASE g = obj[o].lease
        BY <1>7, <4>1
      <4>2. CASE g # obj[o].lease
        <5>1. leases[o][g].state = "FREE"
          BY <2>1, <2>3, <4>2, ZenonT(20)
        <5> QED BY <1>7, <4>2, <5>1, ZenonT(20)
      <4> QED BY <4>1, <4>2
    <3> QED BY <2>3, <3>1, ZenonT(20)
  <2> QED BY <2>2, <2>3, ZenonT(20)
<1>18. Updating'
  BY <1>4, <1>5, <1>11 DEF IInv, Places, Updating
<1>19. Users'
  <2>1. \A t \in DOMAIN tasks' : tasks'[t].lease \in 1 .. Len(leases'[tasks'[t].obj])
    <3>1. \A t \in DOMAIN tasks : tasks[t].obj \in Objects
      BY <1>1, TaskTyped
    <3> QED BY <1>8, <3>1 DEF IInv, Uses, Users
  <2>2. \A p \in Objects : \A t \in Unrun(p)' : tasks'[t].lease = obj'[p].lease
    <3> SUFFICES ASSUME NEW p \in Objects, NEW t \in Unrun(p) PROVE tasks[t].lease = obj'[p].lease
      BY <1>11
    <3>1. p # o
      BY <1>4
    <3>2. tasks[t].lease = obj[p].lease
      BY DEF IInv, Uses, Users
    <3> QED BY <1>5, <3>1, <3>2
  <2>3. \A b \in DOMAIN acts' : b \notin copied' /\ acts'[b].lease # 0 /\ ~InHand(b)' =>
          acts'[b].lease = obj'[acts'[b].obj].lease
    <3> SUFFICES ASSUME NEW b \in DOMAIN acts, b \notin copied, acts[b].lease # 0
                 PROVE  acts[b].lease = obj'[acts[b].obj].lease
      OBVIOUS
    <3>1. acts[b].lease = obj[acts[b].obj].lease
      BY <1>11 DEF IInv, Uses, Users
    <3>2. acts[b].obj # o
      <4> SUFFICES ASSUME acts[b].obj = o PROVE FALSE
        OBVIOUS
      <4>1. Queued(b)
        BY DEF IInv, Lists, Static
      <4>2. Open(b)
        BY <4>1 DEF IInv, Flights, Stages
      <4>3. b # a
        BY <4>1
      <4>4. Waiting(b)
        BY <1>4, <4>2, <4>3
      <4> QED BY <1>11, <4>4 DEF IInv, Flights, Stages, Waiting
    <3> QED BY <1>3, <1>5, <3>1, <3>2
  <2>4. \A t \in 1 .. ran' : tasks'[t].waits \subseteq copied'
    BY DEF IInv, Uses, Users
  <2> QED BY <2>1, <2>2, <2>3, <2>4 DEF Users
<1>20. Waits' /\ Releases'
  BY <1>11 DEF IInv, Uses, Waits, Releases
<1>21. \A p \in Objects : p # o => /\ Held(p)' = Held(p) /\ Upcoming(p)' = Upcoming(p)
                                   /\ \A r : After(p, r)' = After(p, r) /\ Expected(p, r)' = Expected(p, r)
  <2>1. \A p \in Objects : p # o => Held(p)' = Held(p) /\ Upcoming(p)' = Upcoming(p)
    BY <1>5, <1>7 DEF Held, Loading, Upcoming
  <2> QED BY <2>1 DEF After, Expected
<1>22. Chained' /\ Bounded'
  BY <1>5, <1>11, <1>21 DEF IInv, Values, Chained, Bounded
<1>23. Reached'
  BY <1>3, <1>5, <1>11, <1>21, SMTT(20) DEF IInv, Values, Reached
<1>24. TasksReadCurrent' /\ PlanNeverFails'
  BY DEF IInv, Values, TasksReadCurrent, PlanNeverFails
<1>25. Reused'
  <2>1. \A e : Complete(e)' <=> Complete(e)
    BY DEF Complete
  <2> SUFFICES ASSUME NEW b \in DOMAIN acts, acts[b].pred # NoRange, NEW range, range = acts[b].pred
               PROVE  (/\ Fetch(b) /\ range[1] \in Objects
                       /\ range[2] \in DOMAIN leases[range[1]] /\ Lease(range).state # "IN_USE"
                       /\ acts[b].lease # 0 =>
                            Lease(range).state = "FREE" \/ (acts[b].waits = Lease(range).event /\ acts[b].waits # NoEvent)
                       /\ b \in copied => Lease(range).state = "FREE" \/ Complete(Lease(range).event))'
    BY DEF Reused
  <2>2. /\ Fetch(b) /\ range[1] \in Objects
        /\ range[2] \in DOMAIN leases[range[1]] /\ Lease(range).state # "IN_USE"
        /\ acts[b].lease # 0 =>
             Lease(range).state = "FREE" \/ (acts[b].waits = Lease(range).event /\ acts[b].waits # NoEvent)
        /\ b \in copied => Lease(range).state = "FREE" \/ Complete(Lease(range).event)
    BY DEF IInv, Reused
  <2>3. DOMAIN leases'[range[1]] = DOMAIN leases[range[1]]
    BY <1>8, <2>2, SMTT(20)
  <2>4. leases'[range[1]][range[2]] = leases[range[1]][range[2]] \/ leases'[range[1]][range[2]].state = "FREE"
    <3>1. CASE range[1] # o
      BY <1>7, <2>2, <3>1, SMTT(20)
    <3>2. CASE range[1] = o /\ range[2] = obj[o].lease
      BY <1>7, <3>2
    <3>3. CASE range[1] = o /\ range[2] # obj[o].lease
      <4>1. range[2] \in DOMAIN leases[o]
        BY <2>2, <3>3
      <4>2. leases'[o][range[2]] = leases[o][range[2]]
        BY <1>7, <3>3, <4>1
      <4> QED BY <3>3, <4>2
    <3> QED BY <3>1, <3>2, <3>3
  <2> QED BY <1>11, <2>1, <2>2, <2>3, <2>4 DEF Lease
<1> QED BY <1>10, <1>12, <1>14, <1>15, <1>16, <1>17, <1>18, <1>19, <1>20, <1>22, <1>23, <1>24, <1>25
        DEF Flights, Places, Uses

\* A release gives the range up, or leaves it to the copy still in flight.
LEMMA HandleReleaseInv ==
  ASSUME IInv, NEW a, HandleRelease(a)
  PROVE  IInv'
<1> DEFINE o == acts[a].obj
<1>1. Types /\ Handles(a) /\ acts[a].kind = "RELEASE" /\ acts[a].state = "QUEUED" /\ Triggered(a)
  BY DEF HandleRelease, IInv
<1>2. a \in DOMAIN acts /\ First(a) /\ Leaves(a) /\ Open(a) /\ worker.at = "idle"
  BY <1>1, HandledFirst DEF IInv, Lists, Leaves, Open, Handles
<1>3. PICK w \in Objects : w = acts[a].obj
  BY <1>1, <1>2, ActionTyped
<1>4. obj[w] \in ObjectRecord /\ leases[w] \in Seq(LeaseRecord)
  BY <1>1, ObjectTyped
<1>5. \A b \in DOMAIN acts : acts[b].obj = w /\ Open(b) /\ b # a => Waiting(b)
  BY <1>1, <1>2, <1>3, Departure
<1>6. obj[w].lease # 0 /\ obj[w].lease \in DOMAIN leases[w]
  <2>1. ~Waiting(a) /\ ~Done(a)
    BY <1>1, <1>2 DEF Waiting, Fetch, Done
  <2>2. obj[w].lease # 0 /\ obj[w].lease \in 0 .. Len(leases[w])
    BY <1>2, <1>3, <2>1 DEF IInv, Places, Located
  <2> QED BY <1>4, <2>2
<1>7. Releasable(w)
  <2>1. leases[w][obj[w].lease] \in LeaseRecord
    BY <1>4, <1>6
  <2> QED BY <2>1 DEF Releasable, Lease, LeaseRecord
<1>8. acts[a].late => Retirable(<< w, obj[w].lease >>)
  <2> SUFFICES ASSUME acts[a].late PROVE leases[w][obj[w].lease].state = "IN_USE"
    BY <1>6 DEF Retirable, Lease
  <2>1. ~(\E b \in DOMAIN acts : acts[b].obj = w /\ Open(b) /\ Leaves(b) /\ ~acts[b].late)
    BY <1>5 DEF Waiting, Leaves, Fetch
  <2> QED BY <1>6, <2>1 DEF IInv, Places, LeaseStates
<1>9. /\ leases' = Freed(w)
      /\ obj' = [obj EXCEPT ![w] = [Departed(@) EXCEPT !.residency =
                   IF obj[w].spillCurrent THEN "SPILL_ONLY" ELSE "RELEASED"]]
      /\ worker' = [Idle EXCEPT !.at = "done", !.action = a]
      /\ UNCHANGED << acts, fifo, sequences, boundary, published, failed, device >>
  BY <1>3, <1>7, <1>8 DEF HandleRelease
<1>10. /\ obj'[w] \in ObjectRecord /\ obj'[w].lease = 0
       /\ obj'[w].residency = IF obj[w].spillCurrent THEN "SPILL_ONLY" ELSE "RELEASED"
       /\ obj'[w].version = obj[w].version /\ obj'[w].spill = obj[w].spill
       /\ obj'[w].unpublished = obj[w].unpublished /\ obj'[w].spillCurrent = obj[w].spillCurrent
       /\ obj'[w].spillVersion = obj[w].spillVersion
       /\ obj' = [obj EXCEPT ![w] = obj'[w]]
       /\ \A p \in Objects : p # w => obj'[p] = obj[p]
  <2> DEFINE item == [Departed(obj[w]) EXCEPT !.residency = IF obj[w].spillCurrent THEN "SPILL_ONLY" ELSE "RELEASED"]
  <2>1. obj' = [obj EXCEPT ![w] = item]
    BY <1>9
  <2>2. /\ item \in ObjectRecord /\ item.lease = 0
        /\ item.residency = IF obj[w].spillCurrent THEN "SPILL_ONLY" ELSE "RELEASED"
        /\ item.version = obj[w].version /\ item.spill = obj[w].spill
        /\ item.unpublished = obj[w].unpublished /\ item.spillCurrent = obj[w].spillCurrent
        /\ item.spillVersion = obj[w].spillVersion
    BY <1>4 DEF Departed, ObjectRecord
  <2> HIDE DEF item
  <2> QED BY <1>1, <2>1, <2>2 DEF Types
<1>11. worker' = [at |-> "done", action |-> a, version |-> 0]
  BY <1>9 DEF Idle
<1>12. ~Queued(a)
  BY <1>1 DEF Queued
<1>13. /\ Types' /\ Lists' /\ Flights' /\ Places' /\ Uses' /\ Reused' /\ PlanNeverFails'
       /\ Chained' /\ Bounded' /\ Reached' /\ TasksReadCurrent'
  <2>1. IF Queued(a) THEN acts[a].state = "IN_FLIGHT" /\ a \in copied ELSE acts[a].state = "QUEUED"
    BY <1>1, <1>12
  <2>2. obj'[w].residency \in {"SPILL_ONLY", "RELEASED"}
    BY <1>10
  <2>3. obj'[w].residency = "RELEASED" => ~obj'[w].spillCurrent
    BY <1>10
  <2>4. obj'[w].spillCurrent => obj'[w].spill
    BY <1>10 DEF IInv, Places, Located
  <2>5. leases' = Freed(w) /\ UNCHANGED << acts, fifo, sequences, boundary, published, failed, device >>
    BY <1>9
  <2>6. /\ obj' = [obj EXCEPT ![w] = obj'[w]] /\ obj'[w] \in ObjectRecord /\ obj'[w].lease = 0
        /\ obj'[w].version = obj[w].version /\ obj'[w].spill = obj[w].spill
        /\ obj'[w].unpublished = obj[w].unpublished
    BY <1>10
  <2> QED BY <1>1, <1>2, <1>3, <1>11, <2>1, <2>2, <2>3, <2>4, <2>5, <2>6, Departs
<1>14. \A p \in Objects : /\ obj'[p].version = obj[p].version /\ obj'[p].spill = obj[p].spill
                           /\ obj'[p].spillCurrent = obj[p].spillCurrent
                           /\ obj'[p].spillVersion = obj[p].spillVersion
  BY <1>10
<1>15. UNCHANGED << acts, boundary, plan, spilled, copied >>
  BY <1>9 DEF device
<1>16. Worth'
  <2>1. /\ \A b, c : Behind(b, c)' <=> Behind(b, c)
        /\ \A b : /\ (Open(b)' <=> Open(b)) /\ (Copies(b)' <=> Copies(b))
                  /\ (Fetch(b)' <=> Fetch(b)) /\ (Waiting(b)' <=> Waiting(b))
        /\ \A b \in DOMAIN acts : acts[b].obj \in Objects
    BY <1>1, <1>15, ActionTyped DEF Behind, Open, Copies, Fetch, Waiting
  <2>2. \A p \in Objects, b \in DOMAIN acts : Refreshed(p, b)' <=> Refreshed(p, b)
    BY <1>14, <1>15, <2>1 DEF Refreshed, Current
  <2> QED BY <1>14, <1>15, <2>1, <2>2 DEF IInv, Values, Worth
<1>17. SpillCopyTrue'
  BY <1>14, <1>15 DEF IInv, Values, SpillCopyTrue
<1>18. Committed'
  BY <1>1, <1>11, <1>15 DEF Committed, Copies
<1> QED BY <1>13, <1>16, <1>17, <1>18 DEF IInv, Values

-----------------------------------------------------------------------------
(* The worker claims a transfer.                                           *)

\* What a transfer that waits at the head of its object finds.
LEMMA Claimed ==
  ASSUME IInv, NEW a, Handles(a), Queued(a), acts[a].state = "QUEUED", NEW o \in Objects, o = acts[a].obj
  PROVE  /\ a \in DOMAIN acts /\ First(a) /\ ~Stranded(a)
         /\ Fetch(a) => Waiting(a) /\ obj[o].lease = 0 /\ Fetchable(obj[o])
         /\ ~Fetch(a) => Copies(a) /\ obj[o].lease # 0
<1>1. Types /\ a \in DOMAIN acts /\ First(a) /\ worker.at = "idle" /\ acts[a].kind \in AllKinds
  BY HandledFirst DEF IInv, Lists, Handles, ActionRecord
<1>2. ~Done(a) /\ ~InHand(a)
  BY <1>1 DEF Done, InHand
<1>3. ~Fetch(a) => Copies(a)
  BY <1>1 DEF Queued, Fetch, Copies, AllKinds
<1>4. obj[o].lease = 0 <=> Waiting(a)
  BY <1>1, <1>2 DEF IInv, Places, Located
<1>5. ASSUME Fetch(a) PROVE Waiting(a) /\ obj[o].lease = 0 /\ Fetchable(obj[o]) /\ acts[a].destination
  <2>1. Waiting(a) /\ acts[a].version = obj[o].version
    BY <1>1, <1>5 DEF IInv, Lists, Awaited, Waiting
  <2>2. Refreshed(o, a)
    BY <1>1, <1>5, <2>1 DEF IInv, Values, Worth, Copies, Fetch, Open, Waiting
  <2>3. Current(o)
    BY <1>1, <2>2 DEF Refreshed, First
  <2>4. obj[o].residency = "SPILL_ONLY"
    BY <1>4, <2>1, <2>3 DEF IInv, Places, Located, Current
  <2>5. acts[a].destination
    BY <1>1, <1>2, <1>5 DEF IInv, Flights, Stages
  <2> QED BY <1>4, <2>1, <2>3, <2>4, <2>5 DEF Fetchable, Current
<1>6. ~Stranded(a)
  BY <1>1, <1>3, <1>5 DEF Stranded, Fetch, IInv, Flights, Stages
<1> QED BY <1>1, <1>3, <1>4, <1>5, <1>6 DEF Waiting

\* Claims leave alone what an action says of itself but its range.
LEMMA ClaimInv ==
  ASSUME InScope, IInv, NEW a, Handles(a), Queued(a), acts[a].state = "QUEUED", Claim(a)
  PROVE  IInv'
<1>1. Types /\ worker.at = "idle"
  BY DEF IInv, Handles
<1>2. a \in DOMAIN acts /\ acts[a] \in ActionRecord /\ a \in Nat
  BY <1>1, Claimed, HandledFirst, ActionTyped DEF IInv, Lists
<1>3. PICK o \in Objects : o = acts[a].obj
  BY <1>2 DEF ActionRecord
<1>4. PICK generation \in Nat : generation = Len(leases[o]) + 1
  BY <1>1, ObjectTyped
<1>5. /\ First(a)
      /\ Fetch(a) => Waiting(a) /\ obj[o].lease = 0 /\ Fetchable(obj[o])
      /\ ~Fetch(a) => Copies(a) /\ obj[o].lease # 0
  BY <1>3, Claimed
<1>6. obj[o] \in ObjectRecord /\ leases[o] \in Seq(LeaseRecord)
  BY <1>1, ObjectTyped
<1>7. \A b \in DOMAIN acts : acts[b] \in ActionRecord /\ acts[b].obj \in Objects /\ b \in Nat
  BY <1>1, ActionTyped
<1>8. ~plan.causal
  BY <1>1 DEF InScope, PlanInScope, Types
<1> DEFINE pred == acts[a].pred
<1>9. /\ IF Fetch(a)
         THEN /\ leases' = [leases EXCEPT ![o] = Append(@, Live)]
              /\ acts' = [acts EXCEPT ![a].destination = FALSE, ![a].lease = generation,
                                      ![a].waits = Dependency(pred)]
              /\ obj' = obj
         ELSE /\ acts' = [acts EXCEPT ![a].destination = @ /\ obj[o].spill, ![a].lease = obj[o].lease]
              /\ obj' = [obj EXCEPT ![o].spill = TRUE]
              /\ leases' = leases
      /\ worker' = [at |-> "lane", action |-> a, version |-> obj[o].version]
      /\ UNCHANGED << fifo, sequences, boundary, published, failed, device >>
      /\ Ordered(pred)
  BY <1>3, <1>4, <1>8 DEF Claim, Fetch, Turn
<1>10. pred # NoRange => /\ pred[1] \in Objects /\ pred[2] \in DOMAIN leases[pred[1]]
                         /\ Lease(pred) \in LeaseRecord /\ Lease(pred).state # "IN_USE"
  <2> SUFFICES ASSUME pred # NoRange
               PROVE  /\ pred[1] \in Objects /\ pred[2] \in DOMAIN leases[pred[1]]
                      /\ Lease(pred) \in LeaseRecord /\ Lease(pred).state # "IN_USE"
    OBVIOUS
  <2>1. pred[1] \in Objects /\ pred[2] \in DOMAIN leases[pred[1]] /\ Lease(pred).state # "IN_USE"
    BY <1>2 DEF IInv, Reused
  <2>2. leases[pred[1]] \in Seq(LeaseRecord)
    BY <1>1, <2>1, ObjectTyped
  <2> QED BY <2>1, <2>2 DEF Lease
<1>11. Dependency(pred) \in Events
  BY <1>10 DEF Dependency, LeaseRecord, Events
<1> HIDE DEF pred
<1>12. /\ \A b \in DOMAIN acts : b # a => acts'[b] = acts[b]
       /\ DOMAIN acts' = DOMAIN acts
       /\ acts' \in Seq(ActionRecord) /\ Len(acts') = Len(acts)
       /\ acts'[a].kind = acts[a].kind /\ acts'[a].obj = acts[a].obj
       /\ acts'[a].task = acts[a].task /\ acts'[a].state = acts[a].state
       /\ acts'[a].version = acts[a].version /\ acts'[a].exec = acts[a].exec
       /\ acts'[a].spill = acts[a].spill /\ acts'[a].skips = acts[a].skips
       /\ acts'[a].late = acts[a].late /\ acts'[a].pred = acts[a].pred
       /\ Fetch(a) => ~acts'[a].destination /\ acts'[a].lease = generation /\ acts'[a].waits = Dependency(pred)
       /\ ~Fetch(a) => /\ acts'[a].destination = (acts[a].destination /\ obj[o].spill)
                       /\ acts'[a].lease = obj[o].lease /\ acts'[a].waits = acts[a].waits
  <2> DEFINE old == acts[a]
             item == IF Fetch(a) THEN [old EXCEPT !.destination = FALSE, !.lease = generation,
                                                  !.waits = Dependency(pred)]
                     ELSE [old EXCEPT !.destination = @ /\ obj[o].spill, !.lease = obj[o].lease]
  <2>1. acts' = [acts EXCEPT ![a] = item]
    BY <1>9
  <2>2. obj[o].lease \in Nat /\ old \in ActionRecord
    BY <1>2, <1>6 DEF ObjectRecord
  <2>3. old.destination \in BOOLEAN /\ obj[o].spill \in BOOLEAN
    BY <1>2, <1>6 DEF ActionRecord, ObjectRecord
  <2> HIDE DEF old
  <2>4. Fetch(a) =>
          /\ item \in ActionRecord
          /\ item.kind = old.kind /\ item.obj = old.obj
          /\ item.task = old.task /\ item.state = old.state
          /\ item.version = old.version /\ item.exec = old.exec
          /\ item.spill = old.spill /\ item.skips = old.skips
          /\ item.late = old.late /\ item.pred = old.pred
          /\ ~item.destination /\ item.lease = generation /\ item.waits = Dependency(pred)
    BY <1>4, <1>11, <2>2 DEF ActionRecord
  <2>5. ~Fetch(a) =>
          /\ item \in ActionRecord
          /\ item.kind = old.kind /\ item.obj = old.obj
          /\ item.task = old.task /\ item.state = old.state
          /\ item.version = old.version /\ item.exec = old.exec
          /\ item.spill = old.spill /\ item.skips = old.skips
          /\ item.late = old.late /\ item.pred = old.pred
          /\ item.destination = (old.destination /\ obj[o].spill)
          /\ item.lease = obj[o].lease /\ item.waits = old.waits
    <3> DEFINE de == old.destination /\ obj[o].spill
    <3>1. de \in BOOLEAN
      BY <2>3
    <3>2. ~Fetch(a) => item = [old EXCEPT !.destination = de, !.lease = obj[o].lease]
      BY <2>2 DEF ActionRecord
    <3> HIDE DEF de, item
    <3>3. ~Fetch(a) => item \in ActionRecord
      BY <2>2, <3>1, <3>2 DEF ActionRecord
    <3>4. ~Fetch(a) =>
          /\ item.kind = old.kind /\ item.obj = old.obj
          /\ item.task = old.task /\ item.state = old.state
          /\ item.version = old.version /\ item.exec = old.exec
          /\ item.spill = old.spill /\ item.skips = old.skips
          /\ item.late = old.late /\ item.pred = old.pred
          /\ item.destination = de
          /\ item.lease = obj[o].lease /\ item.waits = old.waits
      BY <2>2, <3>1, <3>2, ZenonT(20) DEF ActionRecord
    <3> QED BY <3>3, <3>4 DEF de
  <2> HIDE DEF item
  <2>6. item \in ActionRecord
    BY <2>4, <2>5
  <2>7. /\ acts'[a] = item /\ \A b \in DOMAIN acts : b # a => acts'[b] = acts[b]
        /\ DOMAIN acts' = DOMAIN acts /\ acts' \in Seq(ActionRecord) /\ Len(acts') = Len(acts)
    <3>1. acts \in Seq(ActionRecord)
      BY <1>1 DEF Types
    <3> QED BY <1>2, <2>1, <2>6, <3>1, Replaced
  <2> QED BY <2>4, <2>5, <2>7 DEF old
<1>13. \A b \in DOMAIN acts :
         /\ (Open(b)' <=> Open(b)) /\ (Queued(b)' <=> Queued(b)) /\ (Copies(b)' <=> Copies(b))
         /\ (Fetch(b)' <=> Fetch(b)) /\ (Leaves(b)' <=> Leaves(b)) /\ (Waiting(b)' <=> Waiting(b))
         /\ (Triggered(b)' <=> Triggered(b))
  <2>1. /\ (Open(a)' <=> Open(a)) /\ (Queued(a)' <=> Queued(a)) /\ (Copies(a)' <=> Copies(a))
        /\ (Fetch(a)' <=> Fetch(a)) /\ (Leaves(a)' <=> Leaves(a)) /\ (Waiting(a)' <=> Waiting(a))
        /\ (Triggered(a)' <=> Triggered(a))
    BY <1>9, <1>12 DEF Open, Queued, Copies, Fetch, Leaves, Waiting, Triggered, device
  <2>2. ASSUME NEW b \in DOMAIN acts, b # a
        PROVE  /\ (Open(b)' <=> Open(b)) /\ (Queued(b)' <=> Queued(b)) /\ (Copies(b)' <=> Copies(b))
               /\ (Fetch(b)' <=> Fetch(b)) /\ (Leaves(b)' <=> Leaves(b)) /\ (Waiting(b)' <=> Waiting(b))
               /\ (Triggered(b)' <=> Triggered(b))
    BY <1>9, <1>12, <2>2 DEF Open, Queued, Copies, Fetch, Leaves, Waiting, Triggered, device
  <2> QED BY <2>1, <2>2
<1>14. \A b \in DOMAIN acts :
         /\ acts'[b].kind = acts[b].kind /\ acts'[b].obj = acts[b].obj
         /\ acts'[b].task = acts[b].task /\ acts'[b].state = acts[b].state
         /\ acts'[b].version = acts[b].version /\ acts'[b].exec = acts[b].exec
         /\ acts'[b].spill = acts[b].spill /\ acts'[b].skips = acts[b].skips
         /\ acts'[b].late = acts[b].late /\ acts'[b].pred = acts[b].pred
  BY <1>12
<1>15. \A b, c \in DOMAIN acts : Behind(b, c)' <=> Behind(b, c)
  BY <1>13, <1>14 DEF Behind
<1>16. /\ \A b \in DOMAIN acts : First(b)' <=> First(b)
       /\ \A p \in Objects : Pending(p)' = Pending(p) /\ (Leaving(p)' <=> Leaving(p))
       /\ \A b : ~Done(b) /\ ~Done(b)' /\ ~InHand(b) /\ (InHand(b)' <=> b = a)
  <2>1. worker'.at = "lane" /\ worker'.action = a
    BY <1>9
  <2>2. \A b \in DOMAIN acts : First(b)' <=> First(b)
    BY <1>12, <1>13, <1>15 DEF First
  <2>3. \A p \in Objects : Pending(p)' = Pending(p)
    BY <1>12, <1>13, <1>14 DEF Pending
  <2>4. \A p \in Objects : (Leaving(p)' <=> Leaving(p))
    BY <1>12, <1>13, <1>14 DEF Leaving
  <2> QED BY <1>1, <2>1, <2>2, <2>3, <2>4 DEF Done, InHand
<1>17. /\ obj' \in [Objects -> ObjectRecord]
       /\ \A p \in Objects : /\ obj'[p].residency = obj[p].residency /\ obj'[p].version = obj[p].version
                             /\ obj'[p].lease = obj[p].lease /\ obj'[p].execVersion = obj[p].execVersion
                             /\ obj'[p].spillCurrent = obj[p].spillCurrent
                             /\ obj'[p].spillVersion = obj[p].spillVersion
                             /\ obj'[p].readiness = obj[p].readiness
                             /\ obj'[p].unpublished = obj[p].unpublished
                             /\ obj'[p].spill = (obj[p].spill \/ (~Fetch(a) /\ p = o))
  <2>1. CASE Fetch(a)
    <3>1. \A p \in Objects : obj[p].spill \in BOOLEAN
      BY <1>1, ObjectTyped DEF ObjectRecord
    <3> QED BY <1>1, <1>9, <2>1, <3>1 DEF Types
  <2>2. CASE ~Fetch(a)
    <3> DEFINE item == [obj[o] EXCEPT !.spill = TRUE]
    <3>1. /\ item \in ObjectRecord
          /\ item.residency = obj[o].residency /\ item.version = obj[o].version
          /\ item.lease = obj[o].lease /\ item.execVersion = obj[o].execVersion
          /\ item.spillCurrent = obj[o].spillCurrent /\ item.spillVersion = obj[o].spillVersion
          /\ item.readiness = obj[o].readiness /\ item.unpublished = obj[o].unpublished
          /\ item.spill = TRUE
      BY <1>6 DEF ObjectRecord
    <3>2. obj' = [obj EXCEPT ![o] = item]
      BY <1>9, <2>2
    <3> HIDE DEF item
    <3>3. obj' \in [Objects -> ObjectRecord] /\ obj'[o] = item /\ \A p \in Objects : p # o => obj'[p] = obj[p]
      BY <1>1, <3>1, <3>2 DEF Types
    <3>4. \A p \in Objects : obj[p].spill \in BOOLEAN
      BY <1>1, ObjectTyped DEF ObjectRecord
    <3> QED BY <2>2, <3>1, <3>3, <3>4
  <2> QED BY <2>1, <2>2
<1>18. /\ leases' \in [Objects -> Seq(LeaseRecord)]
       /\ \A p \in Objects : /\ Len(leases[p]) \in Nat /\ Len(leases'[p]) \in Nat
                             /\ Len(leases[p]) <= Len(leases'[p])
                             /\ DOMAIN leases[p] \subseteq DOMAIN leases'[p]
                             /\ \A h \in DOMAIN leases[p] : leases'[p][h] = leases[p][h]
       /\ \A p \in Objects : \A h \in DOMAIN leases'[p] :
            h \in DOMAIN leases[p] \/ (Fetch(a) /\ p = o /\ h = generation)
       /\ Fetch(a) => /\ Len(leases'[o]) = generation /\ generation \in DOMAIN leases'[o]
                      /\ leases'[o][generation].state = "IN_USE" /\ leases'[o][generation].event = NoEvent
  <2>1. CASE Fetch(a)
    <3>1. Live \in LeaseRecord /\ Live.state = "IN_USE" /\ Live.event = NoEvent
      BY DEF Live, LeaseRecord, Events, NoEvent
    <3> HIDE DEF Live
    <3>2. leases' = [leases EXCEPT ![o] = Append(leases[o], Live)]
      BY <1>9, <2>1
    <3>3. Append(leases[o], Live) \in Seq(LeaseRecord)
      BY <1>6, <3>1
    <3>4. leases'[o] = Append(leases[o], Live) /\ leases' \in [Objects -> Seq(LeaseRecord)]
          /\ \A p \in Objects : p # o => leases'[p] = leases[p]
      BY <1>1, <3>2, <3>3 DEF Types
    <3>5. /\ Len(leases'[o]) = generation /\ DOMAIN leases'[o] = 1 .. generation
          /\ DOMAIN leases[o] = 1 .. generation - 1 /\ leases'[o][generation] = Live
          /\ \A h \in DOMAIN leases[o] : leases'[o][h] = leases[o][h]
      BY <1>4, <1>6, <3>1, <3>4
    <3>6. \A p \in Objects : leases[p] \in Seq(LeaseRecord)
      BY <1>1, ObjectTyped
    <3>7. ASSUME NEW p \in Objects
          PROVE  /\ Len(leases[p]) \in Nat /\ Len(leases'[p]) \in Nat
                 /\ Len(leases[p]) <= Len(leases'[p])
                 /\ DOMAIN leases[p] \subseteq DOMAIN leases'[p]
                 /\ \A h \in DOMAIN leases[p] : leases'[p][h] = leases[p][h]
                 /\ \A h \in DOMAIN leases'[p] : h \in DOMAIN leases[p] \/ (p = o /\ h = generation)
      <4>1. CASE p # o
        BY <3>4, <3>6, <4>1
      <4>2. CASE p = o
        BY <1>4, <3>5, <4>2
      <4> QED BY <4>1, <4>2
    <3>8. generation \in DOMAIN leases'[o]
      BY <1>4, <3>5
    <3> QED BY <2>1, <3>1, <3>4, <3>5, <3>7, <3>8
  <2>2. CASE ~Fetch(a)
    <3>1. leases' = leases /\ \A p \in Objects : leases[p] \in Seq(LeaseRecord)
      BY <1>1, <1>9, <2>2, ObjectTyped
    <3>2. \A p \in Objects : Len(leases[p]) \in Nat
      BY <3>1
    <3> QED BY <1>1, <2>2, <3>1, <3>2 DEF Types
  <2> QED BY <2>1, <2>2
<1>19. /\ UNCHANGED << fifo, sequences, boundary, published, failed, tasks, ran, lane, copied, spilled, plan >>
       /\ worker'.at = "lane" /\ worker'.action = a /\ worker'.version = obj[o].version
       /\ worker' \in [at : {"idle", "lane", "done"}, action : Nat, version : Nat]
  BY <1>2, <1>6, <1>9 DEF device, ObjectRecord
<1>20. Types'
  BY <1>1, <1>12, <1>17, <1>18, <1>19 DEF Types
<1>21. Listed' /\ Order'
  <2>1. Listed'
    BY <1>12, <1>16, <1>19 DEF IInv, Lists, Listed
  <2>2. Order'
    BY <1>12, <1>13, <1>14, <1>15 DEF IInv, Lists, Order
  <2> QED BY <2>1, <2>2
<1>22. Static'
  <2>1. \A b \in DOMAIN acts : b # a => acts'[b].lease \in 0 .. Len(leases'[acts'[b].obj])
    <3>1. \A b \in DOMAIN acts : acts[b].lease \in 0 .. Len(leases[acts[b].obj])
      BY DEF IInv, Lists, Static
    <3> QED BY <1>7, <1>12, <1>18, <3>1
  <2>2. acts'[a].lease \in 0 .. Len(leases'[acts'[a].obj])
    <3>1. CASE Fetch(a)
      BY <1>3, <1>12, <1>18, <3>1
    <3>2. CASE ~Fetch(a)
      <4>1. obj[o].lease \in 0 .. Len(leases[o])
        BY DEF IInv, Places, Located
      <4> QED BY <1>3, <1>12, <1>18, <3>2, <4>1
    <3> QED BY <3>1, <3>2
  <2>3. \A b \in DOMAIN acts : ~Queued(b)' => acts'[b].lease = 0
    BY <1>12, <1>13 DEF IInv, Lists, Static
  <2> QED BY <1>12, <1>13, <1>14, <1>19, <2>1, <2>2, <2>3 DEF IInv, Lists, Static
<1>23. Awaited' /\ Versions' /\ Unpublished'
  <2>1. Awaited'
    BY <1>7, <1>12, <1>13, <1>14, <1>17, <1>19 DEF IInv, Lists, Awaited
  <2>2. Versions'
    BY <1>7, <1>12, <1>13, <1>14, <1>17, <1>19 DEF IInv, Lists, Versions
  <2>3. Unpublished'
    BY <1>12, <1>13, <1>14, <1>17 DEF IInv, Lists, Unpublished
  <2> QED BY <2>1, <2>2, <2>3
<1>24. Stages'
  <2> SUFFICES ASSUME NEW b \in DOMAIN acts
               PROVE  (/\ ~Open(b) /\ Queued(b) => b \in copied
                       /\ b \in copied => Queued(b) /\ acts[b].state # "QUEUED" /\ (~Fetch(b) => Triggered(b))
                       /\ acts[b].state = "IN_FLIGHT" =>
                            /\ Queued(b) /\ First(b) /\ acts[b].lease # 0
                            /\ ~Done(b) => acts[b].lease = obj[acts[b].obj].lease
                            /\ Copies(b) => obj[acts[b].obj].spill
                       /\ acts[b].state = "QUEUED" =>
                            /\ Fetch(b) /\ ~InHand(b) => acts[b].lease = 0 /\ acts[b].destination
                            /\ Copies(b) /\ acts[b].lease # 0 => acts[b].lease = obj[acts[b].obj].lease
                            /\ Copies(b) /\ ~acts[b].destination =>
                                 /\ obj[acts[b].obj].spill
                                 /\ acts[b].obj \in plan.retained \/ First(b))'
    BY <1>12 DEF Stages
  <2>1. /\ ~Open(b) /\ Queued(b) => b \in copied
        /\ b \in copied => Queued(b) /\ acts[b].state # "QUEUED" /\ (~Fetch(b) => Triggered(b))
        /\ acts[b].state = "IN_FLIGHT" =>
             /\ Queued(b) /\ First(b) /\ acts[b].lease # 0
             /\ acts[b].lease = obj[acts[b].obj].lease
             /\ Copies(b) => obj[acts[b].obj].spill
        /\ acts[b].state = "QUEUED" =>
             /\ Fetch(b) => acts[b].lease = 0 /\ acts[b].destination
             /\ Copies(b) /\ acts[b].lease # 0 => acts[b].lease = obj[acts[b].obj].lease
             /\ Copies(b) /\ ~acts[b].destination =>
                  /\ obj[acts[b].obj].spill
                  /\ acts[b].obj \in plan.retained \/ First(b)
    BY <1>16 DEF IInv, Flights, Stages
  <2>2. CASE b # a
    <3>1. acts'[b] = acts[b] /\ ~InHand(b)' /\ acts[b].obj \in Objects /\ ~Done(b)'
      BY <1>7, <1>12, <1>16, <2>2
    <3>2. /\ (Open(b)' <=> Open(b)) /\ (Queued(b)' <=> Queued(b)) /\ (Copies(b)' <=> Copies(b))
          /\ (Fetch(b)' <=> Fetch(b)) /\ (Triggered(b)' <=> Triggered(b)) /\ (First(b)' <=> First(b))
      BY <1>13, <1>16
    <3>3. obj'[acts[b].obj].lease = obj[acts[b].obj].lease
          /\ (obj[acts[b].obj].spill => obj'[acts[b].obj].spill)
      BY <1>17, <3>1
    <3>4. plan' = plan /\ copied' = copied
      BY <1>19
    <3> HIDE DEF pred
    <3> QED BY <2>1, <3>1, <3>2, <3>3, <3>4
  <2>3. CASE b = a
    <3>1. Fetch(a) => ~Copies(a)
      BY DEF Fetch, Copies
    <3>2. ~Fetch(a) => obj'[o].spill /\ acts'[a].lease = obj'[o].lease
      BY <1>12, <1>17
    <3> QED BY <1>3, <1>5, <1>12, <1>13, <1>16, <1>19, <2>1, <2>3, <3>1, <3>2
  <2> QED BY <2>2, <2>3
<1>25. OnLanes' /\ AtDone'
  <2>1. OnLanes'
    BY <1>12, <1>14, <1>19 DEF IInv, Flights, OnLanes
  <2> QED BY <1>19, <2>1 DEF AtDone
<1>26. AtLane'
  <2>1. First(a)' /\ Queued(a)' /\ acts'[a].state = "QUEUED"
    BY <1>2, <1>5, <1>12, <1>13, <1>16
  <2>2. CASE Fetch(a)
    <3>1. acts'[a].lease = generation /\ generation # 0 /\ Fetch(a)' /\ acts'[a].obj = o
      BY <1>2, <1>3, <1>4, <1>6, <1>12, <1>13, <2>2
    <3>2. Fetchable(obj'[o]) /\ obj'[o].lease = 0
      BY <1>5, <1>17, <2>2 DEF Fetchable
    <3>3. ASSUME NEW t \in DOMAIN tasks, tasks[t].obj = o PROVE tasks[t].lease # generation
      <4>1. tasks[t].lease \in 1 .. Len(leases[o])
        BY <3>3 DEF IInv, Uses, Users
      <4> QED BY <1>4, <1>18, <4>1
    <3>4. ASSUME NEW b \in DOMAIN acts, acts'[b].obj = o, acts'[b].lease = generation PROVE b = a
      <4> SUFFICES ASSUME b # a PROVE FALSE
        OBVIOUS
      <4>1. acts[b].lease \in 0 .. Len(leases[o])
        BY <1>12, <3>4 DEF IInv, Lists, Static
      <4> QED BY <1>4, <1>12, <1>18, <3>4, <4>1
    <3>5. obj'[o].version = worker'.version
      BY <1>17, <1>19
    <3> QED BY <1>12, <1>18, <1>19, <2>1, <2>2, <3>1, <3>2, <3>3, <3>4, <3>5 DEF AtLane
  <2>3. CASE ~Fetch(a)
    <3>1. acts'[a].lease = obj'[o].lease /\ obj'[o].spill /\ acts'[a].obj = o /\ acts'[a].lease # 0 /\ ~Fetch(a)'
      BY <1>2, <1>3, <1>5, <1>12, <1>13, <1>17, <2>3
    <3> QED BY <1>19, <2>1, <3>1 DEF AtLane
  <2> QED BY <2>2, <2>3
<1>27. Located'
  <2> SUFFICES ASSUME NEW p \in Objects
               PROVE  (/\ obj[p].lease \in 0 .. Len(leases[p])
                       /\ obj[p].lease = 0 <=> obj[p].residency \in {"SPILL_ONLY", "RELEASED"}
                       /\ obj[p].lease # 0 => obj[p].execVersion = obj[p].version
                       /\ obj[p].residency = "RELEASED" => ~obj[p].spillCurrent
                       /\ obj[p].spillCurrent => obj[p].spill
                       /\ obj[p].residency = "FETCHING" =>
                            LET f == obj[p].readiness IN
                            /\ f \in DOMAIN acts /\ acts[f].obj = p /\ Fetch(f)
                            /\ acts[f].state = "IN_FLIGHT" /\ ~Done(f)
                       /\ obj[p].residency = "EVICTING" => Leaving(p)
                       /\ \A b \in DOMAIN acts : acts[b].obj = p /\ First(b) =>
                            /\ obj[p].lease = 0 <=> Waiting(b) \/ (Leaves(b) /\ Done(b))
                            /\ Fetch(b) /\ acts[b].state = "IN_FLIGHT" /\ ~Done(b) =>
                                 obj[p].residency = "FETCHING" /\ obj[p].readiness = b)'
    BY DEF Located
  <2>1. /\ obj[p].lease \in 0 .. Len(leases[p])
        /\ obj[p].lease = 0 <=> obj[p].residency \in {"SPILL_ONLY", "RELEASED"}
        /\ obj[p].lease # 0 => obj[p].execVersion = obj[p].version
        /\ obj[p].residency = "RELEASED" => ~obj[p].spillCurrent
        /\ obj[p].spillCurrent => obj[p].spill
        /\ obj[p].residency = "EVICTING" => Leaving(p)
    BY DEF IInv, Places, Located
  <2>2. obj[p].residency = "FETCHING" =>
          LET f == obj[p].readiness IN
          /\ f \in DOMAIN acts /\ acts[f].obj = p /\ Fetch(f) /\ acts[f].state = "IN_FLIGHT"
    BY DEF IInv, Places, Located
  <2>3. \A b \in DOMAIN acts : acts[b].obj = p /\ First(b) =>
          /\ obj[p].lease = 0 <=> Waiting(b)
          /\ Fetch(b) /\ acts[b].state = "IN_FLIGHT" =>
               obj[p].residency = "FETCHING" /\ obj[p].readiness = b
    BY <1>16 DEF IInv, Places, Located
  <2>4. obj'[p].lease \in 0 .. Len(leases'[p])
    BY <1>17, <1>18, <2>1
  <2>5. obj'[p].residency = "FETCHING" =>
          /\ obj'[p].readiness \in DOMAIN acts' /\ acts'[obj'[p].readiness].obj = p /\ Fetch(obj[p].readiness)'
          /\ acts'[obj'[p].readiness].state = "IN_FLIGHT" /\ ~Done(obj[p].readiness)'
    BY <1>12, <1>13, <1>14, <1>16, <1>17, <2>2
  <2>6. \A b \in DOMAIN acts' : acts'[b].obj = p /\ First(b)' =>
          /\ obj'[p].lease = 0 <=> Waiting(b)'
          /\ Fetch(b)' /\ acts'[b].state = "IN_FLIGHT" =>
               obj'[p].residency = "FETCHING" /\ obj'[p].readiness = b
    BY <1>12, <1>13, <1>14, <1>16, <1>17, <2>3
  <2> QED BY <1>16, <1>17, <2>1, <2>4, <2>5, <2>6
<1>28. LeaseStates'
  <2> SUFFICES ASSUME NEW p \in Objects
               PROVE  (/\ \A g \in DOMAIN leases[p] :
                            /\ leases[p][g].state = "IN_USE" => leases[p][g].event = NoEvent
                            /\ g # obj[p].lease =>
                                 \/ leases[p][g].state = "FREE"
                                 \/ /\ InHand(worker.action) /\ acts[worker.action].obj = p
                                    /\ acts[worker.action].lease = g
                       /\ obj[p].lease # 0 /\ ~(\E b \in DOMAIN acts : acts[b].obj = p /\ Open(b) /\ Leaves(b) /\ ~acts[b].late) =>
                            leases[p][obj[p].lease].state = "IN_USE"
                       /\ obj[p].lease # 0 => \A b \in DOMAIN acts :
                            acts[b].obj = p /\ Open(b) /\ Leaves(b) /\ ~acts[b].late =>
                              /\ leases[p][obj[p].lease].state = "RETIRE_PENDING"
                              /\ leases[p][obj[p].lease].event =
                                   IF acts[b].kind = "RELEASE" THEN << "task", acts[b].task >>
                                   ELSE IF acts[b].state = "QUEUED" THEN NoEvent ELSE << "copy", b >>)'
    BY DEF LeaseStates
  <2>1. /\ \A g \in DOMAIN leases[p] :
             /\ leases[p][g].state = "IN_USE" => leases[p][g].event = NoEvent
             /\ g # obj[p].lease => leases[p][g].state = "FREE"
        /\ obj[p].lease # 0 /\ ~(\E b \in DOMAIN acts : acts[b].obj = p /\ Open(b) /\ Leaves(b) /\ ~acts[b].late) =>
             leases[p][obj[p].lease].state = "IN_USE"
        /\ obj[p].lease # 0 => \A b \in DOMAIN acts :
             acts[b].obj = p /\ Open(b) /\ Leaves(b) /\ ~acts[b].late =>
               /\ leases[p][obj[p].lease].state = "RETIRE_PENDING"
               /\ leases[p][obj[p].lease].event =
                    IF acts[b].kind = "RELEASE" THEN << "task", acts[b].task >>
                    ELSE IF acts[b].state = "QUEUED" THEN NoEvent ELSE << "copy", b >>
    BY <1>16 DEF IInv, Places, LeaseStates
  <2>2. obj[p].lease # 0 => obj[p].lease \in DOMAIN leases[p]
    BY <1>1, ObjectTyped DEF IInv, Places, Located
  <2>3. obj[p].lease # 0 => leases'[p][obj'[p].lease] = leases[p][obj[p].lease]
    BY <1>17, <1>18, <2>2
  <2>4. ASSUME NEW g \in DOMAIN leases'[p]
        PROVE  /\ leases'[p][g].state = "IN_USE" => leases'[p][g].event = NoEvent
               /\ g # obj'[p].lease =>
                    \/ leases'[p][g].state = "FREE"
                    \/ InHand(a)' /\ acts'[a].obj = p /\ acts'[a].lease = g
    <3>1. CASE g \in DOMAIN leases[p]
      BY <1>17, <1>18, <2>1, <3>1
    <3>2. CASE Fetch(a) /\ p = o /\ g = generation
      BY <1>3, <1>12, <1>16, <1>18, <3>2
    <3> QED BY <1>18, <3>1, <3>2
  <2>5. obj'[p].lease # 0 /\ ~(\E b \in DOMAIN acts' : acts'[b].obj = p /\ Open(b)' /\ Leaves(b)' /\ ~acts'[b].late) =>
          leases'[p][obj'[p].lease].state = "IN_USE"
    BY <1>12, <1>13, <1>14, <1>17, <2>1, <2>3
  <2>6. obj'[p].lease # 0 => \A b \in DOMAIN acts' :
          acts'[b].obj = p /\ Open(b)' /\ Leaves(b)' /\ ~acts'[b].late =>
            /\ leases'[p][obj'[p].lease].state = "RETIRE_PENDING"
            /\ leases'[p][obj'[p].lease].event =
                 IF acts'[b].kind = "RELEASE" THEN << "task", acts'[b].task >>
                 ELSE IF acts'[b].state = "QUEUED" THEN NoEvent ELSE << "copy", b >>
    BY <1>12, <1>13, <1>14, <1>17, <2>1, <2>3
  <2> QED BY <1>19, <2>4, <2>5, <2>6
<1>29. Updating'
  BY <1>16, <1>17, <1>19 DEF IInv, Places, Updating
<1>30. \A p \in Objects : Unrun(p)' = Unrun(p) /\ Points(p)' = Points(p)
  BY <1>19 DEF Unrun, Points
<1>31. Users'
  <2>1. \A t \in DOMAIN tasks : tasks[t].lease \in 1 .. Len(leases'[tasks[t].obj])
    <3> SUFFICES ASSUME NEW t \in DOMAIN tasks PROVE tasks[t].lease \in 1 .. Len(leases'[tasks[t].obj])
      OBVIOUS
    <3>1. tasks[t].obj \in Objects
      BY <1>1, TaskTyped
    <3>2. tasks[t].lease \in 1 .. Len(leases[tasks[t].obj])
      BY DEF IInv, Uses, Users
    <3> QED BY <1>18, <3>1, <3>2
  <2>2. \A p \in Objects : \A t \in Unrun(p) : tasks[t].lease = obj'[p].lease
    BY <1>17 DEF IInv, Uses, Users
  <2>3. ASSUME NEW b \in DOMAIN acts, b \notin copied, acts'[b].lease # 0, b # a
        PROVE  acts'[b].lease = obj'[acts'[b].obj].lease
    <3>1. acts[b].lease = obj[acts[b].obj].lease
      BY <1>12, <1>16, <2>3 DEF IInv, Uses, Users
    <3> QED BY <1>7, <1>12, <1>17, <2>3, <3>1
  <2>4. \A t \in 1 .. ran : tasks[t].waits \subseteq copied
    BY DEF IInv, Uses, Users
  <2> QED BY <1>12, <1>16, <1>19, <1>30, <2>1, <2>2, <2>3, <2>4 DEF Users
<1>32. Waits' /\ Releases'
  <2>1. Waits'
    BY <1>12, <1>13, <1>14, <1>19 DEF IInv, Uses, Waits
  <2>2. Releases'
    BY <1>12, <1>13, <1>14, <1>15, <1>19 DEF IInv, Uses, Releases
  <2> QED BY <2>1, <2>2
<1>33. \A p \in Objects : Current(p)' <=> Current(p)
  <2>1. \A p \in Objects : obj[p].spillCurrent => obj[p].spill
    BY DEF IInv, Places, Located
  <2> QED BY <1>17, <2>1 DEF Current
<1>34. Worth'
  <2>1. \A p \in Objects : \A b \in DOMAIN acts : Refreshed(p, b) => Refreshed(p, b)'
    <3> SUFFICES ASSUME NEW p \in Objects, NEW b \in DOMAIN acts, Refreshed(p, b)
                 PROVE  Refreshed(p, b)'
      OBVIOUS
    <3>1. CASE Current(p) /\ (p \notin plan.retained => \A c \in DOMAIN acts : Fetch(c) => ~Behind(c, b))
      <4>1. Current(p)'
        BY <1>33, <3>1
      <4>2. p \notin plan'.retained => \A c \in DOMAIN acts' : Fetch(c)' => ~Behind(c, b)'
        BY <1>12, <1>13, <1>15, <1>19, <3>1
      <4> QED BY <4>1, <4>2 DEF Refreshed
    <3>2. CASE \E c \in DOMAIN acts : Behind(c, b) /\ Copies(c) /\ acts[c].version = obj[p].version
      <4>1. \E c \in DOMAIN acts' : Behind(c, b)' /\ Copies(c)' /\ acts'[c].version = obj'[p].version
        BY <1>12, <1>13, <1>14, <1>15, <1>17, <3>2
      <4> QED BY <4>1 DEF Refreshed
    <3> QED BY <3>1, <3>2 DEF Refreshed
  <2> SUFFICES ASSUME NEW b \in DOMAIN acts', Open(b)', NEW p \in Objects, p = acts'[b].obj
               PROVE  (/\ obj[p].spillCurrent /\ obj[p].spillVersion = obj[p].version =>
                            acts[b].version = obj[p].version
                       /\ /\ acts[b].version = obj[p].version /\ (acts[b].spill \/ Waiting(b)) /\ ~Copies(b)
                          => Refreshed(p, b) \/ (Fetch(b) /\ ~Waiting(b) /\ p \notin plan.retained)
                       /\ Copies(b) /\ b \in copied /\ acts[b].version = obj[p].version /\ boundary.update # p =>
                            spilled[p] = obj[p].version)'
    BY <1>7, <1>12, <1>14 DEF Worth
  <2>2. b \in DOMAIN acts /\ Open(b) /\ p = acts[b].obj
    BY <1>12, <1>13, <1>14
  <2>3. /\ obj[p].spillCurrent /\ obj[p].spillVersion = obj[p].version =>
             acts[b].version = obj[p].version
        /\ /\ acts[b].version = obj[p].version /\ (acts[b].spill \/ Waiting(b)) /\ ~Copies(b)
           => Refreshed(p, b) \/ (Fetch(b) /\ ~Waiting(b) /\ p \notin plan.retained)
        /\ Copies(b) /\ b \in copied /\ acts[b].version = obj[p].version /\ boundary.update # p =>
             spilled[p] = obj[p].version
    BY <2>2 DEF IInv, Values, Worth
  <2>4. /\ acts'[b].version = acts[b].version /\ acts'[b].spill = acts[b].spill
        /\ obj'[p].version = obj[p].version /\ obj'[p].spillCurrent = obj[p].spillCurrent
        /\ obj'[p].spillVersion = obj[p].spillVersion
        /\ (Copies(b)' <=> Copies(b)) /\ (Fetch(b)' <=> Fetch(b)) /\ (Waiting(b)' <=> Waiting(b))
        /\ copied' = copied /\ boundary' = boundary /\ spilled' = spilled /\ plan' = plan
    BY <1>13, <1>14, <1>17, <1>19, <2>2
  <2> QED BY <2>1, <2>2, <2>3, <2>4
<1>35. \A p \in Objects : obj[p].lease # 0 =>
         /\ Held(p)' = Held(p) /\ Upcoming(p)' = Upcoming(p)
         /\ \A s : Expected(p, s)' = Expected(p, s)
         /\ \A r \in Points(p) : After(p, r)' = After(p, r)
  <2> SUFFICES ASSUME NEW p \in Objects, obj[p].lease # 0
               PROVE  /\ Held(p)' = Held(p) /\ Upcoming(p)' = Upcoming(p)
                      /\ \A s : Expected(p, s)' = Expected(p, s)
                      /\ \A r \in Points(p) : After(p, r)' = After(p, r)
    OBVIOUS
  <2>1. obj[p].lease \in DOMAIN leases[p]
    BY <1>1, ObjectTyped DEF IInv, Places, Located
  <2>2. leases'[p][obj'[p].lease] = leases[p][obj[p].lease]
    BY <1>17, <1>18, <2>1
  <2>3. Held(p)' = Held(p)
    BY <1>17, <1>19, <2>2 DEF Held, Loading
  <2>4. Upcoming(p)' = Upcoming(p) /\ \A s : Expected(p, s)' = Expected(p, s)
    BY <1>17, <1>19 DEF Upcoming, Expected
  <2> QED BY <1>19, <2>3, <2>4 DEF After
<1>36. Chained'
  BY <1>17, <1>19, <1>30, <1>35 DEF IInv, Values, Chained
<1>37. Bounded'
  BY <1>17, <1>30, <1>35 DEF IInv, Values, Bounded
<1>38. Reached'
  <2> SUFFICES ASSUME NEW b \in DOMAIN acts, Open(b)', Copies(b)', NEW p \in Objects, p = acts'[b].obj,
                      obj'[p].lease # 0, NEW r \in Points(p)',
                      \A u \in Unrun(p)' : ~(r < u /\ u <= acts'[b].task)
               PROVE  acts'[b].version <= After(p, r)'
    BY <1>7, <1>12, <1>14, ZenonT(20) DEF Reached
  <2>1. /\ Open(b) /\ Copies(b) /\ p = acts[b].obj /\ obj[p].lease # 0
        /\ r \in Points(p) /\ \A u \in Unrun(p) : ~(r < u /\ u <= acts[b].task)
    BY <1>13, <1>14, <1>17, <1>30
  <2>2. acts[b].version <= After(p, r)
    BY <2>1 DEF IInv, Values, Reached
  <2>3. After(p, r)' = After(p, r)
    BY <1>35, <2>1
  <2>4. acts'[b].version = acts[b].version
    BY <1>14
  <2> QED BY <2>2, <2>3, <2>4
<1>39. SpillCopyTrue' /\ TasksReadCurrent' /\ PlanNeverFails'
  <2>1. \A p \in Objects : obj[p].spillCurrent => obj[p].spill
    BY DEF IInv, Places, Located
  <2>2. SpillCopyTrue'
    BY <1>17, <1>19, <2>1 DEF IInv, Values, SpillCopyTrue
  <2> QED BY <1>19, <2>2 DEF IInv, Values, TasksReadCurrent, PlanNeverFails
<1>40. \A event : Complete(event)' <=> Complete(event)
  BY <1>19 DEF Complete
<1>41. Reused'
  <2> SUFFICES ASSUME NEW b \in DOMAIN acts, acts[b].pred # NoRange, NEW range, range = acts[b].pred
               PROVE  (/\ Fetch(b) /\ range[1] \in Objects
                       /\ range[2] \in DOMAIN leases[range[1]] /\ Lease(range).state # "IN_USE"
                       /\ acts[b].lease # 0 =>
                            Lease(range).state = "FREE" \/ (acts[b].waits = Lease(range).event /\ acts[b].waits # NoEvent)
                       /\ b \in copied => Lease(range).state = "FREE" \/ Complete(Lease(range).event))'
    BY <1>12, <1>14 DEF Reused
  <2>1. /\ Fetch(b) /\ range[1] \in Objects
        /\ range[2] \in DOMAIN leases[range[1]] /\ Lease(range).state # "IN_USE"
        /\ acts[b].lease # 0 =>
             Lease(range).state = "FREE" \/ (acts[b].waits = Lease(range).event /\ acts[b].waits # NoEvent)
        /\ b \in copied => Lease(range).state = "FREE" \/ Complete(Lease(range).event)
    BY DEF IInv, Reused
  <2>2. Lease(range)' = Lease(range) /\ range[2] \in DOMAIN leases'[range[1]]
    BY <1>18, <2>1 DEF Lease
  <2>3. b = a => Lease(range).state = "FREE" \/ (acts'[b].waits = Lease(range).event /\ acts'[b].waits # NoEvent)
    BY <1>9, <1>12, <2>1 DEF Ordered, Dependency, pred
  <2>4. Fetch(b)'
    BY <1>13, <2>1
  <2>5. acts'[b].lease # 0 =>
             Lease(range).state = "FREE" \/ (acts'[b].waits = Lease(range).event /\ acts'[b].waits # NoEvent)
    BY <1>12, <2>1, <2>3
  <2> QED BY <1>19, <1>40, <2>1, <2>2, <2>4, <2>5
<1>42. Committed'
  BY <1>19 DEF Committed
<1> QED BY <1>42, <1>20, <1>21, <1>22, <1>23, <1>24, <1>25, <1>26, <1>27, <1>28, <1>29, <1>31, <1>32, <1>34,
           <1>36, <1>37, <1>38, <1>39, <1>41 DEF IInv, Lists, Flights, Places, Uses, Values

\* A transfer is claimed.  In a plan of the theorems' scope none is rejected.
LEMMA HandleTransferInv ==
  ASSUME InScope, IInv, NEW a \in DOMAIN acts, HandleTransfer(a)
  PROVE  IInv'
<1>1. Handles(a) /\ Queued(a) /\ acts[a].state = "QUEUED"
  BY DEF HandleTransfer
<1>2. CASE Claim(a)
  BY <1>1, <1>2, ClaimInv
<1>3. CASE Reject(a)
  <2>1. Types
    BY DEF IInv
  <2>2. acts[a].obj \in Objects
    BY <2>1, ActionTyped, SMTT(20)
  <2>3. /\ ~Stranded(a)
        /\ Fetch(a) => Fetchable(obj[acts[a].obj])
        /\ ~Fetch(a) => obj[acts[a].obj].lease # 0
    BY <1>1, <2>2, Claimed, SMTT(20)
  <2> QED BY <1>3, <2>3 DEF Reject, Fetch
<1> QED BY <1>2, <1>3 DEF HandleTransfer

-----------------------------------------------------------------------------
(* The worker submits the copy it claimed.                                 *)

\* What was read before the object's lock was dropped still holds.
LEMMA StillValidAtLane ==
  ASSUME IInv, worker.at = "lane", NEW a, a = worker.action, NEW o, o = acts[a].obj
  PROVE  /\ a \in DOMAIN acts /\ o \in Objects /\ First(a) /\ Open(a) /\ StillValid(a)
         /\ acts[a].kind \in {"FETCH", "EVICT", "WRITE_BACK"} /\ acts[a].state = "QUEUED"
         /\ acts[a].lease # 0 /\ Queued(a) /\ a \notin copied
         /\ obj[o].residency # "FETCHING"
         /\ Fetch(a) => /\ Fetchable(obj[o]) /\ obj[o].lease = 0 /\ Unrun(o) = {}
                        /\ leases[o][acts[a].lease].state = "IN_USE" /\ obj[o].unpublished = 1
                        /\ \A b \in DOMAIN acts : acts[b].obj = o /\ Open(b) => b = a
         /\ ~Fetch(a) => acts[a].lease = obj[o].lease /\ obj[o].spill
         /\ acts[a].kind = "EVICT" =>
              /\ leases[o][obj[o].lease].state = "RETIRE_PENDING"
              /\ leases[o][obj[o].lease].event = NoEvent
              /\ boundary.update # o
<1>1. Types /\ First(a) /\ a \in DOMAIN acts /\ Queued(a) /\ acts[a].state = "QUEUED" /\ acts[a].lease # 0
  BY DEF IInv, Flights, AtLane, First
<1>2. o \in Objects /\ acts[a] \in ActionRecord /\ a \in Nat
  BY <1>1, ActionTyped
<1>3. acts[a].kind \in {"FETCH", "EVICT", "WRITE_BACK"}
  BY <1>1, <1>2 DEF ActionRecord, AllKinds, Queued
<1>4. Open(a) /\ a \notin copied
  BY <1>1 DEF Open, IInv, Flights, Stages
<1>5. obj[o].residency # "FETCHING"
  <2> SUFFICES ASSUME obj[o].residency = "FETCHING" PROVE FALSE
    OBVIOUS
  <2>1. PICK f \in DOMAIN acts : acts[f].obj = o /\ acts[f].state = "IN_FLIGHT"
    BY <1>2 DEF IInv, Places, Located
  <2>2. First(f)
    BY <2>1 DEF IInv, Flights, Stages
  <2>3. f = a
    BY <1>1, <2>1, <2>2, OneFirst
  <2> QED BY <1>1, <2>1, <2>3
<1>6. CASE Fetch(a)
  <2>1. /\ Fetchable(obj[o]) /\ obj[o].lease = 0 /\ obj[o].version = worker.version
        /\ leases[o][acts[a].lease].state = "IN_USE"
    BY <1>6 DEF IInv, Flights, AtLane
  <2>2. Unrun(o) = {}
    <3> SUFFICES ASSUME NEW t \in Unrun(o) PROVE FALSE
      OBVIOUS
    <3>1. tasks[t].lease = 0
      BY <1>2, <2>1 DEF IInv, Uses, Users
    <3>2. DOMAIN tasks = 1 .. Len(tasks) /\ ran \in 0 .. Len(tasks) /\ Len(tasks) \in Nat
      BY <1>1 DEF Types
    <3>3. t \in DOMAIN tasks
      BY <3>2 DEF Unrun
    <3>4. tasks[t].lease \in 1 .. Len(leases[tasks[t].obj])
      BY <3>3 DEF IInv, Uses, Users
    <3> QED BY <3>1, <3>4
  <2>3. ASSUME NEW b \in DOMAIN acts, acts[b].obj = o, Open(b) PROVE b = a
    <3> SUFFICES ASSUME b # a PROVE FALSE
      OBVIOUS
    <3>1. b \in Nat
      BY <1>1, ActionTyped
    <3>2. Behind(a, b)
      BY <1>1, <1>2, <1>4, <2>3, <3>1 DEF First, Behind
    <3> QED BY <1>1, <1>6, <3>2 DEF IInv, Lists, Order, Waiting
  <2>4. Waiting(a) /\ obj[o].unpublished = 1
    BY <1>1, <1>2, <1>6 DEF Waiting, IInv, Lists, Unpublished
  <2>5. StillValid(a)
    BY <1>6, <2>1 DEF StillValid, Fetch, Fetchable
  <2> QED BY <1>1, <1>2, <1>3, <1>4, <1>5, <1>6, <2>1, <2>2, <2>3, <2>4, <2>5 DEF Fetch
<1>7. CASE ~Fetch(a)
  <2>1. acts[a].lease = obj[o].lease /\ obj[o].spill
    BY <1>7 DEF IInv, Flights, AtLane
  <2>2. CASE acts[a].kind = "EVICT"
    <3>1. Leaves(a) /\ ~acts[a].late
      BY <1>1, <2>2 DEF Leaves, IInv, Lists, Static
    <3>2. /\ leases[o][obj[o].lease].state = "RETIRE_PENDING"
          /\ leases[o][obj[o].lease].event = NoEvent
      <4>1. obj[o].lease # 0
        BY <1>1, <2>1
      <4>2. /\ leases[o][obj[o].lease].state = "RETIRE_PENDING"
            /\ leases[o][obj[o].lease].event =
                 IF acts[a].kind = "RELEASE" THEN << "task", acts[a].task >>
                 ELSE IF acts[a].state = "QUEUED" THEN NoEvent ELSE << "copy", a >>
        <5>1. \A b \in DOMAIN acts :
                acts[b].obj = o /\ Open(b) /\ Leaves(b) /\ ~acts[b].late =>
                  /\ leases[o][obj[o].lease].state = "RETIRE_PENDING"
                  /\ leases[o][obj[o].lease].event =
                       IF acts[b].kind = "RELEASE" THEN << "task", acts[b].task >>
                       ELSE IF acts[b].state = "QUEUED" THEN NoEvent ELSE << "copy", b >>
          BY <1>2, <4>1 DEF IInv, Places, LeaseStates
        <5> QED BY <1>1, <1>4, <3>1, <5>1
      <4> QED BY <1>1, <2>2, <4>2
    <3>3. boundary.update # o
      BY <1>1, <1>2, <1>4, <3>1 DEF IInv, Places, Updating, Leaving
    <3>4. StillValid(a)
      BY <2>1, <2>2, <3>2 DEF StillValid, Lease
    <3> QED BY <1>1, <1>2, <1>3, <1>4, <1>5, <1>7, <2>1, <3>2, <3>3, <3>4
  <2>3. CASE acts[a].kind # "EVICT"
    <3>1. StillValid(a)
      BY <1>3, <1>7, <2>1, <2>3 DEF StillValid, Fetch
    <3> QED BY <1>1, <1>2, <1>3, <1>4, <1>5, <1>7, <2>1, <2>3, <3>1
  <2> QED BY <2>2, <2>3, ZenonT(20)
<1> QED BY <1>6, <1>7, ZenonT(20)

\* The second half of a dispatch: the copy is on its lane.
LEMMA SubmitInv ==
  ASSUME IInv, Submit
  PROVE  IInv'
<1>1. Types /\ worker.at = "lane"
  BY DEF IInv, Submit
<1>2. PICK a : a = worker.action
  OBVIOUS
<1>3. PICK o : o = acts[a].obj
  OBVIOUS
<1> DEFINE evicts == acts[a].kind = "EVICT"
<1>4. /\ a \in DOMAIN acts /\ o \in Objects /\ First(a) /\ Open(a) /\ StillValid(a)
      /\ acts[a].kind \in {"FETCH", "EVICT", "WRITE_BACK"} /\ acts[a].state = "QUEUED"
      /\ acts[a].lease # 0 /\ Queued(a) /\ a \notin copied
      /\ obj[o].residency # "FETCHING"
      /\ Fetch(a) => /\ Fetchable(obj[o]) /\ obj[o].lease = 0 /\ Unrun(o) = {}
                     /\ leases[o][acts[a].lease].state = "IN_USE" /\ obj[o].unpublished = 1
                     /\ \A b \in DOMAIN acts : acts[b].obj = o /\ Open(b) => b = a
      /\ ~Fetch(a) => acts[a].lease = obj[o].lease /\ obj[o].spill
      /\ evicts =>
           /\ leases[o][obj[o].lease].state = "RETIRE_PENDING"
           /\ leases[o][obj[o].lease].event = NoEvent
           /\ boundary.update # o
  BY <1>1, <1>2, <1>3, StillValidAtLane, SMTT(20)
<1>5. acts[a] \in ActionRecord /\ a \in Nat /\ obj[o] \in ObjectRecord /\ leases[o] \in Seq(LeaseRecord)
  BY <1>1, <1>4, ActionTyped, ObjectTyped
<1>6. \A b \in DOMAIN acts : acts[b] \in ActionRecord /\ acts[b].obj \in Objects /\ b \in Nat
  BY <1>1, ActionTyped, SMTT(20)
<1>7. /\ lane' = [lane EXCEPT ![Route(a)] = Append(@, a)]
      /\ obj' = [obj EXCEPT ![o] = Dispatched(a)]
      /\ leases' = IF evicts THEN [leases EXCEPT ![o][acts[a].lease].event = << "copy", a >>] ELSE leases
      /\ acts' = [acts EXCEPT ![a].state = "IN_FLIGHT"]
      /\ worker' = Idle
      /\ UNCHANGED << failed, fifo, sequences, boundary, published, tasks, ran, copied, spilled, plan >>
  BY <1>2, <1>3, <1>4 DEF Submit
<1>8. /\ acts' \in Seq(ActionRecord) /\ Len(acts') = Len(acts) /\ DOMAIN acts' = DOMAIN acts
      /\ \A b \in DOMAIN acts : b # a => acts'[b] = acts[b]
      /\ acts'[a].state = "IN_FLIGHT"
      /\ \A b \in DOMAIN acts :
           /\ acts'[b].kind = acts[b].kind /\ acts'[b].obj = acts[b].obj
           /\ acts'[b].task = acts[b].task /\ acts'[b].version = acts[b].version
           /\ acts'[b].exec = acts[b].exec /\ acts'[b].spill = acts[b].spill
           /\ acts'[b].skips = acts[b].skips /\ acts'[b].late = acts[b].late
           /\ acts'[b].destination = acts[b].destination /\ acts'[b].lease = acts[b].lease
           /\ acts'[b].pred = acts[b].pred /\ acts'[b].waits = acts[b].waits
  <2> DEFINE old == acts[a]
             item == [old EXCEPT !.state = "IN_FLIGHT"]
  <2>1. acts' = [acts EXCEPT ![a] = item]
    BY <1>7
  <2>2. old \in ActionRecord
    BY <1>5
  <2> HIDE DEF old
  <2>3. /\ item \in ActionRecord /\ item.state = "IN_FLIGHT"
        /\ item.kind = old.kind /\ item.obj = old.obj
        /\ item.task = old.task /\ item.version = old.version
        /\ item.exec = old.exec /\ item.spill = old.spill
        /\ item.skips = old.skips /\ item.late = old.late
        /\ item.destination = old.destination /\ item.lease = old.lease
        /\ item.pred = old.pred /\ item.waits = old.waits
    BY <2>2 DEF ActionRecord, AllStates
  <2> HIDE DEF item
  <2>4. /\ acts'[a] = item /\ \A b \in DOMAIN acts : b # a => acts'[b] = acts[b]
        /\ DOMAIN acts' = DOMAIN acts /\ acts' \in Seq(ActionRecord) /\ Len(acts') = Len(acts)
    <3>1. acts \in Seq(ActionRecord)
      BY <1>1 DEF Types
    <3> QED BY <1>4, <2>1, <2>3, <3>1, Replaced
  <2> QED BY <2>3, <2>4 DEF old
<1>9. /\ obj' \in [Objects -> ObjectRecord]
      /\ \A p \in Objects : p # o => obj'[p] = obj[p]
      /\ \A p \in Objects : /\ obj'[p].version = obj[p].version /\ obj'[p].spill = obj[p].spill
                            /\ obj'[p].spillCurrent = obj[p].spillCurrent
                            /\ obj'[p].spillVersion = obj[p].spillVersion
      /\ Fetch(a) => /\ obj'[o].lease = acts[a].lease /\ obj'[o].execVersion = obj[o].spillVersion
                     /\ obj'[o].residency = "FETCHING" /\ obj'[o].readiness = a
                     /\ obj'[o].unpublished = 0
      /\ ~Fetch(a) => /\ obj'[o].lease = obj[o].lease /\ obj'[o].execVersion = obj[o].execVersion
                      /\ obj'[o].readiness = obj[o].readiness
                      /\ obj'[o].unpublished = obj[o].unpublished
                      /\ obj'[o].residency = IF evicts THEN "EVICTING" ELSE obj[o].residency
  <2> DEFINE old == obj[o]
             item == Dispatched(a)
  <2>1. old \in ObjectRecord /\ acts[a].lease \in Nat
    BY <1>5 DEF ActionRecord
  <2> HIDE DEF old
  <2>2. Fetch(a) =>
          /\ item \in ObjectRecord
          /\ item.version = old.version /\ item.spill = old.spill
          /\ item.spillCurrent = old.spillCurrent /\ item.spillVersion = old.spillVersion
          /\ item.lease = acts[a].lease /\ item.execVersion = old.spillVersion
          /\ item.residency = "FETCHING" /\ item.readiness = a /\ item.unpublished = 0
    <3> SUFFICES ASSUME Fetch(a)
                 PROVE  /\ item \in ObjectRecord
                        /\ item.version = old.version /\ item.spill = old.spill
                        /\ item.spillCurrent = old.spillCurrent /\ item.spillVersion = old.spillVersion
                        /\ item.lease = acts[a].lease /\ item.execVersion = old.spillVersion
                        /\ item.residency = "FETCHING" /\ item.readiness = a /\ item.unpublished = 0
      OBVIOUS
    <3>1. item = [old EXCEPT !.lease = acts[a].lease, !.execVersion = old.spillVersion,
                             !.residency = "FETCHING", !.readiness = a, !.unpublished = @ - 1]
      BY <1>3 DEF Dispatched, Fetch, old
    <3>2. old.unpublished = 1
      BY <1>4 DEF old
    <3> HIDE DEF item
    <3>3. item = [old EXCEPT !.lease = acts[a].lease, !.execVersion = old.spillVersion,
                             !.residency = "FETCHING", !.readiness = a, !.unpublished = 0]
      BY <3>1, <3>2
    <3>4. old.spillVersion \in Nat
      BY <2>1 DEF ObjectRecord
    <3> QED BY <1>5, <2>1, <3>3, <3>4 DEF ObjectRecord
  <2>3. evicts =>
          /\ item \in ObjectRecord
          /\ item.version = old.version /\ item.spill = old.spill
          /\ item.spillCurrent = old.spillCurrent /\ item.spillVersion = old.spillVersion
          /\ item.lease = old.lease /\ item.execVersion = old.execVersion
          /\ item.readiness = old.readiness /\ item.unpublished = old.unpublished
          /\ item.residency = "EVICTING"
    <3>1. evicts => item = [old EXCEPT !.residency = "EVICTING"]
      BY <1>3 DEF Dispatched, old
    <3> HIDE DEF item
    <3> QED BY <2>1, <3>1 DEF ObjectRecord
  <2>4. ~Fetch(a) /\ ~evicts => item = old
    BY <1>3 DEF Dispatched, Fetch, old
  <2>5. item \in ObjectRecord /\ (evicts => ~Fetch(a))
    BY <2>1, <2>2, <2>3, <2>4 DEF Fetch
  <2> HIDE DEF item
  <2>6. obj' \in [Objects -> ObjectRecord] /\ obj'[o] = item /\ \A p \in Objects : p # o => obj'[p] = obj[p]
    BY <1>1, <1>4, <1>7, <2>5 DEF Types, item
  <2> HIDE DEF evicts
  <2> QED BY <2>2, <2>3, <2>4, <2>5, <2>6 DEF old
<1>10. /\ leases' \in [Objects -> Seq(LeaseRecord)]
       /\ \A p \in Objects : Len(leases'[p]) = Len(leases[p]) /\ DOMAIN leases'[p] = DOMAIN leases[p]
       /\ ~evicts => leases' = leases
       /\ evicts => leases'[o][obj[o].lease].event = << "copy", a >>
       /\ \A p \in Objects : \A h \in DOMAIN leases[p] :
            /\ leases'[p][h].data = leases[p][h].data /\ leases'[p][h].state = leases[p][h].state
            /\ ~(evicts /\ p = o /\ h = obj[o].lease) => leases'[p][h] = leases[p][h]
  <2>1. CASE ~evicts
    BY <1>1, <1>7, <2>1 DEF Types
  <2>2. CASE evicts
    <3> DEFINE old == leases[o][obj[o].lease]
               item == [old EXCEPT !.event = << "copy", a >>]
               list == [leases[o] EXCEPT ![obj[o].lease] = item]
    <3>1. obj[o].lease \in DOMAIN leases[o] /\ acts[a].lease = obj[o].lease
      <4>1. acts[a].lease = obj[o].lease
        BY <1>4, <2>2 DEF Fetch
      <4>2. obj[o].lease \in 0 .. Len(leases[o])
        BY <1>4 DEF IInv, Places, Located
      <4> QED BY <1>4, <1>5, <4>1, <4>2
    <3>2. leases' = [leases EXCEPT ![o] = list]
      BY <1>7, <2>2, <3>1
    <3>3. old \in LeaseRecord
      BY <1>5, <3>1
    <3> HIDE DEF old
    <3>4. item \in LeaseRecord /\ item.event = << "copy", a >> /\ item.data = old.data /\ item.state = old.state
      BY <1>5, <3>3 DEF LeaseRecord, Events
    <3> HIDE DEF item
    <3>5. /\ list \in Seq(LeaseRecord) /\ Len(list) = Len(leases[o]) /\ DOMAIN list = DOMAIN leases[o]
          /\ list[obj[o].lease] = item
          /\ \A h \in DOMAIN leases[o] : h # obj[o].lease => list[h] = leases[o][h]
      BY <1>5, <3>1, <3>4, Replaced
    <3> HIDE DEF list
    <3>6. leases'[o] = list /\ (\A p \in Objects : p # o => leases'[p] = leases[p])
          /\ leases' \in [Objects -> Seq(LeaseRecord)]
      BY <1>1, <1>4, <3>2, <3>5 DEF Types
    <3>7. \A p \in Objects : Len(leases'[p]) = Len(leases[p]) /\ DOMAIN leases'[p] = DOMAIN leases[p]
      BY <3>5, <3>6
    <3>8. \A p \in Objects : \A h \in DOMAIN leases[p] :
            /\ leases'[p][h].data = leases[p][h].data /\ leases'[p][h].state = leases[p][h].state
            /\ ~(p = o /\ h = obj[o].lease) => leases'[p][h] = leases[p][h]
      BY <3>4, <3>5, <3>6 DEF old
    <3> QED BY <2>2, <3>4, <3>5, <3>6, <3>7, <3>8
  <2> QED BY <2>1, <2>2
<1> HIDE DEF evicts
<1>11. \A b \in DOMAIN acts :
         /\ (Open(b)' <=> Open(b)) /\ (Queued(b)' <=> Queued(b)) /\ (Copies(b)' <=> Copies(b))
         /\ (Fetch(b)' <=> Fetch(b)) /\ (Leaves(b)' <=> Leaves(b))
         /\ (Waiting(b)' <=> Waiting(b) /\ b # a)
         /\ (Triggered(b)' <=> Triggered(b))
  <2> SUFFICES ASSUME NEW b \in DOMAIN acts
               PROVE  /\ (Open(b)' <=> Open(b)) /\ (Queued(b)' <=> Queued(b)) /\ (Copies(b)' <=> Copies(b))
                      /\ (Fetch(b)' <=> Fetch(b)) /\ (Leaves(b)' <=> Leaves(b))
                      /\ (Waiting(b)' <=> Waiting(b) /\ b # a)
                      /\ (Triggered(b)' <=> Triggered(b))
    OBVIOUS
  <2>1. /\ (Queued(b)' <=> Queued(b)) /\ (Copies(b)' <=> Copies(b))
        /\ (Fetch(b)' <=> Fetch(b)) /\ (Leaves(b)' <=> Leaves(b)) /\ (Triggered(b)' <=> Triggered(b))
    BY <1>7, <1>8 DEF Queued, Copies, Fetch, Leaves, Triggered
  <2>2. CASE b = a
    BY <1>4, <1>8, <2>1, <2>2 DEF Open, Waiting
  <2>3. CASE b # a
    BY <1>8, <2>1, <2>3 DEF Open, Waiting
  <2> QED BY <2>1, <2>2, <2>3
<1>12. \A b, c \in DOMAIN acts : Behind(b, c)' <=> Behind(b, c)
  BY <1>8, <1>11 DEF Behind
<1>13. /\ \A b \in DOMAIN acts : First(b)' <=> First(b)
       /\ \A p \in Objects : Pending(p)' = Pending(p) /\ (Leaving(p)' <=> Leaving(p))
       /\ \A b : ~Done(b) /\ ~Done(b)' /\ ~InHand(b)' /\ (InHand(b) <=> b = a)
  <2>1. worker'.at = "idle"
    BY <1>7 DEF Idle
  <2>2. \A b \in DOMAIN acts : First(b)' <=> First(b)
    BY <1>8, <1>11, <1>12 DEF First
  <2>3. \A p \in Objects : Pending(p)' = Pending(p)
    BY <1>8, <1>11 DEF Pending
  <2>4. \A p \in Objects : (Leaving(p)' <=> Leaving(p))
    BY <1>8, <1>11 DEF Leaving
  <2> QED BY <1>1, <1>2, <2>1, <2>2, <2>3, <2>4 DEF Done, InHand
<1>14. \A p \in Objects : Unrun(p)' = Unrun(p) /\ Points(p)' = Points(p)
  BY <1>7 DEF Unrun, Points
<1>15. \A b \in DOMAIN acts : First(b) /\ acts[b].obj = o => b = a
  BY <1>1, <1>3, <1>4, OneFirst
<1>16. Types'
  <2>1. worker' \in [at : {"idle", "lane", "done"}, action : Nat, version : Nat]
    BY <1>7 DEF Idle
  <2>2. lane' \in [Routes -> Seq(Nat)]
    <3> DEFINE r == Route(a)
    <3>1. lane \in [Routes -> Seq(Nat)] /\ r \in Routes
      BY <1>1 DEF Types, Route, Routes
    <3>2. Append(lane[r], a) \in Seq(Nat)
      BY <1>5, <3>1
    <3>3. lane' = [lane EXCEPT ![r] = Append(lane[r], a)]
      BY <1>7
    <3> HIDE DEF r
    <3> QED BY <3>1, <3>2, <3>3
  <2> QED BY <1>1, <1>7, <1>8, <1>9, <1>10, <2>1, <2>2 DEF Types
<1>17. Listed' /\ Order'
  <2>1. Listed'
    BY <1>7, <1>8, <1>13 DEF IInv, Lists, Listed
  <2>2. Order'
    <3> SUFFICES ASSUME NEW b \in DOMAIN acts, NEW c \in DOMAIN acts, Behind(b, c)
                 PROVE  (/\ Leaves(b) => Fetch(c)
                         /\ Fetch(c) => /\ Waiting(c)
                                        /\ \E d \in DOMAIN acts : /\ acts[d].obj = acts[b].obj /\ Open(d) /\ Leaves(d)
                                                                  /\ b <= d /\ d < c
                         /\ ~Waiting(b)
                         /\ acts[b].version <= acts[c].version)'
      BY <1>8, <1>12 DEF Order
    <3>1. /\ Leaves(b) => Fetch(c)
          /\ Fetch(c) => /\ Waiting(c)
                         /\ \E d \in DOMAIN acts : /\ acts[d].obj = acts[b].obj /\ Open(d) /\ Leaves(d)
                                                   /\ b <= d /\ d < c
          /\ ~Waiting(b)
          /\ acts[b].version <= acts[c].version
      BY DEF IInv, Lists, Order
    <3>2. c # a
      BY <1>4 DEF First
    <3> QED BY <1>8, <1>11, <3>1, <3>2
  <2> QED BY <2>1, <2>2
<1>18. Static'
  BY <1>6, <1>7, <1>8, <1>10, <1>11 DEF IInv, Lists, Static
<1>19. Awaited' /\ Versions' /\ Unpublished'
  <2>1. Awaited'
    BY <1>6, <1>7, <1>8, <1>9, <1>11 DEF IInv, Lists, Awaited
  <2>2. Versions'
    BY <1>6, <1>7, <1>8, <1>9, <1>11 DEF IInv, Lists, Versions
  <2>3. Unpublished'
    <3> SUFFICES ASSUME NEW p \in Objects
                 PROVE  obj'[p].unpublished =
                          IF \E b \in DOMAIN acts' : acts'[b].obj = p /\ Waiting(b)' THEN 1 ELSE 0
      BY DEF Unpublished
    <3>1. obj[p].unpublished = IF \E b \in DOMAIN acts : acts[b].obj = p /\ Waiting(b) THEN 1 ELSE 0
      BY DEF IInv, Lists, Unpublished
    <3>2. CASE Fetch(a) /\ p = o
      <4>1. \A b \in DOMAIN acts : acts[b].obj = p => ~Waiting(b)'
        BY <1>4, <1>11, <3>2 DEF Waiting, Open
      <4> QED BY <1>8, <1>9, <3>2, <4>1
    <3>3. CASE ~(Fetch(a) /\ p = o)
      <4>1. obj'[p].unpublished = obj[p].unpublished
        BY <1>9, <3>3
      <4>2. \A b \in DOMAIN acts : acts[b].obj = p => (Waiting(b)' <=> Waiting(b))
        BY <1>3, <1>11, <3>3 DEF Waiting
      <4> QED BY <1>8, <3>1, <4>1, <4>2
    <3> QED BY <3>2, <3>3
  <2> QED BY <2>1, <2>2, <2>3
<1>20. Stages'
  <2> SUFFICES ASSUME NEW b \in DOMAIN acts
               PROVE  (/\ ~Open(b) /\ Queued(b) => b \in copied
                       /\ b \in copied => Queued(b) /\ acts[b].state # "QUEUED" /\ (~Fetch(b) => Triggered(b))
                       /\ acts[b].state = "IN_FLIGHT" =>
                            /\ Queued(b) /\ First(b) /\ acts[b].lease # 0
                            /\ ~Done(b) => acts[b].lease = obj[acts[b].obj].lease
                            /\ Copies(b) => obj[acts[b].obj].spill
                       /\ acts[b].state = "QUEUED" =>
                            /\ Fetch(b) /\ ~InHand(b) => acts[b].lease = 0 /\ acts[b].destination
                            /\ Copies(b) /\ acts[b].lease # 0 => acts[b].lease = obj[acts[b].obj].lease
                            /\ Copies(b) /\ ~acts[b].destination =>
                                 /\ obj[acts[b].obj].spill
                                 /\ acts[b].obj \in plan.retained \/ First(b))'
    BY <1>8 DEF Stages
  <2>1. /\ ~Open(b) /\ Queued(b) => b \in copied
        /\ b \in copied => Queued(b) /\ acts[b].state # "QUEUED" /\ (~Fetch(b) => Triggered(b))
        /\ acts[b].state = "IN_FLIGHT" =>
             /\ Queued(b) /\ First(b) /\ acts[b].lease # 0
             /\ acts[b].lease = obj[acts[b].obj].lease
             /\ Copies(b) => obj[acts[b].obj].spill
        /\ acts[b].state = "QUEUED" =>
             /\ Fetch(b) /\ b # a => acts[b].lease = 0 /\ acts[b].destination
             /\ Copies(b) /\ acts[b].lease # 0 => acts[b].lease = obj[acts[b].obj].lease
             /\ Copies(b) /\ ~acts[b].destination =>
                  /\ obj[acts[b].obj].spill
                  /\ acts[b].obj \in plan.retained \/ First(b)
    BY <1>13 DEF IInv, Flights, Stages
  <2>2. /\ (Open(b)' <=> Open(b)) /\ (Queued(b)' <=> Queued(b)) /\ (Copies(b)' <=> Copies(b))
        /\ (Fetch(b)' <=> Fetch(b)) /\ (Triggered(b)' <=> Triggered(b)) /\ (First(b)' <=> First(b))
        /\ ~Done(b)' /\ ~InHand(b)' /\ plan' = plan /\ copied' = copied
    BY <1>7, <1>11, <1>13
  <2>3. CASE b # a
    <3>1. acts'[b] = acts[b]
      BY <1>8, <2>3
    <3>2. CASE Fetch(a) /\ acts[b].obj = o
      <4>1. acts[b].state # "IN_FLIGHT"
        BY <1>15, <2>1, <2>3, <3>2
      <4>2. ~Open(b)
        BY <1>4, <2>3, <3>2
      <4> QED BY <2>1, <2>2, <3>1, <4>1, <4>2 DEF Open
    <3>3. CASE ~(Fetch(a) /\ acts[b].obj = o)
      <4>1. obj'[acts[b].obj].lease = obj[acts[b].obj].lease /\ obj'[acts[b].obj].spill = obj[acts[b].obj].spill
        BY <1>6, <1>9, <3>3
      <4> QED BY <2>1, <2>2, <2>3, <3>1, <4>1
    <3> QED BY <3>2, <3>3
  <2>4. CASE b = a
    <3>1. obj'[o].lease = acts[a].lease /\ acts'[a].lease = acts[a].lease /\ acts'[a].obj = o
      BY <1>3, <1>4, <1>8, <1>9
    <3>2. Copies(a) => obj'[o].spill
      BY <1>4, <1>9 DEF Copies, Fetch
    <3>3. acts'[a].state = "IN_FLIGHT" /\ a \notin copied /\ First(a) /\ Queued(a) /\ acts[a].lease # 0 /\ Open(a)
      BY <1>4, <1>8
    <3> QED BY <2>2, <2>4, <3>1, <3>2, <3>3
  <2> QED BY <2>3, <2>4
<1>21. OnLanes' /\ AtLane' /\ AtDone'
  <2>1. OnLanes'
    <3> SUFFICES ASSUME NEW r \in Routes, NEW i \in DOMAIN lane'[r]
                 PROVE  /\ lane'[r][i] \in DOMAIN acts
                        /\ lane'[r][i] \notin copied => acts'[lane'[r][i]].state = "IN_FLIGHT"
      BY <1>7, <1>8 DEF OnLanes
    <3>1. lane \in [Routes -> Seq(Nat)] /\ Route(a) \in Routes /\ lane[r] \in Seq(Nat)
      BY <1>1 DEF Types, Route, Routes
    <3>2. lane'[r] = IF r = Route(a) THEN Append(lane[r], a) ELSE lane[r]
      BY <1>7, <3>1
    <3>3. lane'[r][i] = a \/ (i \in DOMAIN lane[r] /\ lane'[r][i] = lane[r][i])
      BY <1>5, <3>1, <3>2
    <3>4. i \in DOMAIN lane[r] =>
            lane[r][i] \in DOMAIN acts /\ (lane[r][i] \notin copied => acts[lane[r][i]].state = "IN_FLIGHT")
      BY DEF IInv, Flights, OnLanes
    <3> QED BY <1>4, <1>8, <3>3, <3>4
  <2>2. worker'.at = "idle"
    BY <1>7 DEF Idle
  <2> QED BY <2>1, <2>2 DEF AtLane, AtDone
<1>22. Located'
  <2> SUFFICES ASSUME NEW p \in Objects
               PROVE  (/\ obj[p].lease \in 0 .. Len(leases[p])
                       /\ obj[p].lease = 0 <=> obj[p].residency \in {"SPILL_ONLY", "RELEASED"}
                       /\ obj[p].lease # 0 => obj[p].execVersion = obj[p].version
                       /\ obj[p].residency = "RELEASED" => ~obj[p].spillCurrent
                       /\ obj[p].spillCurrent => obj[p].spill
                       /\ obj[p].residency = "FETCHING" =>
                            LET f == obj[p].readiness IN
                            /\ f \in DOMAIN acts /\ acts[f].obj = p /\ Fetch(f)
                            /\ acts[f].state = "IN_FLIGHT" /\ ~Done(f)
                       /\ obj[p].residency = "EVICTING" => Leaving(p)
                       /\ \A b \in DOMAIN acts : acts[b].obj = p /\ First(b) =>
                            /\ obj[p].lease = 0 <=> Waiting(b) \/ (Leaves(b) /\ Done(b))
                            /\ Fetch(b) /\ acts[b].state = "IN_FLIGHT" /\ ~Done(b) =>
                                 obj[p].residency = "FETCHING" /\ obj[p].readiness = b)'
    BY DEF Located
  <2>1. /\ obj[p].lease \in 0 .. Len(leases[p])
        /\ obj[p].lease = 0 <=> obj[p].residency \in {"SPILL_ONLY", "RELEASED"}
        /\ obj[p].lease # 0 => obj[p].execVersion = obj[p].version
        /\ obj[p].residency = "RELEASED" => ~obj[p].spillCurrent
        /\ obj[p].spillCurrent => obj[p].spill
        /\ obj[p].residency = "EVICTING" => Leaving(p)
    BY DEF IInv, Places, Located
  <2>2. obj[p].residency = "FETCHING" =>
          LET f == obj[p].readiness IN
          /\ f \in DOMAIN acts /\ acts[f].obj = p /\ Fetch(f) /\ acts[f].state = "IN_FLIGHT"
    BY DEF IInv, Places, Located
  <2>3. \A b \in DOMAIN acts : acts[b].obj = p /\ First(b) =>
          /\ obj[p].lease = 0 <=> Waiting(b)
          /\ Fetch(b) /\ acts[b].state = "IN_FLIGHT" =>
               obj[p].residency = "FETCHING" /\ obj[p].readiness = b
    BY <1>13 DEF IInv, Places, Located
  <2>4. CASE p # o
    <3>1. obj'[p] = obj[p] /\ Len(leases'[p]) = Len(leases[p])
      BY <1>9, <1>10, <2>4
    <3>2. \A b \in DOMAIN acts : acts[b].obj = p => acts'[b] = acts[b] /\ b # a
      BY <1>3, <1>8, <2>4
    <3>3. obj[p].residency = "FETCHING" =>
            /\ obj[p].readiness \in DOMAIN acts' /\ acts'[obj[p].readiness].obj = p
            /\ Fetch(obj[p].readiness)' /\ acts'[obj[p].readiness].state = "IN_FLIGHT"
      <4> SUFFICES ASSUME obj[p].residency = "FETCHING"
                   PROVE  /\ obj[p].readiness \in DOMAIN acts' /\ acts'[obj[p].readiness].obj = p
                          /\ Fetch(obj[p].readiness)' /\ acts'[obj[p].readiness].state = "IN_FLIGHT"
        OBVIOUS
      <4>1. PICK f : f = obj[p].readiness
        OBVIOUS
      <4>2. f \in DOMAIN acts /\ acts[f].obj = p /\ Fetch(f) /\ acts[f].state = "IN_FLIGHT"
        BY <2>2, <4>1
      <4>3. Fetch(f)' /\ acts'[f] = acts[f]
        BY <1>11, <3>2, <4>2
      <4> QED BY <1>8, <3>1, <4>1, <4>2, <4>3
    <3>4. \A b \in DOMAIN acts' : acts'[b].obj = p /\ First(b)' =>
            /\ obj[p].lease = 0 <=> Waiting(b)'
            /\ Fetch(b)' /\ acts'[b].state = "IN_FLIGHT" =>
                 obj[p].residency = "FETCHING" /\ obj[p].readiness = b
      BY <1>8, <1>11, <1>13, <2>3, <3>2
    <3> QED BY <1>13, <2>1, <3>1, <3>3, <3>4
  <2>5. CASE p = o
    <3>1. \A b \in DOMAIN acts' : acts'[b].obj = o /\ First(b)' => b = a
      BY <1>8, <1>13, <1>15
    <3>2. /\ ~Waiting(a)' /\ (Fetch(a)' <=> Fetch(a)) /\ acts'[a].obj = o /\ a \in DOMAIN acts'
          /\ acts'[a].state = "IN_FLIGHT" /\ \A b : ~Done(b)'
      BY <1>3, <1>4, <1>8, <1>11, <1>13
    <3>3. CASE Fetch(a)
      <4>1. /\ obj'[o].lease = acts[a].lease /\ obj'[o].lease # 0
            /\ obj'[o].execVersion = obj'[o].version /\ obj'[o].residency = "FETCHING"
            /\ obj'[o].readiness = a /\ (obj'[o].spillCurrent => obj'[o].spill)
        BY <1>4, <1>9, <2>1, <2>5, <3>3 DEF Fetchable
      <4>2. obj'[o].lease \in 0 .. Len(leases'[o])
        BY <1>3, <1>4, <1>10, <4>1 DEF IInv, Lists, Static
      <4> QED BY <2>5, <3>1, <3>2, <3>3, <4>1, <4>2
    <3>4. CASE evicts
      <4>1. ~Fetch(a) /\ Leaves(a) /\ acts[a].lease # 0
        BY <1>4, <3>4 DEF Fetch, Leaves, evicts
      <4>2. /\ obj'[o].lease = obj[o].lease /\ obj'[o].lease # 0
            /\ obj'[o].execVersion = obj'[o].version /\ obj'[o].residency = "EVICTING"
            /\ (obj'[o].spillCurrent => obj'[o].spill)
        BY <1>4, <1>9, <2>1, <2>5, <3>4, <4>1
      <4>3. obj'[o].lease \in 0 .. Len(leases'[o])
        BY <1>10, <2>1, <2>5, <4>2
      <4>4. Leaving(o)'
        BY <1>4, <1>3, <1>13, <4>1 DEF Leaving
      <4> QED BY <2>5, <3>1, <3>2, <4>1, <4>2, <4>3, <4>4
    <3>5. CASE ~Fetch(a) /\ ~evicts
      <4>1. /\ obj'[o].lease = obj[o].lease /\ obj'[o].lease # 0
            /\ obj'[o].execVersion = obj[o].execVersion /\ obj'[o].version = obj[o].version
            /\ obj'[o].residency = obj[o].residency
            /\ obj'[o].spillCurrent = obj[o].spillCurrent /\ obj'[o].spill = obj[o].spill
            /\ Len(leases'[o]) = Len(leases[o])
        BY <1>4, <1>9, <1>10, <3>5
      <4>2. (Leaving(o)' <=> Leaving(o)) /\ obj[o].residency # "FETCHING"
        BY <1>4, <1>13
      <4>3. \A b \in DOMAIN acts' : acts'[b].obj = o /\ First(b)' => ~Waiting(b)' /\ ~Fetch(b)'
        BY <3>1, <3>2, <3>5
      <4> QED BY <2>1, <2>5, <3>2, <4>1, <4>2, <4>3
    <3> QED BY <3>3, <3>4, <3>5
  <2> QED BY <2>4, <2>5
<1>23. LeaseStates'
  <2> SUFFICES ASSUME NEW p \in Objects
               PROVE  (/\ \A g \in DOMAIN leases[p] :
                            /\ leases[p][g].state = "IN_USE" => leases[p][g].event = NoEvent
                            /\ g # obj[p].lease => leases[p][g].state = "FREE"
                       /\ obj[p].lease # 0 /\ ~(\E b \in DOMAIN acts : acts[b].obj = p /\ Open(b) /\ Leaves(b) /\ ~acts[b].late) =>
                            leases[p][obj[p].lease].state = "IN_USE"
                       /\ obj[p].lease # 0 => \A b \in DOMAIN acts :
                            acts[b].obj = p /\ Open(b) /\ Leaves(b) /\ ~acts[b].late =>
                              /\ leases[p][obj[p].lease].state = "RETIRE_PENDING"
                              /\ leases[p][obj[p].lease].event =
                                   IF acts[b].kind = "RELEASE" THEN << "task", acts[b].task >>
                                   ELSE IF acts[b].state = "QUEUED" THEN NoEvent ELSE << "copy", b >>)'
    BY DEF LeaseStates
  <2>1. /\ \A g \in DOMAIN leases[p] :
             /\ leases[p][g].state = "IN_USE" => leases[p][g].event = NoEvent
             /\ g # obj[p].lease => leases[p][g].state = "FREE" \/ (p = o /\ g = acts[a].lease)
        /\ obj[p].lease # 0 /\ ~(\E b \in DOMAIN acts : acts[b].obj = p /\ Open(b) /\ Leaves(b) /\ ~acts[b].late) =>
             leases[p][obj[p].lease].state = "IN_USE"
        /\ obj[p].lease # 0 => \A b \in DOMAIN acts :
             acts[b].obj = p /\ Open(b) /\ Leaves(b) /\ ~acts[b].late =>
               /\ leases[p][obj[p].lease].state = "RETIRE_PENDING"
               /\ leases[p][obj[p].lease].event =
                    IF acts[b].kind = "RELEASE" THEN << "task", acts[b].task >>
                    ELSE IF acts[b].state = "QUEUED" THEN NoEvent ELSE << "copy", b >>
    BY <1>2, <1>3 DEF IInv, Places, LeaseStates
  <2>2. obj[p].lease # 0 => obj[p].lease \in DOMAIN leases[p]
    BY <1>1, ObjectTyped DEF IInv, Places, Located
  <2>3. CASE Fetch(a) /\ p = o
    <3>1. leases' = leases /\ obj'[o].lease = acts[a].lease
      BY <1>4, <1>9, <1>10, <2>3 DEF evicts, Fetch
    <3>2. \A b \in DOMAIN acts' : acts'[b].obj = o /\ Open(b)' => ~Leaves(b)'
      BY <1>4, <1>8, <1>11, <2>3 DEF Leaves, Fetch
    <3>3. leases'[o][obj'[o].lease].state = "IN_USE"
      BY <1>4, <2>3, <3>1
    <3>4. ASSUME NEW g \in DOMAIN leases'[p]
          PROVE  /\ leases'[p][g].state = "IN_USE" => leases'[p][g].event = NoEvent
                 /\ g # obj'[p].lease => leases'[p][g].state = "FREE"
      <4>1. obj[p].lease = 0
        BY <1>4, <2>3
      <4>2. g \in DOMAIN leases[p] /\ g \in 1 .. Len(leases[p])
        BY <1>5, <2>3, <3>1
      <4> QED BY <2>1, <2>3, <3>1, <4>1, <4>2
    <3>5. \A b \in DOMAIN acts' :
            ~(acts'[b].obj = p /\ Open(b)' /\ Leaves(b)' /\ ~acts'[b].late)
      BY <2>3, <3>2
    <3>6. leases'[p][obj'[p].lease].state = "IN_USE"
      BY <2>3, <3>3
    <3> QED BY <3>4, <3>5, <3>6
  <2>4. CASE ~(Fetch(a) /\ p = o)
    <3>1. obj'[p].lease = obj[p].lease
      BY <1>9, <2>4
    <3>2. \A g \in DOMAIN leases[p] : g # obj[p].lease => leases[p][g].state = "FREE"
      BY <1>4, <2>1, <2>4
    <3>3. ASSUME NEW g \in DOMAIN leases'[p]
          PROVE  /\ leases'[p][g].state = "IN_USE" => leases'[p][g].event = NoEvent
                 /\ g # obj'[p].lease => leases'[p][g].state = "FREE"
      <4>1. g \in DOMAIN leases[p] /\ leases'[p][g].state = leases[p][g].state
        BY <1>10
      <4>2. CASE evicts /\ p = o /\ g = obj[o].lease
        BY <1>4, <3>1, <4>1, <4>2
      <4>3. CASE ~(evicts /\ p = o /\ g = obj[o].lease)
        BY <1>10, <2>1, <3>1, <3>2, <4>1, <4>3
      <4> QED BY <4>2, <4>3
    <3>4. obj[p].lease # 0 => leases'[p][obj'[p].lease].state = leases[p][obj[p].lease].state
      BY <1>10, <2>2, <3>1
    <3>5. obj'[p].lease # 0 /\ ~(\E b \in DOMAIN acts' : acts'[b].obj = p /\ Open(b)' /\ Leaves(b)' /\ ~acts'[b].late) =>
            leases'[p][obj'[p].lease].state = "IN_USE"
      BY <1>8, <1>11, <2>1, <3>1, <3>4
    <3>6. ASSUME obj[p].lease # 0, NEW b \in DOMAIN acts, acts[b].obj = p, Open(b), Leaves(b), ~acts[b].late
          PROVE  leases'[p][obj[p].lease].event =
                   IF acts[b].kind = "RELEASE" THEN << "task", acts[b].task >>
                   ELSE IF acts'[b].state = "QUEUED" THEN NoEvent ELSE << "copy", b >>
      <4>1. leases[p][obj[p].lease].event =
                   IF acts[b].kind = "RELEASE" THEN << "task", acts[b].task >>
                   ELSE IF acts[b].state = "QUEUED" THEN NoEvent ELSE << "copy", b >>
        BY <2>1, <3>6
      <4>2. CASE evicts /\ p = o
        <5>1. b = a
          <6> SUFFICES ASSUME b # a PROVE FALSE
            OBVIOUS
          <6>1. Behind(a, b)
            <7>1. b \in Nat /\ ~Behind(b, a)
              BY <1>4, <1>6 DEF First
            <7> QED BY <1>3, <1>4, <1>5, <3>6, <4>2, <7>1 DEF Behind
          <6>2. Leaves(a)
            BY <4>2 DEF evicts, Leaves
          <6>3. Fetch(b)
            BY <1>4, <6>1, <6>2 DEF IInv, Lists, Order
          <6> QED BY <3>6, <6>3 DEF Leaves, Fetch
        <5> QED BY <1>8, <1>10, <4>2, <5>1 DEF evicts
      <4>3. CASE ~(evicts /\ p = o)
        <5>1. leases'[p][obj[p].lease] = leases[p][obj[p].lease]
          BY <1>10, <2>2, <3>6, <4>3
        <5>2. b # a
          BY <1>3, <1>4, <3>6, <4>3 DEF evicts, Leaves
        <5> QED BY <1>8, <4>1, <5>1, <5>2
      <4> QED BY <4>2, <4>3
    <3>7. obj'[p].lease # 0 => \A b \in DOMAIN acts' :
            acts'[b].obj = p /\ Open(b)' /\ Leaves(b)' /\ ~acts'[b].late =>
              /\ leases'[p][obj'[p].lease].state = "RETIRE_PENDING"
              /\ leases'[p][obj'[p].lease].event =
                   IF acts'[b].kind = "RELEASE" THEN << "task", acts'[b].task >>
                   ELSE IF acts'[b].state = "QUEUED" THEN NoEvent ELSE << "copy", b >>
      BY <1>8, <1>11, <2>1, <3>1, <3>4, <3>6
    <3> QED BY <3>3, <3>5, <3>7
  <2> QED BY <2>3, <2>4
<1>24. Updating'
  <2> SUFFICES ASSUME NEW p \in Objects, boundary'.update = p
               PROVE  boundary'.at = "task" /\ obj'[p].residency \in OnDevice /\ ~Leaving(p)'
    BY DEF Updating
  <2>1. boundary.update = p /\ boundary.at = "task" /\ obj[p].residency \in OnDevice /\ ~Leaving(p)
    BY <1>7 DEF IInv, Places, Updating
  <2>2. obj'[p].residency \in OnDevice
    BY <1>4, <1>9, <2>1 DEF OnDevice
  <2> QED BY <1>7, <1>13, <2>1, <2>2
<1>25. Users'
  <2>1. \A t \in DOMAIN tasks : tasks[t].lease \in 1 .. Len(leases'[tasks[t].obj])
    <3> SUFFICES ASSUME NEW t \in DOMAIN tasks PROVE tasks[t].lease \in 1 .. Len(leases'[tasks[t].obj])
      OBVIOUS
    <3>1. tasks[t].obj \in Objects
      BY <1>1, TaskTyped
    <3>2. tasks[t].lease \in 1 .. Len(leases[tasks[t].obj])
      BY DEF IInv, Uses, Users
    <3> QED BY <1>10, <3>1, <3>2
  <2>2. \A p \in Objects : \A t \in Unrun(p) : tasks[t].lease = obj'[p].lease
    <3> SUFFICES ASSUME NEW p \in Objects, NEW t \in Unrun(p) PROVE tasks[t].lease = obj'[p].lease
      OBVIOUS
    <3>1. tasks[t].lease = obj[p].lease
      BY DEF IInv, Uses, Users
    <3> QED BY <1>4, <1>9, <3>1
  <2>3. ASSUME NEW b \in DOMAIN acts, b \notin copied, acts'[b].lease # 0
        PROVE  acts'[b].lease = obj'[acts'[b].obj].lease
    <3>1. CASE b = a
      BY <1>3, <1>4, <1>8, <1>9, <3>1
    <3>2. CASE b # a
      <4>1. acts[b].lease = obj[acts[b].obj].lease /\ acts[b].lease # 0
        BY <1>8, <1>13, <2>3, <3>2 DEF IInv, Uses, Users
      <4>2. obj'[acts[b].obj].lease = obj[acts[b].obj].lease
        BY <1>4, <1>6, <1>9, <4>1
      <4> QED BY <1>8, <3>2, <4>1, <4>2
    <3> QED BY <3>1, <3>2
  <2>4. \A t \in 1 .. ran : tasks[t].waits \subseteq copied
    BY DEF IInv, Uses, Users
  <2> QED BY <1>7, <1>8, <1>14, <2>1, <2>2, <2>3, <2>4 DEF Users
<1>26. Waits' /\ Releases'
  <2>1. Waits'
    <3> SUFFICES ASSUME NEW b \in DOMAIN acts, NEW t \in DOMAIN tasks,
                        b \notin copied, Fetch(b), tasks[t].obj = acts[b].obj, Open(b)
                 PROVE  /\ t > acts[b].task => b \in tasks[t].waits
                        /\ acts'[b].state = "IN_FLIGHT" /\ t > ran => b \in tasks[t].waits
      BY <1>7, <1>8, <1>11 DEF Waits
    <3>1. /\ t > acts[b].task => b \in tasks[t].waits
          /\ acts[b].state = "IN_FLIGHT" /\ t > ran => b \in tasks[t].waits
      BY DEF IInv, Uses, Waits
    <3>2. CASE b = a
      <4>1. Unrun(o) = {}
        BY <1>4, <3>2
      <4>2. t \in Nat /\ t <= Len(tasks) /\ ran \in Nat /\ Len(tasks) \in Nat
        BY <1>1, TaskTyped DEF Types
      <4>3. ~(t > ran)
        BY <1>3, <3>2, <4>1, <4>2 DEF Unrun
      <4> QED BY <3>1, <4>3
    <3>3. CASE b # a
      BY <1>8, <3>1, <3>3
    <3> QED BY <3>2, <3>3
  <2>2. Releases'
    BY <1>7, <1>8, <1>11, <1>12 DEF IInv, Uses, Releases
  <2> QED BY <2>1, <2>2
<1>27. Worth'
  <2>1. \A p \in Objects : \A b \in DOMAIN acts : Refreshed(p, b) => Refreshed(p, b)'
    <3> SUFFICES ASSUME NEW p \in Objects, NEW b \in DOMAIN acts, Refreshed(p, b)
                 PROVE  Refreshed(p, b)'
      OBVIOUS
    <3>1. CASE Current(p) /\ (p \notin plan.retained => \A c \in DOMAIN acts : Fetch(c) => ~Behind(c, b))
      <4>1. Current(p)'
        BY <1>9, <3>1 DEF Current
      <4>2. p \notin plan'.retained => \A c \in DOMAIN acts' : Fetch(c)' => ~Behind(c, b)'
        BY <1>7, <1>8, <1>11, <1>12, <3>1
      <4> QED BY <4>1, <4>2 DEF Refreshed
    <3>2. CASE \E c \in DOMAIN acts : Behind(c, b) /\ Copies(c) /\ acts[c].version = obj[p].version
      <4>1. \E c \in DOMAIN acts' : Behind(c, b)' /\ Copies(c)' /\ acts'[c].version = obj'[p].version
        BY <1>8, <1>9, <1>11, <1>12, <3>2
      <4> QED BY <4>1 DEF Refreshed
    <3> QED BY <3>1, <3>2 DEF Refreshed
  <2> SUFFICES ASSUME NEW b \in DOMAIN acts', Open(b)', NEW p \in Objects, p = acts'[b].obj
               PROVE  (/\ obj[p].spillCurrent /\ obj[p].spillVersion = obj[p].version =>
                            acts[b].version = obj[p].version
                       /\ /\ acts[b].version = obj[p].version /\ (acts[b].spill \/ Waiting(b)) /\ ~Copies(b)
                          => Refreshed(p, b) \/ (Fetch(b) /\ ~Waiting(b) /\ p \notin plan.retained)
                       /\ Copies(b) /\ b \in copied /\ acts[b].version = obj[p].version /\ boundary.update # p =>
                            spilled[p] = obj[p].version)'
    BY <1>6, <1>8 DEF Worth
  <2>2. b \in DOMAIN acts /\ Open(b) /\ p = acts[b].obj
    BY <1>8, <1>11
  <2>3. /\ obj[p].spillCurrent /\ obj[p].spillVersion = obj[p].version =>
             acts[b].version = obj[p].version
        /\ /\ acts[b].version = obj[p].version /\ (acts[b].spill \/ Waiting(b)) /\ ~Copies(b)
           => Refreshed(p, b) \/ (Fetch(b) /\ ~Waiting(b) /\ p \notin plan.retained)
        /\ Copies(b) /\ b \in copied /\ acts[b].version = obj[p].version /\ boundary.update # p =>
             spilled[p] = obj[p].version
    BY <2>2 DEF IInv, Values, Worth
  <2>4. /\ acts'[b].version = acts[b].version /\ acts'[b].spill = acts[b].spill
        /\ obj'[p].version = obj[p].version /\ obj'[p].spillCurrent = obj[p].spillCurrent
        /\ obj'[p].spillVersion = obj[p].spillVersion
        /\ (Copies(b)' <=> Copies(b)) /\ (Fetch(b)' <=> Fetch(b)) /\ (Waiting(b)' => Waiting(b))
        /\ copied' = copied /\ boundary' = boundary /\ spilled' = spilled /\ plan' = plan
    BY <1>7, <1>8, <1>9, <1>11, <2>2
  <2>5. Waiting(b)' \/ ~Waiting(b) \/ Refreshed(p, b) \/ acts[b].version # obj[p].version
    BY <2>3 DEF Waiting, Fetch, Copies
  <2> QED BY <2>1, <2>2, <2>3, <2>4, <2>5
<1>28. \A p \in Objects : p # o \/ ~Fetch(a) =>
         /\ obj'[p].lease = obj[p].lease
         /\ obj[p].lease # 0 =>
              /\ Held(p)' = Held(p)
              /\ \A s : Expected(p, s)' = Expected(p, s)
              /\ \A r \in Points(p) : After(p, r)' = After(p, r)
         /\ Upcoming(p)' = Upcoming(p)
  <2> SUFFICES ASSUME NEW p \in Objects, p # o \/ ~Fetch(a)
               PROVE  /\ obj'[p].lease = obj[p].lease
                      /\ obj[p].lease # 0 =>
                           /\ Held(p)' = Held(p)
                           /\ \A s : Expected(p, s)' = Expected(p, s)
                           /\ \A r \in Points(p) : After(p, r)' = After(p, r)
                      /\ Upcoming(p)' = Upcoming(p)
    OBVIOUS
  <2>1. obj'[p].lease = obj[p].lease /\ obj'[p].readiness = obj[p].readiness /\ obj'[p].version = obj[p].version
    BY <1>9
  <2>2. obj'[p].residency = "FETCHING" <=> obj[p].residency = "FETCHING"
    BY <1>4, <1>9
  <2>3. Loading(p)' <=> Loading(p)
    BY <1>7, <2>1, <2>2 DEF Loading
  <2>4. Upcoming(p)' = Upcoming(p) /\ \A s : Expected(p, s)' = Expected(p, s)
    BY <1>7, <2>1 DEF Upcoming, Expected
  <2>5. ASSUME obj[p].lease # 0 PROVE Held(p)' = Held(p)
    <3>1. obj[p].lease \in DOMAIN leases[p]
      BY <1>1, <2>5, ObjectTyped DEF IInv, Places, Located
    <3>2. leases'[p][obj'[p].lease].data = leases[p][obj[p].lease].data
      BY <1>10, <2>1, <3>1
    <3> QED BY <1>7, <2>3, <3>2 DEF Held
  <2> QED BY <1>7, <2>1, <2>4, <2>5 DEF After
<1>29. Fetch(a) =>
         /\ Points(o)' = {ran} /\ Unrun(o)' = {}
         /\ After(o, ran)' = obj[o].version /\ Upcoming(o)' = obj[o].version
         /\ Expected(o, Len(tasks) + 1)' = obj[o].version
  <2> SUFFICES ASSUME Fetch(a)
               PROVE  /\ Points(o)' = {ran} /\ Unrun(o)' = {}
                      /\ After(o, ran)' = obj[o].version /\ Upcoming(o)' = obj[o].version
                      /\ Expected(o, Len(tasks) + 1)' = obj[o].version
    OBVIOUS
  <2>1. Unrun(o)' = {} /\ Points(o)' = {ran}
    BY <1>4, <1>7 DEF Unrun, Points
  <2>2. boundary.update # o
    BY <1>4 DEF IInv, Places, Updating, Fetchable, OnDevice
  <2>3. spilled[o] = obj[o].version
    BY <1>4, <2>2 DEF Fetchable, IInv, Values, SpillCopyTrue
  <2>4. Loading(o)'
    BY <1>4, <1>7, <1>9 DEF Loading
  <2>5. Held(o)' = obj[o].version
    BY <1>7, <2>3, <2>4 DEF Held
  <2>6. Upcoming(o)' = obj[o].version
    BY <1>4, <1>7, <1>9, <2>2 DEF Upcoming
  <2>7. Len(tasks) + 1 \notin DOMAIN tasks
    BY <1>1 DEF Types
  <2>8. Expected(o, Len(tasks) + 1)' = obj[o].version
    BY <1>7, <2>6, <2>7 DEF Expected
  <2>9. After(o, ran)' = Held(o)'
    BY <1>7 DEF After
  <2> QED BY <2>1, <2>5, <2>6, <2>8, <2>9
<1>30. obj[o].version \in Nat /\ tasks' = tasks
  BY <1>5, <1>7 DEF ObjectRecord
<1>31. Chained'
  <2> SUFFICES ASSUME NEW p \in Objects, obj'[p].lease # 0,
                      NEW r \in Points(p)', NEW s \in Unrun(p)' \cup {Len(tasks) + 1},
                      r < s, \A u \in Unrun(p)' : ~(r < u /\ u < s)
               PROVE  Expected(p, s)' = After(p, r)'
    BY <1>30 DEF Chained
  <2>1. CASE p = o /\ Fetch(a)
    <3>1. s = Len(tasks) + 1 /\ r = ran
      BY <1>29, <2>1
    <3>2. Expected(p, s)' = Expected(o, Len(tasks) + 1)' /\ After(p, r)' = After(o, ran)'
      BY <1>7, <2>1, <3>1
    <3> QED BY <1>29, <2>1, <3>2
  <2>2. CASE p # o \/ ~Fetch(a)
    <3>1. Expected(p, s) = After(p, r)
      BY <1>14, <1>28, <2>2 DEF IInv, Values, Chained
    <3> QED BY <1>14, <1>28, <2>2, <3>1
  <2> QED BY <2>1, <2>2
<1>32. Bounded'
  <2> SUFFICES ASSUME NEW p \in Objects, obj'[p].lease # 0, NEW r \in Points(p)'
               PROVE  After(p, r)' <= Upcoming(p)'
    BY DEF Bounded
  <2>1. CASE p = o /\ Fetch(a)
    <3>1. r = ran
      BY <1>29, <2>1
    <3>2. After(p, r)' = After(o, ran)' /\ Upcoming(p)' = Upcoming(o)'
      BY <1>7, <2>1, <3>1
    <3> QED BY <1>29, <1>30, <2>1, <3>2
  <2>2. CASE p # o \/ ~Fetch(a)
    <3>1. After(p, r) <= Upcoming(p)
      BY <1>14, <1>28, <2>2 DEF IInv, Values, Bounded
    <3> QED BY <1>14, <1>28, <2>2, <3>1
  <2> QED BY <2>1, <2>2
<1>33. Reached'
  <2> SUFFICES ASSUME NEW b \in DOMAIN acts, Open(b)', Copies(b)', NEW p \in Objects, p = acts'[b].obj,
                      obj'[p].lease # 0, NEW r \in Points(p)',
                      \A u \in Unrun(p)' : ~(r < u /\ u <= acts'[b].task)
               PROVE  acts'[b].version <= After(p, r)'
    BY <1>6, <1>8 DEF Reached
  <2>1. /\ Open(b) /\ Copies(b) /\ p = acts[b].obj
        /\ r \in Points(p) /\ \A u \in Unrun(p) : ~(r < u /\ u <= acts[b].task)
    BY <1>8, <1>11, <1>14
  <2>2. p # o \/ ~Fetch(a)
    BY <1>4, <2>1 DEF Copies, Fetch
  <2>3. obj[p].lease # 0
    BY <1>28, <2>2
  <2>4. acts[b].version <= After(p, r)
    BY <2>1, <2>3 DEF IInv, Values, Reached
  <2>5. After(p, r)' = After(p, r)
    BY <1>28, <2>1, <2>2, <2>3
  <2>6. acts'[b].version = acts[b].version
    BY <1>8
  <2> QED BY <2>4, <2>5, <2>6
<1>34. SpillCopyTrue' /\ TasksReadCurrent' /\ PlanNeverFails'
  <2>1. SpillCopyTrue'
    BY <1>7, <1>9 DEF IInv, Values, SpillCopyTrue
  <2> QED BY <1>7, <2>1 DEF IInv, Values, TasksReadCurrent, PlanNeverFails
<1>35. \A event : Complete(event)' <=> Complete(event)
  BY <1>7 DEF Complete
<1>36. Reused'
  <2> SUFFICES ASSUME NEW b \in DOMAIN acts, acts[b].pred # NoRange, NEW range, range = acts[b].pred
               PROVE  (/\ Fetch(b) /\ range[1] \in Objects
                       /\ range[2] \in DOMAIN leases[range[1]] /\ Lease(range).state # "IN_USE"
                       /\ acts[b].lease # 0 =>
                            Lease(range).state = "FREE" \/ (acts[b].waits = Lease(range).event /\ acts[b].waits # NoEvent)
                       /\ b \in copied => Lease(range).state = "FREE" \/ Complete(Lease(range).event))'
    BY <1>8 DEF Reused
  <2>1. /\ Fetch(b) /\ range[1] \in Objects
        /\ range[2] \in DOMAIN leases[range[1]] /\ Lease(range).state # "IN_USE"
        /\ acts[b].lease # 0 =>
             Lease(range).state = "FREE" \/ (acts[b].waits = Lease(range).event /\ acts[b].waits # NoEvent)
        /\ b \in copied => Lease(range).state = "FREE" \/ Complete(Lease(range).event)
    BY DEF IInv, Reused
  <2>2. Lease(range)'.state = Lease(range).state /\ range[2] \in DOMAIN leases'[range[1]]
    BY <1>10, <2>1 DEF Lease
  <2>3. Fetch(b)' /\ acts'[b].lease = acts[b].lease /\ acts'[b].waits = acts[b].waits
    BY <1>8, <1>11, <2>1
  <2>4. CASE evicts /\ range[1] = o /\ range[2] = obj[o].lease
    <3>1. Lease(range).event = NoEvent /\ Lease(range).state = "RETIRE_PENDING"
      BY <1>4, <2>4 DEF Lease
    <3>2. ~Complete(NoEvent)
      BY DEF Complete, NoEvent
    <3>3. acts[b].lease = 0 /\ b \notin copied
      BY <2>1, <3>1, <3>2
    <3> QED BY <1>7, <2>1, <2>2, <2>3, <3>3
  <2>5. CASE ~(evicts /\ range[1] = o /\ range[2] = obj[o].lease)
    <3>1. Lease(range)' = Lease(range)
      BY <1>10, <2>1, <2>5 DEF Lease
    <3> QED BY <1>7, <1>35, <2>1, <2>2, <2>3, <3>1
  <2> QED BY <2>4, <2>5
<1>37. Committed'
  BY <1>7 DEF Committed, Idle
<1> QED BY <1>37, <1>16, <1>17, <1>18, <1>19, <1>20, <1>21, <1>22, <1>23, <1>24, <1>25, <1>26, <1>27, <1>31, <1>32,
           <1>33, <1>34, <1>36 DEF IInv, Lists, Flights, Places, Uses, Values

-----------------------------------------------------------------------------
(* The worker commits a copy that has run.                                 *)

\* The commit of a fetch or of a write-back: the object keeps its range.
LEMMA Stays ==
  ASSUME IInv, NEW a, First(a), ~Leaves(a), acts[a].state = "IN_FLIGHT", a \in copied,
         NEW o \in Objects, o = acts[a].obj, worker.at = "idle",
         obj' = [obj EXCEPT ![o] = obj'[o]], obj'[o] \in ObjectRecord,
         obj'[o].lease = obj[o].lease, obj'[o].execVersion = obj[o].execVersion,
         obj'[o].version = obj[o].version, obj'[o].unpublished = obj[o].unpublished,
         obj'[o].residency = IF Fetch(a) THEN "EXECUTION_READY" ELSE obj[o].residency,
         ~Fetch(a) => obj'[o].readiness = obj[o].readiness,
         obj'[o].spillCurrent => obj'[o].spill,
         ~Fetch(a) \/ o \in plan.retained => obj'[o].spill = obj[o].spill,
         worker' = [at |-> "done", action |-> a, version |-> 0],
         UNCHANGED << leases, acts, fifo, sequences, boundary, published, failed, device >>
  PROVE  /\ Types' /\ Lists' /\ Flights' /\ Places' /\ Uses' /\ Reused' /\ PlanNeverFails'
         /\ Chained' /\ Bounded' /\ Reached' /\ TasksReadCurrent'
<1> USE DEF device
<1>1. Types /\ a \in DOMAIN acts /\ Open(a) /\ a \in Nat
  BY ActionTyped DEF IInv, First
<1>2. \A b \in DOMAIN acts : acts[b] \in ActionRecord /\ acts[b].obj \in Objects /\ b \in Nat
  BY <1>1, ActionTyped
<1>3. /\ \A p \in Objects : p # o => obj'[p] = obj[p]
      /\ obj' \in [Objects -> ObjectRecord]
      /\ \A p \in Objects : /\ obj'[p].lease = obj[p].lease /\ obj'[p].execVersion = obj[p].execVersion
                            /\ obj'[p].version = obj[p].version /\ obj'[p].unpublished = obj[p].unpublished
  BY <1>1 DEF Types
<1>4. worker'.at = "done" /\ worker'.action = a
  OBVIOUS
<1>5. /\ \A b, c : Behind(b, c)' <=> Behind(b, c)
      /\ \A b : /\ (Open(b)' <=> Open(b)) /\ (Queued(b)' <=> Queued(b)) /\ (Copies(b)' <=> Copies(b))
                /\ (Fetch(b)' <=> Fetch(b)) /\ (Leaves(b)' <=> Leaves(b)) /\ (Waiting(b)' <=> Waiting(b))
                /\ (Triggered(b)' <=> Triggered(b)) /\ (First(b)' <=> First(b))
                /\ ~InHand(b) /\ ~InHand(b)' /\ ~Done(b) /\ (Done(b)' <=> b = a)
      /\ \A p : (Leaving(p)' <=> Leaving(p)) /\ Pending(p)' = Pending(p) /\ Unrun(p)' = Unrun(p)
                /\ Points(p)' = Points(p)
  BY <1>4 DEF Behind, Open, Queued, Copies, Fetch, Leaves, Waiting, Triggered, First, InHand, Done, Leaving,
     Pending, Unrun, Points
<1>6. \A b \in DOMAIN acts : First(b) /\ acts[b].obj = o => b = a
  BY <1>1, OneFirst
<1>7. Queued(a) /\ ~Waiting(a)
  BY <1>1 DEF IInv, Flights, Stages, Waiting
<1>8. obj[o].lease # 0
  BY <1>1, <1>5, <1>7 DEF IInv, Places, Located
<1>9. Fetch(a) => obj[o].residency = "FETCHING" /\ obj[o].readiness = a
  BY <1>1, <1>5 DEF IInv, Places, Located
<1>10. Types'
  <2>1. worker' \in [at : {"idle", "lane", "done"}, action : Nat, version : Nat]
    BY <1>1
  <2> QED BY <1>1, <1>3, <2>1 DEF Types
<1>11. Lists'
  <2>1. Listed' /\ Order'
    BY <1>5 DEF IInv, Lists, Listed, Order
  <2>2. Static'
    BY <1>5 DEF IInv, Lists, Static
  <2>3. Awaited' /\ Versions'
    BY <1>2, <1>3, <1>5 DEF IInv, Lists, Awaited, Versions
  <2>4. Unpublished'
    BY <1>3, <1>5 DEF IInv, Lists, Unpublished
  <2> QED BY <2>1, <2>2, <2>3, <2>4 DEF Lists
<1>12. Stages'
  <2> SUFFICES ASSUME NEW b \in DOMAIN acts
               PROVE  (/\ ~Open(b) /\ Queued(b) => b \in copied
                       /\ b \in copied => Queued(b) /\ acts[b].state # "QUEUED" /\ (~Fetch(b) => Triggered(b))
                       /\ acts[b].state = "IN_FLIGHT" =>
                            /\ Queued(b) /\ First(b) /\ acts[b].lease # 0
                            /\ ~Done(b) => acts[b].lease = obj[acts[b].obj].lease
                            /\ Copies(b) => obj[acts[b].obj].spill
                       /\ acts[b].state = "QUEUED" =>
                            /\ Fetch(b) /\ ~InHand(b) => acts[b].lease = 0 /\ acts[b].destination
                            /\ Copies(b) /\ acts[b].lease # 0 => acts[b].lease = obj[acts[b].obj].lease
                            /\ Copies(b) /\ ~acts[b].destination =>
                                 /\ obj[acts[b].obj].spill
                                 /\ acts[b].obj \in plan.retained \/ First(b))'
    BY DEF Stages
  <2>1. /\ ~Open(b) /\ Queued(b) => b \in copied
        /\ b \in copied => Queued(b) /\ acts[b].state # "QUEUED" /\ (~Fetch(b) => Triggered(b))
        /\ acts[b].state = "IN_FLIGHT" =>
             /\ Queued(b) /\ First(b) /\ acts[b].lease # 0
             /\ acts[b].lease = obj[acts[b].obj].lease
             /\ Copies(b) => obj[acts[b].obj].spill
        /\ acts[b].state = "QUEUED" =>
             /\ Fetch(b) => acts[b].lease = 0 /\ acts[b].destination
             /\ Copies(b) /\ acts[b].lease # 0 => acts[b].lease = obj[acts[b].obj].lease
             /\ Copies(b) /\ ~acts[b].destination =>
                  /\ obj[acts[b].obj].spill
                  /\ acts[b].obj \in plan.retained \/ First(b)
    BY <1>5 DEF IInv, Flights, Stages
  <2>2. obj'[acts[b].obj].lease = obj[acts[b].obj].lease
    BY <1>2, <1>3
  <2>3. Copies(b) /\ acts[b].state = "IN_FLIGHT" => obj'[acts[b].obj].spill
    <3>1. CASE acts[b].obj # o
      BY <1>2, <1>3, <2>1, <3>1
    <3>2. CASE acts[b].obj = o
      BY <1>6, <2>1, <3>2 DEF Copies, Fetch
    <3> QED BY <3>1, <3>2
  <2>4. Copies(b) /\ acts[b].state = "QUEUED" /\ ~acts[b].destination => obj'[acts[b].obj].spill
    <3>1. CASE acts[b].obj # o
      BY <1>2, <1>3, <2>1, <3>1
    <3>2. CASE acts[b].obj = o
      BY <1>6, <2>1, <3>2
    <3> QED BY <3>1, <3>2
  <2> QED BY <1>5, <2>1, <2>2, <2>3, <2>4
<1>13. OnLanes' /\ AtLane' /\ AtDone'
  <2>1. OnLanes'
    BY DEF IInv, Flights, OnLanes
  <2>2. AtDone'
    BY <1>4, <1>5, <1>7 DEF AtDone
  <2> QED BY <1>4, <2>1, <2>2 DEF AtLane
<1>14. Located'
  <2> SUFFICES ASSUME NEW p \in Objects
               PROVE  (/\ obj[p].lease \in 0 .. Len(leases[p])
                       /\ obj[p].lease = 0 <=> obj[p].residency \in {"SPILL_ONLY", "RELEASED"}
                       /\ obj[p].lease # 0 => obj[p].execVersion = obj[p].version
                       /\ obj[p].residency = "RELEASED" => ~obj[p].spillCurrent
                       /\ obj[p].spillCurrent => obj[p].spill
                       /\ obj[p].residency = "FETCHING" =>
                            LET f == obj[p].readiness IN
                            /\ f \in DOMAIN acts /\ acts[f].obj = p /\ Fetch(f)
                            /\ acts[f].state = "IN_FLIGHT" /\ ~Done(f)
                       /\ obj[p].residency = "EVICTING" => Leaving(p)
                       /\ \A b \in DOMAIN acts : acts[b].obj = p /\ First(b) =>
                            /\ obj[p].lease = 0 <=> Waiting(b) \/ (Leaves(b) /\ Done(b))
                            /\ Fetch(b) /\ acts[b].state = "IN_FLIGHT" /\ ~Done(b) =>
                                 obj[p].residency = "FETCHING" /\ obj[p].readiness = b)'
    BY DEF Located
  <2>1. /\ obj[p].lease \in 0 .. Len(leases[p])
        /\ obj[p].lease = 0 <=> obj[p].residency \in {"SPILL_ONLY", "RELEASED"}
        /\ obj[p].lease # 0 => obj[p].execVersion = obj[p].version
        /\ obj[p].residency = "RELEASED" => ~obj[p].spillCurrent
        /\ obj[p].spillCurrent => obj[p].spill
        /\ obj[p].residency = "EVICTING" => Leaving(p)
    BY DEF IInv, Places, Located
  <2>2. obj[p].residency = "FETCHING" =>
          LET f == obj[p].readiness IN
          /\ f \in DOMAIN acts /\ acts[f].obj = p /\ Fetch(f) /\ acts[f].state = "IN_FLIGHT"
    BY DEF IInv, Places, Located
  <2>3. \A b \in DOMAIN acts : acts[b].obj = p /\ First(b) =>
          /\ obj[p].lease = 0 <=> Waiting(b)
          /\ Fetch(b) /\ acts[b].state = "IN_FLIGHT" =>
               obj[p].residency = "FETCHING" /\ obj[p].readiness = b
    BY <1>5 DEF IInv, Places, Located
  <2>4. CASE p # o
    <3>1. obj'[p] = obj[p]
      BY <1>3, <2>4
    <3>2. \A b \in DOMAIN acts : acts[b].obj = p => ~Done(b)'
      BY <1>5, <2>4
    <3>3. obj[p].residency = "FETCHING" =>
            /\ obj'[p].readiness \in DOMAIN acts /\ acts[obj'[p].readiness].obj = p /\ Fetch(obj[p].readiness)'
            /\ acts[obj'[p].readiness].state = "IN_FLIGHT" /\ ~Done(obj[p].readiness)'
      BY <1>5, <2>2, <3>1, <3>2, SMTT(20)
    <3> QED BY <1>5, <2>1, <2>3, <3>1, <3>2, <3>3
  <2>5. CASE p = o /\ Fetch(a)
    <3>1. obj'[o].residency = "EXECUTION_READY" /\ obj'[o].lease = obj[o].lease
      BY <2>5
    <3>2. \A b \in DOMAIN acts : acts[b].obj = o /\ First(b)' => b = a
      BY <1>5, <1>6, SMTT(20)
    <3> QED BY <1>3, <1>5, <1>7, <1>8, <2>1, <2>5, <3>1, <3>2 DEF Leaves
  <2>6. CASE p = o /\ ~Fetch(a)
    <3>1. obj'[o].residency = obj[o].residency /\ obj'[o].lease = obj[o].lease
          /\ obj'[o].readiness = obj[o].readiness
      BY <2>6
    <3>2. \A b \in DOMAIN acts : acts[b].obj = o /\ First(b)' => b = a
      BY <1>5, <1>6
    <3>3. obj[o].residency # "FETCHING"
      <4> SUFFICES ASSUME obj[o].residency = "FETCHING" PROVE FALSE
        OBVIOUS
      <4>1. PICK f : f = obj[o].readiness
        OBVIOUS
      <4>2. f \in DOMAIN acts /\ acts[f].obj = o /\ Fetch(f) /\ acts[f].state = "IN_FLIGHT"
        BY <2>2, <2>6, <4>1
      <4>3. First(f)
        BY <4>2 DEF IInv, Flights, Stages
      <4> QED BY <1>6, <2>6, <4>2, <4>3
    <3>4. obj[o].residency # "RELEASED"
      BY <1>8, <2>1, <2>6, SMTT(20)
    <3> QED BY <1>3, <1>5, <1>7, <1>8, <2>1, <2>6, <3>1, <3>2, <3>3, <3>4
  <2> QED BY <2>4, <2>5, <2>6
<1>15. LeaseStates'
  <2>1. \A p \in Objects : \A g \in DOMAIN leases[p] :
          /\ leases[p][g].state = "IN_USE" => leases[p][g].event = NoEvent
          /\ g # obj[p].lease => leases[p][g].state = "FREE"
    BY <1>5 DEF IInv, Places, LeaseStates
  <2>2. \A p \in Objects :
          /\ obj[p].lease # 0 /\ ~(\E b \in DOMAIN acts : acts[b].obj = p /\ Open(b) /\ Leaves(b) /\ ~acts[b].late) =>
               leases[p][obj[p].lease].state = "IN_USE"
          /\ obj[p].lease # 0 => \A b \in DOMAIN acts :
               acts[b].obj = p /\ Open(b) /\ Leaves(b) /\ ~acts[b].late =>
                 /\ leases[p][obj[p].lease].state = "RETIRE_PENDING"
                 /\ leases[p][obj[p].lease].event =
                      IF acts[b].kind = "RELEASE" THEN << "task", acts[b].task >>
                      ELSE IF acts[b].state = "QUEUED" THEN NoEvent ELSE << "copy", b >>
    BY SMTT(20) DEF IInv, Places, LeaseStates
  <2> SUFFICES ASSUME NEW p \in Objects
               PROVE  (/\ \A g \in DOMAIN leases[p] :
                            /\ leases[p][g].state = "IN_USE" => leases[p][g].event = NoEvent
                            /\ g # obj[p].lease => leases[p][g].state = "FREE"
                       /\ obj[p].lease # 0 /\ ~(\E b \in DOMAIN acts : acts[b].obj = p /\ Open(b) /\ Leaves(b) /\ ~acts[b].late) =>
                            leases[p][obj[p].lease].state = "IN_USE"
                       /\ obj[p].lease # 0 => \A b \in DOMAIN acts :
                            acts[b].obj = p /\ Open(b) /\ Leaves(b) /\ ~acts[b].late =>
                              /\ leases[p][obj[p].lease].state = "RETIRE_PENDING"
                              /\ leases[p][obj[p].lease].event =
                                   IF acts[b].kind = "RELEASE" THEN << "task", acts[b].task >>
                                   ELSE IF acts[b].state = "QUEUED" THEN NoEvent ELSE << "copy", b >>)'
    BY DEF LeaseStates
  <2>3. obj'[p].lease = obj[p].lease
    BY <1>3
  <2> QED BY <1>5, <2>1, <2>2, <2>3
<1>16. Updating'
  <2> SUFFICES ASSUME NEW p \in Objects, boundary.update = p
               PROVE  boundary.at = "task" /\ obj'[p].residency \in OnDevice /\ ~Leaving(p)'
    BY DEF Updating
  <2>1. boundary.at = "task" /\ obj[p].residency \in OnDevice /\ ~Leaving(p)
    BY DEF IInv, Places, Updating
  <2>2. obj'[p].residency \in OnDevice
    BY <1>3, <2>1 DEF OnDevice
  <2> QED BY <1>5, <2>1, <2>2
<1>17. Uses'
  <2>1. Users'
    <3>1. \A b \in DOMAIN acts : b \notin copied /\ acts[b].lease # 0 => acts[b].lease = obj'[acts[b].obj].lease
      BY <1>2, <1>3, <1>5 DEF IInv, Uses, Users
    <3>2. \A p \in Objects : \A t \in Unrun(p) : tasks[t].lease = obj'[p].lease
      BY <1>3 DEF IInv, Uses, Users
    <3> QED BY <1>5, <3>1, <3>2 DEF IInv, Uses, Users
  <2>2. Waits' /\ Releases'
    BY <1>5 DEF IInv, Uses, Waits, Releases
  <2> QED BY <2>1, <2>2 DEF Uses
<1>18. \A p \in Objects :
         /\ Held(p)' = Held(p) /\ Upcoming(p)' = Upcoming(p)
         /\ \A s : Expected(p, s)' = Expected(p, s)
         /\ \A r : After(p, r)' = After(p, r)
  <2> SUFFICES ASSUME NEW p \in Objects
               PROVE  /\ Held(p)' = Held(p) /\ Upcoming(p)' = Upcoming(p)
                      /\ \A s : Expected(p, s)' = Expected(p, s)
                      /\ \A r : After(p, r)' = After(p, r)
    OBVIOUS
  <2>1. Loading(p)' <=> Loading(p)
    <3>1. CASE p # o
      BY <1>3, <3>1 DEF Loading
    <3>2. CASE p = o
      BY <1>9, <3>2 DEF Loading
    <3> QED BY <3>1, <3>2
  <2>2. Held(p)' = Held(p)
    BY <1>3, <2>1 DEF Held
  <2>3. Upcoming(p)' = Upcoming(p) /\ \A s : Expected(p, s)' = Expected(p, s)
    BY <1>3 DEF Upcoming, Expected
  <2> QED BY <2>2, <2>3 DEF After
<1>19. Chained' /\ Bounded'
  BY <1>3, <1>5, <1>18 DEF IInv, Values, Chained, Bounded
<1>20. Reached'
  <2> SUFFICES ASSUME NEW b \in DOMAIN acts, Open(b), Copies(b), NEW p \in Objects, p = acts[b].obj,
                      obj[p].lease # 0, NEW r \in Points(p),
                      \A u \in Unrun(p) : ~(r < u /\ u <= acts[b].task)
               PROVE  acts[b].version <= After(p, r)'
    BY <1>2, <1>3, <1>5, SMTT(20) DEF Reached
  <2>1. acts[b].version <= After(p, r)
    BY DEF IInv, Values, Reached
  <2> QED BY <1>18, <2>1
<1>21. TasksReadCurrent' /\ PlanNeverFails'
  BY DEF IInv, Values, TasksReadCurrent, PlanNeverFails
<1>22. Reused'
  <2>1. \A e : Complete(e)' <=> Complete(e)
    BY DEF Complete
  <2>2. \A range : Lease(range)' = Lease(range)
    BY DEF Lease
  <2> QED BY <1>5, <2>1, <2>2 DEF IInv, Reused
<1> QED BY <1>10, <1>11, <1>12, <1>13, <1>14, <1>15, <1>16, <1>17, <1>19, <1>20, <1>21, <1>22
        DEF Flights, Places

\* What the head of a lane's queue finds when it is committed.
LEMMA Finished ==
  ASSUME IInv, NEW a, Finish(a)
  PROVE  /\ Types /\ a \in DOMAIN acts /\ First(a) /\ Open(a) /\ worker.at = "idle"
         /\ acts[a].state = "IN_FLIGHT" /\ a \in copied /\ Queued(a) /\ ~Waiting(a)
         /\ acts[a].kind \in {"FETCH", "EVICT", "WRITE_BACK"}
         /\ acts[a].kind = "EVICT" => Releasable(acts[a].obj)
         /\ obj[acts[a].obj].lease # 0
         /\ Copies(a) => obj[acts[a].obj].spill /\ Triggered(a)
<1>1. Types /\ Handles(a) /\ acts[a].state = "IN_FLIGHT" /\ a \in copied
  BY DEF IInv, Finish
<1>2. a \in DOMAIN acts /\ First(a) /\ Open(a) /\ worker.at = "idle" /\ acts[a] \in ActionRecord
  BY <1>1, HandledFirst DEF IInv, Lists, Open, Handles
<1>3. Queued(a) /\ ~Waiting(a)
  BY <1>1, <1>2 DEF IInv, Flights, Stages, Waiting
<1>4. PICK w \in Objects : w = acts[a].obj
  BY <1>1, <1>2, ActionTyped
<1>5. obj[w].lease # 0 /\ obj[w].lease \in 0 .. Len(leases[w])
  BY <1>2, <1>3, <1>4 DEF IInv, Places, Located, Done
<1>6. Releasable(w)
  <2>1. leases[w] \in Seq(LeaseRecord)
    BY <1>1, ObjectTyped
  <2>2. leases[w][obj[w].lease] \in LeaseRecord
    BY <1>5, <2>1
  <2> QED BY <2>2 DEF Releasable, Lease, LeaseRecord
<1>7. Copies(a) => obj[w].spill /\ Triggered(a)
  BY <1>1, <1>2, <1>4 DEF IInv, Flights, Stages, Copies, Fetch
<1>8. acts[a].kind \in {"FETCH", "EVICT", "WRITE_BACK"}
  BY <1>2, <1>3 DEF ActionRecord, AllKinds, Queued
<1> QED BY <1>1, <1>2, <1>3, <1>4, <1>5, <1>6, <1>7, <1>8

\* A commit takes nothing from what the spill copies are worth: the actions are the same.
LEMMA CommitWorth ==
  ASSUME IInv, NEW a, Finish(a), NEW o \in Objects, o = acts[a].obj,
         \A p \in Objects : p # o => obj'[p] = obj[p],
         obj'[o].version = obj[o].version,
         UNCHANGED << acts, boundary, plan, spilled, copied >>,
         obj'[o].spillCurrent /\ obj'[o].spillVersion = obj[o].version =>
           \A b \in DOMAIN acts : acts[b].obj = o /\ Open(b) => acts[b].version = obj[o].version,
         \A b \in DOMAIN acts :
           /\ acts[b].obj = o /\ Open(b) /\ acts[b].version = obj[o].version
           /\ (acts[b].spill \/ Waiting(b)) /\ ~Copies(b)
           => Refreshed(o, b)' \/ (Fetch(b) /\ ~Waiting(b) /\ o \notin plan.retained)
  PROVE  Worth'
<1>1. Types
  BY DEF IInv
<1>2. /\ \A b, c : Behind(b, c)' <=> Behind(b, c)
      /\ \A b : /\ (Open(b)' <=> Open(b)) /\ (Copies(b)' <=> Copies(b))
                /\ (Fetch(b)' <=> Fetch(b)) /\ (Waiting(b)' <=> Waiting(b))
      /\ \A b \in DOMAIN acts : acts[b].obj \in Objects
  BY <1>1, ActionTyped DEF Behind, Open, Copies, Fetch, Waiting
<1>3. \A p \in Objects, b \in DOMAIN acts : p # o => (Refreshed(p, b)' <=> Refreshed(p, b))
  BY <1>2 DEF Refreshed, Current
<1> SUFFICES ASSUME NEW b \in DOMAIN acts, Open(b), NEW p \in Objects, p = acts[b].obj
             PROVE  (/\ obj[p].spillCurrent /\ obj[p].spillVersion = obj[p].version =>
                          acts[b].version = obj[p].version
                     /\ /\ acts[b].version = obj[p].version /\ (acts[b].spill \/ Waiting(b)) /\ ~Copies(b)
                        => Refreshed(p, b) \/ (Fetch(b) /\ ~Waiting(b) /\ p \notin plan.retained)
                     /\ Copies(b) /\ b \in copied /\ acts[b].version = obj[p].version /\ boundary.update # p =>
                          spilled[p] = obj[p].version)'
  BY <1>2 DEF Worth
<1>4. /\ obj[p].spillCurrent /\ obj[p].spillVersion = obj[p].version =>
           acts[b].version = obj[p].version
      /\ /\ acts[b].version = obj[p].version /\ (acts[b].spill \/ Waiting(b)) /\ ~Copies(b)
         => Refreshed(p, b) \/ (Fetch(b) /\ ~Waiting(b) /\ p \notin plan.retained)
      /\ Copies(b) /\ b \in copied /\ acts[b].version = obj[p].version /\ boundary.update # p =>
           spilled[p] = obj[p].version
  BY DEF IInv, Values, Worth
<1>5. CASE p # o
  BY <1>2, <1>3, <1>4, <1>5
<1>6. CASE p = o
  BY <1>2, <1>4, <1>6
<1> QED BY <1>5, <1>6

\* An eviction's copy is seen complete.
LEMMA FinishEvict ==
  ASSUME IInv, NEW a, Finish(a), acts[a].kind = "EVICT"
  PROVE  IInv'
<1>1. /\ Types /\ a \in DOMAIN acts /\ First(a) /\ Open(a) /\ worker.at = "idle"
      /\ acts[a].state = "IN_FLIGHT" /\ a \in copied /\ Queued(a)
      /\ Releasable(acts[a].obj) /\ Copies(a) /\ Triggered(a) /\ obj[acts[a].obj].spill /\ Leaves(a)
  BY Finished DEF Copies, Leaves, Queued
<1>2. PICK w \in Objects : w = acts[a].obj
  BY <1>1, ActionTyped
<1>3. obj[w] \in ObjectRecord
  BY <1>1, ObjectTyped
<1>4. /\ leases' = Freed(w) /\ obj' = [obj EXCEPT ![w] = Landed(a)]
      /\ worker' = [Idle EXCEPT !.at = "done", !.action = a]
      /\ UNCHANGED << acts, fifo, sequences, boundary, published, failed, device >>
  BY <1>1, <1>2 DEF Finish
<1>5. /\ obj'[w] \in ObjectRecord /\ obj'[w].lease = 0 /\ obj'[w].residency = "SPILL_ONLY"
      /\ obj'[w].version = obj[w].version /\ obj'[w].spill = obj[w].spill
      /\ obj'[w].unpublished = obj[w].unpublished /\ obj'[w].spillCurrent
      /\ obj'[w].spillVersion = obj[w].version
      /\ obj' = [obj EXCEPT ![w] = obj'[w]]
      /\ \A p \in Objects : p # w => obj'[p] = obj[p]
  <2> DEFINE item == Landed(a)
  <2>1. item = [Departed(obj[w]) EXCEPT !.spillCurrent = TRUE, !.spillVersion = obj[w].version,
                                        !.residency = "SPILL_ONLY"]
    BY <1>2 DEF Landed
  <2>2. obj[w].version \in Nat
    BY <1>3 DEF ObjectRecord
  <2> HIDE DEF item
  <2>3. /\ item \in ObjectRecord /\ item.lease = 0 /\ item.residency = "SPILL_ONLY"
        /\ item.version = obj[w].version /\ item.spill = obj[w].spill
        /\ item.unpublished = obj[w].unpublished /\ item.spillCurrent
        /\ item.spillVersion = obj[w].version
    BY <1>3, <2>1, <2>2 DEF Departed, ObjectRecord
  <2>4. obj' = [obj EXCEPT ![w] = item]
    BY <1>4 DEF item
  <2> QED BY <1>1, <2>3, <2>4 DEF Types
<1>6. worker' = [at |-> "done", action |-> a, version |-> 0]
  BY <1>4 DEF Idle
<1>7. /\ Types' /\ Lists' /\ Flights' /\ Places' /\ Uses' /\ Reused' /\ PlanNeverFails'
      /\ Chained' /\ Bounded' /\ Reached' /\ TasksReadCurrent'
  <2>1. IF Queued(a) THEN acts[a].state = "IN_FLIGHT" /\ a \in copied ELSE acts[a].state = "QUEUED"
    BY <1>1
  <2>2. /\ obj'[w].residency \in {"SPILL_ONLY", "RELEASED"}
        /\ obj'[w].residency = "RELEASED" => ~obj'[w].spillCurrent
        /\ obj'[w].spillCurrent => obj'[w].spill
    BY <1>1, <1>2, <1>5
  <2>3. leases' = Freed(w) /\ UNCHANGED << acts, fifo, sequences, boundary, published, failed, device >>
    BY <1>4
  <2>4. /\ obj' = [obj EXCEPT ![w] = obj'[w]] /\ obj'[w] \in ObjectRecord /\ obj'[w].lease = 0
        /\ obj'[w].version = obj[w].version /\ obj'[w].spill = obj[w].spill
        /\ obj'[w].unpublished = obj[w].unpublished
    BY <1>5
  <2> QED BY <1>1, <1>2, <1>6, <2>1, <2>2, <2>3, <2>4, Departs
<1>8. /\ acts[a].version = obj[w].version /\ boundary.update # w
      /\ \A b \in DOMAIN acts : acts[b].obj = w /\ Open(b) /\ b # a => Waiting(b)
  BY <1>1, <1>2, Departure
<1>9. UNCHANGED << acts, boundary, plan, spilled, copied >>
  BY <1>4 DEF device
<1>10. \A b \in DOMAIN acts : acts[b].obj = w /\ Open(b) => acts[b].version = obj[w].version
  BY <1>8 DEF IInv, Lists, Awaited
<1>11. ASSUME NEW b \in DOMAIN acts, acts[b].obj = w, Open(b), ~Copies(b)
       PROVE  Refreshed(w, b)'
  <2>1. Waiting(b)
    BY <1>1, <1>8, <1>11
  <2>2. Current(w)'
    BY <1>1, <1>2, <1>5 DEF Current
  <2>3. ASSUME NEW c \in DOMAIN acts', Fetch(c)', Behind(c, b)' PROVE FALSE
    <3>1. c \in DOMAIN acts /\ Fetch(c) /\ Behind(c, b)
      BY <1>9, <2>3 DEF Fetch, Behind, Open
    <3>2. c # a
      BY <1>1, <3>1 DEF Fetch, Leaves
    <3>3. Waiting(c)
      BY <1>8, <1>11, <3>1, <3>2 DEF Behind
    <3> QED BY <3>1, <3>3 DEF IInv, Lists, Order
  <2> QED BY <2>2, <2>3 DEF Refreshed
<1>12. Worth'
  BY <1>2, <1>5, <1>9, <1>10, <1>11, CommitWorth
<1>13. SpillCopyTrue'
  <2>1. spilled[w] = obj[w].version
    BY <1>1, <1>2, <1>8 DEF IInv, Values, Worth
  <2> QED BY <1>5, <1>9, <2>1 DEF IInv, Values, SpillCopyTrue
<1>14. Committed'
  BY <1>2, <1>5, <1>6, <1>9 DEF Committed
<1> QED BY <1>7, <1>12, <1>13, <1>14 DEF IInv, Values

\* A write-back's copy is seen complete.
LEMMA FinishWriteBack ==
  ASSUME IInv, NEW a, Finish(a), acts[a].kind = "WRITE_BACK"
  PROVE  IInv'
<1>1. /\ Types /\ a \in DOMAIN acts /\ First(a) /\ Open(a) /\ worker.at = "idle"
      /\ acts[a].state = "IN_FLIGHT" /\ a \in copied /\ Queued(a)
      /\ Copies(a) /\ obj[acts[a].obj].spill /\ ~Leaves(a) /\ ~Fetch(a)
  BY Finished DEF Copies, Leaves, Queued, Fetch
<1>2. PICK w \in Objects : w = acts[a].obj
  BY <1>1, ActionTyped
<1>3. obj[w] \in ObjectRecord /\ acts[a] \in ActionRecord
  BY <1>1, ObjectTyped, ActionTyped
<1>4. /\ leases' = leases /\ obj' = [obj EXCEPT ![w] = Landed(a)]
      /\ worker' = [Idle EXCEPT !.at = "done", !.action = a]
      /\ UNCHANGED << acts, fifo, sequences, boundary, published, failed, device >>
  BY <1>1, <1>2 DEF Finish
<1>5. /\ obj'[w] \in ObjectRecord /\ obj'[w].lease = obj[w].lease /\ obj'[w].residency = obj[w].residency
      /\ obj'[w].version = obj[w].version /\ obj'[w].spill = obj[w].spill
      /\ obj'[w].execVersion = obj[w].execVersion /\ obj'[w].readiness = obj[w].readiness
      /\ obj'[w].unpublished = obj[w].unpublished /\ obj'[w].spillCurrent
      /\ obj'[w].spillVersion = acts[a].version
      /\ obj' = [obj EXCEPT ![w] = obj'[w]]
      /\ \A p \in Objects : p # w => obj'[p] = obj[p]
  <2> DEFINE item == Landed(a)
  <2>1. item = [obj[w] EXCEPT !.spillCurrent = TRUE, !.spillVersion = acts[a].version]
    BY <1>2 DEF Landed
  <2>2. acts[a].version \in Nat
    BY <1>3 DEF ActionRecord
  <2> HIDE DEF item
  <2>3. /\ item \in ObjectRecord /\ item.lease = obj[w].lease /\ item.residency = obj[w].residency
        /\ item.version = obj[w].version /\ item.spill = obj[w].spill
        /\ item.execVersion = obj[w].execVersion /\ item.readiness = obj[w].readiness
        /\ item.unpublished = obj[w].unpublished /\ item.spillCurrent
        /\ item.spillVersion = acts[a].version
    BY <1>3, <2>1, <2>2 DEF ObjectRecord
  <2>4. obj' = [obj EXCEPT ![w] = item]
    BY <1>4 DEF item
  <2> QED BY <1>1, <2>3, <2>4 DEF Types
<1>6. worker' = [at |-> "done", action |-> a, version |-> 0]
  BY <1>4 DEF Idle
<1>7. /\ Types' /\ Lists' /\ Flights' /\ Places' /\ Uses' /\ Reused' /\ PlanNeverFails'
      /\ Chained' /\ Bounded' /\ Reached' /\ TasksReadCurrent'
  <2>1. UNCHANGED << leases, acts, fifo, sequences, boundary, published, failed, device >>
    BY <1>4
  <2>2. /\ obj'[w].residency = IF Fetch(a) THEN "EXECUTION_READY" ELSE obj[w].residency
        /\ ~Fetch(a) => obj'[w].readiness = obj[w].readiness
        /\ obj'[w].spillCurrent => obj'[w].spill
        /\ ~Fetch(a) \/ w \in plan.retained => obj'[w].spill = obj[w].spill
    BY <1>1, <1>2, <1>5
  <2>3. /\ obj' = [obj EXCEPT ![w] = obj'[w]] /\ obj'[w] \in ObjectRecord
        /\ obj'[w].lease = obj[w].lease /\ obj'[w].execVersion = obj[w].execVersion
        /\ obj'[w].version = obj[w].version /\ obj'[w].unpublished = obj[w].unpublished
    BY <1>5
  <2> QED BY <1>1, <1>2, <1>6, <2>1, <2>2, <2>3, Stays
<1>8. UNCHANGED << acts, boundary, plan, spilled, copied >>
  BY <1>4 DEF device
<1>9. ASSUME obj'[w].spillVersion = obj[w].version, NEW b \in DOMAIN acts, acts[b].obj = w, Open(b)
      PROVE  acts[b].version = obj[w].version
  <2>1. acts[a].version = obj[w].version
    BY <1>5, <1>9
  <2>2. CASE b = a
    BY <2>1, <2>2
  <2>3. CASE b # a
    <3>1. a \in Nat /\ b \in Nat /\ acts[b] \in ActionRecord
      BY <1>1, ActionTyped
    <3>2. Behind(a, b)
      BY <1>1, <1>2, <1>9, <2>3, <3>1 DEF First, Behind
    <3>3. acts[a].version <= acts[b].version /\ acts[b].version <= obj[w].version
      BY <1>1, <1>9, <3>2 DEF IInv, Lists, Order, Versions
    <3> QED BY <1>3, <2>1, <3>1, <3>3 DEF ActionRecord, ObjectRecord
  <2> QED BY <2>2, <2>3
<1>10. ASSUME NEW b \in DOMAIN acts, acts[b].obj = w, Open(b), acts[b].version = obj[w].version,
              acts[b].spill \/ Waiting(b), ~Copies(b)
       PROVE  Refreshed(w, b)' \/ (Fetch(b) /\ ~Waiting(b) /\ w \notin plan.retained)
  <2> SUFFICES ASSUME Refreshed(w, b) PROVE Refreshed(w, b)'
    BY <1>10 DEF IInv, Values, Worth
  <2>1. CASE Current(w) /\ (w \notin plan.retained => \A c \in DOMAIN acts : Fetch(c) => ~Behind(c, b))
    <3>1. acts[a].version = obj[w].version
      BY <1>1, <1>2, <2>1 DEF Current, IInv, Values, Worth
    <3>2. Current(w)'
      BY <1>1, <1>2, <1>5, <3>1 DEF Current
    <3>3. w \notin plan'.retained => \A c \in DOMAIN acts' : Fetch(c)' => ~Behind(c, b)'
      BY <1>8, <2>1 DEF Fetch, Behind, Open
    <3> QED BY <3>2, <3>3 DEF Refreshed
  <2>2. CASE \E c \in DOMAIN acts : Behind(c, b) /\ Copies(c) /\ acts[c].version = obj[w].version
    <3>1. \E c \in DOMAIN acts' : Behind(c, b)' /\ Copies(c)' /\ acts'[c].version = obj'[w].version
      BY <1>5, <1>8, <2>2 DEF Behind, Open, Copies
    <3> QED BY <3>1 DEF Refreshed
  <2> QED BY <2>1, <2>2 DEF Refreshed
<1>11. Worth'
  BY <1>2, <1>5, <1>8, <1>9, <1>10, CommitWorth
<1>12. SpillCopyTrue'
  <2>1. acts[a].version = obj[w].version /\ boundary.update # w => spilled[w] = obj[w].version
    BY <1>1, <1>2 DEF IInv, Values, Worth
  <2> QED BY <1>5, <1>8, <2>1 DEF IInv, Values, SpillCopyTrue
<1>13. Committed'
  BY <1>2, <1>5, <1>6, <1>8 DEF Committed
<1> QED BY <1>7, <1>11, <1>12, <1>13 DEF IInv, Values

\* A fetch is seen complete.
LEMMA FinishFetch ==
  ASSUME IInv, NEW a, Finish(a), acts[a].kind = "FETCH"
  PROVE  IInv'
<1>1. /\ Types /\ a \in DOMAIN acts /\ First(a) /\ Open(a) /\ worker.at = "idle"
      /\ acts[a].state = "IN_FLIGHT" /\ a \in copied /\ Queued(a)
      /\ ~Leaves(a) /\ Fetch(a) /\ ~Copies(a) /\ ~Waiting(a)
  BY Finished DEF Copies, Leaves, Queued, Fetch
<1>2. PICK w \in Objects : w = acts[a].obj
  BY <1>1, ActionTyped
<1>3. obj[w] \in ObjectRecord /\ acts[a] \in ActionRecord
  BY <1>1, ObjectTyped, ActionTyped
<1>4. /\ leases' = leases /\ obj' = [obj EXCEPT ![w] = Landed(a)]
      /\ worker' = [Idle EXCEPT !.at = "done", !.action = a]
      /\ UNCHANGED << acts, fifo, sequences, boundary, published, failed, device >>
  BY <1>1, <1>2 DEF Finish
<1>5. /\ obj'[w] \in ObjectRecord /\ obj'[w].lease = obj[w].lease /\ obj'[w].residency = "EXECUTION_READY"
      /\ obj'[w].version = obj[w].version /\ obj'[w].execVersion = obj[w].execVersion
      /\ obj'[w].unpublished = obj[w].unpublished
      /\ obj'[w].spill = (obj[w].spill /\ w \in plan.retained)
      /\ obj'[w].spillCurrent = (obj[w].spillCurrent /\ w \in plan.retained)
      /\ obj'[w].spillVersion = obj[w].spillVersion
      /\ obj' = [obj EXCEPT ![w] = obj'[w]]
      /\ \A p \in Objects : p # w => obj'[p] = obj[p]
  <2> DEFINE item == Landed(a)
             keeps == obj[w].spill /\ w \in plan.retained
             current == obj[w].spillCurrent /\ w \in plan.retained
  <2>1. item = [obj[w] EXCEPT !.residency = "EXECUTION_READY", !.readiness = 0,
                              !.spill = keeps, !.spillCurrent = current]
    BY <1>2 DEF Landed
  <2>2. keeps \in BOOLEAN /\ current \in BOOLEAN
    BY <1>3 DEF ObjectRecord
  <2> HIDE DEF item, keeps, current
  <2>3. /\ item \in ObjectRecord /\ item.lease = obj[w].lease /\ item.residency = "EXECUTION_READY"
        /\ item.version = obj[w].version /\ item.execVersion = obj[w].execVersion
        /\ item.unpublished = obj[w].unpublished
        /\ item.spill = keeps /\ item.spillCurrent = current
        /\ item.spillVersion = obj[w].spillVersion
    BY <1>3, <2>1, <2>2 DEF ObjectRecord
  <2>4. obj' = [obj EXCEPT ![w] = item]
    BY <1>4 DEF item
  <2>5. obj'[w] = item /\ obj' = [obj EXCEPT ![w] = obj'[w]] /\ \A p \in Objects : p # w => obj'[p] = obj[p]
    BY <1>1, <2>3, <2>4 DEF Types
  <2> QED BY <2>3, <2>5 DEF keeps, current
<1>6. worker' = [at |-> "done", action |-> a, version |-> 0]
  BY <1>4 DEF Idle
<1>7. /\ Types' /\ Lists' /\ Flights' /\ Places' /\ Uses' /\ Reused' /\ PlanNeverFails'
      /\ Chained' /\ Bounded' /\ Reached' /\ TasksReadCurrent'
  <2>1. UNCHANGED << leases, acts, fifo, sequences, boundary, published, failed, device >>
    BY <1>4
  <2>2. /\ obj'[w].residency = IF Fetch(a) THEN "EXECUTION_READY" ELSE obj[w].residency
        /\ ~Fetch(a) => obj'[w].readiness = obj[w].readiness
        /\ ~Fetch(a) \/ w \in plan.retained => obj'[w].spill = obj[w].spill
    <3>1. obj[w].spill \in BOOLEAN
      BY <1>3 DEF ObjectRecord
    <3> QED BY <1>1, <1>5, <3>1
  <2>3. obj'[w].spillCurrent => obj'[w].spill
    BY <1>5 DEF IInv, Places, Located
  <2>4. /\ obj' = [obj EXCEPT ![w] = obj'[w]] /\ obj'[w] \in ObjectRecord
        /\ obj'[w].lease = obj[w].lease /\ obj'[w].execVersion = obj[w].execVersion
        /\ obj'[w].version = obj[w].version /\ obj'[w].unpublished = obj[w].unpublished
    BY <1>5
  <2> QED BY <1>1, <1>2, <1>6, <2>1, <2>2, <2>3, <2>4, Stays
<1>8. UNCHANGED << acts, boundary, plan, spilled, copied >>
  BY <1>4 DEF device
<1>9. ASSUME obj'[w].spillCurrent, obj'[w].spillVersion = obj[w].version,
             NEW b \in DOMAIN acts, acts[b].obj = w, Open(b)
      PROVE  acts[b].version = obj[w].version
  BY <1>5, <1>9, ZenonT(20) DEF IInv, Values, Worth
<1>10. ASSUME NEW b \in DOMAIN acts, acts[b].obj = w, Open(b), acts[b].version = obj[w].version,
              acts[b].spill \/ Waiting(b), ~Copies(b)
       PROVE  Refreshed(w, b)' \/ (Fetch(b) /\ ~Waiting(b) /\ w \notin plan.retained)
  <2> SUFFICES ASSUME Refreshed(w, b), ~(b = a /\ w \notin plan.retained) PROVE Refreshed(w, b)'
    BY <1>1, <1>10 DEF IInv, Values, Worth
  <2>1. CASE Current(w) /\ (w \notin plan.retained => \A c \in DOMAIN acts : Fetch(c) => ~Behind(c, b))
    <3>1. w \in plan.retained
      <4> SUFFICES ASSUME w \notin plan.retained PROVE FALSE
        OBVIOUS
      <4>1. a \in Nat /\ b \in Nat /\ b # a
        BY <1>1, ActionTyped
      <4>2. Behind(a, b)
        BY <1>1, <1>2, <1>10, <4>1 DEF First, Behind
      <4> QED BY <1>1, <2>1, <4>2
    <3>2. Current(w)'
      BY <1>5, <2>1, <3>1 DEF Current
    <3> QED BY <1>8, <3>1, <3>2 DEF Refreshed
  <2>2. CASE \E c \in DOMAIN acts : Behind(c, b) /\ Copies(c) /\ acts[c].version = obj[w].version
    <3>1. \E c \in DOMAIN acts' : Behind(c, b)' /\ Copies(c)' /\ acts'[c].version = obj'[w].version
      BY <1>5, <1>8, <2>2 DEF Behind, Open, Copies
    <3> QED BY <3>1 DEF Refreshed
  <2> QED BY <2>1, <2>2 DEF Refreshed
<1>11. Worth'
  BY <1>2, <1>5, <1>8, <1>9, <1>10, CommitWorth
<1>12. SpillCopyTrue'
  <2> SUFFICES ASSUME NEW p \in Objects, obj'[p].spill, obj'[p].spillCurrent,
                      obj'[p].spillVersion = obj'[p].version, boundary'.update # p
               PROVE  spilled'[p] = obj'[p].version
    BY DEF SpillCopyTrue
  <2>1. /\ obj[p].spill /\ obj[p].spillCurrent /\ obj[p].spillVersion = obj[p].version
        /\ obj'[p].version = obj[p].version
    <3>1. CASE p = w
      BY <1>5, <3>1
    <3>2. CASE p # w
      BY <1>5, <3>2
    <3> QED BY <3>1, <3>2
  <2> QED BY <1>8, <2>1 DEF IInv, Values, SpillCopyTrue
<1>13. Committed'
  <2>1. ~Copies(a)'
    BY <1>1, <1>8 DEF Copies
  <2> QED BY <1>6, <2>1 DEF Committed
<1> QED BY <1>7, <1>11, <1>12, <1>13 DEF IInv, Values

\* A copy is seen complete, of whatever kind.
LEMMA FinishInv ==
  ASSUME IInv, NEW a, Finish(a)
  PROVE  IInv'
BY Finished, FinishEvict, FinishWriteBack, FinishFetch

-----------------------------------------------------------------------------
(* The worker takes an action off its object's list.                       *)

\* The handled action leaves its object's list, and a departure its range.
LEMMA CompleteActionInv ==
  ASSUME IInv, CompleteAction
  PROVE  IInv'
<1> USE DEF device
<1>1. PICK a : a = worker.action
  OBVIOUS
<1>2. /\ Types /\ worker.at = "done" /\ a \in DOMAIN acts /\ First(a) /\ Open(a)
      /\ IF Queued(a) THEN acts[a].state = "IN_FLIGHT" /\ a \in copied ELSE acts[a].state = "QUEUED"
  BY <1>1 DEF CompleteAction, IInv, Flights, AtDone, First
<1>3. PICK o \in Objects : o = acts[a].obj
  BY <1>2, ActionTyped
<1>4. \A b \in DOMAIN acts : acts[b] \in ActionRecord /\ acts[b].obj \in Objects /\ b \in Nat
  BY <1>2, ActionTyped
<1>5. ~Waiting(a)
  BY <1>2 DEF IInv, Lists, Static, Waiting, Fetch, Queued
<1>6. /\ fifo' = [fifo EXCEPT ![o] = Tail(@)] /\ worker' = Idle
      /\ acts' = [acts EXCEPT ![a].state = "FINISHED"]
      /\ UNCHANGED << obj, leases, sequences, boundary, published, failed, device >>
  BY <1>1, <1>3 DEF CompleteAction
<1>7. /\ acts' \in Seq(ActionRecord) /\ Len(acts') = Len(acts) /\ DOMAIN acts' = DOMAIN acts
      /\ acts'[a] = [acts[a] EXCEPT !.state = "FINISHED"]
      /\ \A b \in DOMAIN acts : b # a => acts'[b] = acts[b]
  <2> DEFINE item == [acts[a] EXCEPT !.state = "FINISHED"]
  <2>1. item \in ActionRecord
    BY <1>2, <1>4 DEF ActionRecord, AllStates
  <2>2. acts \in Seq(ActionRecord) /\ acts' = [acts EXCEPT ![a] = item]
    BY <1>2, <1>6 DEF Types
  <2> HIDE DEF item
  <2>3. /\ acts' \in Seq(ActionRecord) /\ Len(acts') = Len(acts) /\ DOMAIN acts' = DOMAIN acts
        /\ acts'[a] = item /\ \A b \in DOMAIN acts : b # a => acts'[b] = acts[b]
    BY <1>2, <2>1, <2>2, Replaced
  <2> QED BY <2>3 DEF item
<1>8. \A b \in DOMAIN acts :
        /\ acts'[b].kind = acts[b].kind /\ acts'[b].obj = acts[b].obj /\ acts'[b].task = acts[b].task
        /\ acts'[b].version = acts[b].version /\ acts'[b].exec = acts[b].exec
        /\ acts'[b].spill = acts[b].spill /\ acts'[b].skips = acts[b].skips
        /\ acts'[b].late = acts[b].late /\ acts'[b].destination = acts[b].destination
        /\ acts'[b].lease = acts[b].lease /\ acts'[b].pred = acts[b].pred
        /\ acts'[b].waits = acts[b].waits
        /\ acts'[b].state = IF b = a THEN "FINISHED" ELSE acts[b].state
  <2>1. /\ acts'[a].kind = acts[a].kind /\ acts'[a].obj = acts[a].obj /\ acts'[a].task = acts[a].task
        /\ acts'[a].version = acts[a].version /\ acts'[a].exec = acts[a].exec
        /\ acts'[a].spill = acts[a].spill /\ acts'[a].skips = acts[a].skips
        /\ acts'[a].late = acts[a].late /\ acts'[a].destination = acts[a].destination
        /\ acts'[a].lease = acts[a].lease /\ acts'[a].pred = acts[a].pred
        /\ acts'[a].waits = acts[a].waits /\ acts'[a].state = "FINISHED"
    BY <1>2, <1>4, <1>7 DEF ActionRecord
  <2> QED BY <1>7, <2>1
<1>9. /\ \A b \in DOMAIN acts :
           /\ (Queued(b)' <=> Queued(b)) /\ (Copies(b)' <=> Copies(b)) /\ (Fetch(b)' <=> Fetch(b))
           /\ (Leaves(b)' <=> Leaves(b)) /\ (Triggered(b)' <=> Triggered(b))
           /\ (Open(b)' <=> Open(b) /\ b # a)
      /\ \A b : ~InHand(b) /\ ~InHand(b)' /\ ~Done(b)' /\ (Done(b) <=> b = a)
      /\ \A p : Unrun(p)' = Unrun(p) /\ Points(p)' = Points(p)
  BY <1>1, <1>2, <1>6, <1>8 DEF Queued, Copies, Fetch, Leaves, Triggered, Open, InHand, Done, Unrun, Points, Idle
<1>10. \A b \in DOMAIN acts : Waiting(b)' <=> Waiting(b)
  BY <1>5, <1>8, <1>9 DEF Waiting
<1>11. \A b, c \in DOMAIN acts : Behind(b, c)' <=> Behind(b, c) /\ b # a
  <2>1. \A b, c \in DOMAIN acts : Behind(b, c)' <=> Behind(b, c) /\ b # a /\ c # a
    BY <1>8, <1>9 DEF Behind
  <2> QED BY <1>2, <2>1 DEF First
<1>12. \A b \in DOMAIN acts : b # a /\ First(b) => First(b)'
  BY <1>7, <1>9, <1>11 DEF First
<1>13. \A b \in DOMAIN acts : acts[b].obj = o /\ Open(b) /\ b # a => Behind(a, b)
  BY <1>2, <1>3, <1>4 DEF First, Behind
<1>14. \A b \in DOMAIN acts : acts[b].obj # o /\ First(b)' => First(b)
  BY <1>3, <1>7, <1>9, <1>11 DEF First, Behind
<1>15. obj[o].lease = 0 <=> Leaves(a)
  BY <1>2, <1>3, <1>5, <1>9 DEF IInv, Places, Located
<1>16. Types'
  <2>1. Idle \in [at : {"idle", "lane", "done"}, action : Nat, version : Nat]
    BY DEF Idle
  <2>2. fifo' \in [Objects -> Seq(Nat)]
    <3>1. fifo[o] # << >>
      BY <1>2, <1>3, NoneOpen DEF IInv, Lists
    <3>2. Tail(fifo[o]) \in Seq(Nat)
      BY <1>2, <3>1 DEF Types
    <3> QED BY <1>2, <1>6, <3>2 DEF Types
  <2> QED BY <1>2, <1>6, <1>7, <2>1, <2>2 DEF Types
<1>17. Listed'
  <2> SUFFICES ASSUME NEW p \in Objects
               PROVE  /\ \A i \in DOMAIN fifo'[p] : fifo'[p][i] \in Pending(p)'
                      /\ \A b \in Pending(p)' : \E i \in DOMAIN fifo'[p] : fifo'[p][i] = b
                      /\ \A i, j \in DOMAIN fifo'[p] : i < j => fifo'[p][i] < fifo'[p][j]
    BY DEF Listed
  <2>1. Pending(p)' = Pending(p) \ {a}
    BY <1>7, <1>8, <1>9 DEF Pending
  <2>2. /\ \A i \in DOMAIN fifo[p] : fifo[p][i] \in Pending(p)
        /\ \A b \in Pending(p) : \E i \in DOMAIN fifo[p] : fifo[p][i] = b
        /\ \A i, j \in DOMAIN fifo[p] : i < j => fifo[p][i] < fifo[p][j]
    BY DEF IInv, Lists, Listed
  <2>3. CASE p # o
    <3>1. fifo'[p] = fifo[p]
      BY <1>2, <1>6, <2>3 DEF Types
    <3>2. a \notin Pending(p)
      BY <1>3, <2>3 DEF Pending
    <3> QED BY <2>1, <2>2, <3>1, <3>2
  <2>4. CASE p = o
    <3> DEFINE list == fifo[o]
    <3>1. list # << >>
      BY <1>2, <1>3, NoneOpen DEF IInv, Lists
    <3>2. Head(list) = a
      <4>1. First(Head(list)) /\ acts[Head(list)].obj = o
        BY <1>2, <3>1, HeadFirst DEF IInv, Lists
      <4> QED BY <1>2, <1>3, <4>1, OneFirst
    <3>3. list \in Seq(Nat) /\ fifo'[o] = Tail(list)
      BY <1>2, <1>6 DEF Types
    <3> HIDE DEF list
    <3>4. /\ DOMAIN list = 1 .. Len(list) /\ Len(list) \in Nat /\ Len(list) > 0 /\ list[1] = a
          /\ DOMAIN Tail(list) = 1 .. Len(list) - 1
          /\ \A i \in DOMAIN Tail(list) : Tail(list)[i] = list[i + 1]
      BY <3>1, <3>2, <3>3
    <3>5. /\ \A i \in DOMAIN list : list[i] \in Pending(o) /\ list[i] \in Nat
          /\ \A b \in Pending(o) : \E i \in DOMAIN list : list[i] = b
          /\ \A i, j \in DOMAIN list : i < j => list[i] < list[j]
      BY <2>2, <2>4, <3>3 DEF list
    <3>6. \A i \in DOMAIN Tail(list) : i + 1 \in DOMAIN list /\ list[i + 1] \in Pending(o) \ {a}
      <4> SUFFICES ASSUME NEW i \in DOMAIN Tail(list)
                   PROVE  i + 1 \in DOMAIN list /\ list[i + 1] \in Pending(o) \ {a}
        OBVIOUS
      <4>1. i + 1 \in DOMAIN list /\ 1 \in DOMAIN list /\ 1 < i + 1
        BY <3>4
      <4>2. list[1] < list[i + 1] /\ list[i + 1] \in Pending(o) /\ list[1] \in Nat /\ list[i + 1] \in Nat
        BY <3>5, <4>1
      <4> QED BY <3>4, <4>1, <4>2
    <3>7. ASSUME NEW b \in Pending(o) \ {a} PROVE \E i \in DOMAIN Tail(list) : Tail(list)[i] = b
      <4>1. PICK j \in DOMAIN list : list[j] = b
        BY <3>5
      <4>2. j # 1 /\ j - 1 \in DOMAIN Tail(list) /\ (j - 1) + 1 = j
        BY <3>4, <4>1
      <4>3. Tail(list)[j - 1] = b
        BY <3>4, <4>1, <4>2
      <4> QED BY <4>2, <4>3
    <3>8. \A i, j \in DOMAIN Tail(list) : i < j => Tail(list)[i] < Tail(list)[j]
      <4> SUFFICES ASSUME NEW i \in DOMAIN Tail(list), NEW j \in DOMAIN Tail(list), i < j
                   PROVE  Tail(list)[i] < Tail(list)[j]
        OBVIOUS
      <4>1. i + 1 \in DOMAIN list /\ j + 1 \in DOMAIN list /\ i + 1 < j + 1
        BY <3>4
      <4> QED BY <3>4, <3>5, <4>1
    <3> QED BY <2>1, <2>4, <3>3, <3>4, <3>6, <3>7, <3>8
  <2> QED BY <2>3, <2>4
<1>18. Static' /\ Awaited' /\ Versions'
  <2>1. Static'
    BY <1>6, <1>7, <1>8, <1>9 DEF IInv, Lists, Static
  <2>2. Awaited'
    BY <1>4, <1>6, <1>7, <1>8, <1>10 DEF IInv, Lists, Awaited
  <2>3. Versions'
    BY <1>4, <1>6, <1>7, <1>8, <1>9 DEF IInv, Lists, Versions
  <2> QED BY <2>1, <2>2, <2>3
<1>19. Order'
  <2> SUFFICES ASSUME NEW b \in DOMAIN acts, NEW c \in DOMAIN acts, Behind(b, c)'
               PROVE  (/\ Leaves(b) => Fetch(c)
                       /\ Fetch(c) => /\ Waiting(c)
                                      /\ \E d \in DOMAIN acts :
                                           /\ acts[d].obj = acts[b].obj /\ Open(d) /\ Leaves(d)
                                           /\ b <= d /\ d < c
                       /\ ~Waiting(b)
                       /\ acts[b].version <= acts[c].version)'
    BY <1>7 DEF Order
  <2>1. Behind(b, c) /\ b # a
    BY <1>11
  <2>2. /\ Leaves(b) => Fetch(c)
        /\ Fetch(c) => Waiting(c)
        /\ ~Waiting(b)
        /\ acts[b].version <= acts[c].version
    BY <2>1 DEF IInv, Lists, Order
  <2>3. ASSUME Fetch(c)
        PROVE  \E d \in DOMAIN acts : /\ acts[d].obj = acts[b].obj /\ Open(d) /\ Leaves(d)
                                      /\ b <= d /\ d < c /\ d # a
    <3>1. PICK d \in DOMAIN acts : /\ acts[d].obj = acts[b].obj /\ Open(d) /\ Leaves(d)
                                   /\ b <= d /\ d < c
      BY <2>1, <2>3 DEF IInv, Lists, Order
    <3>2. d # a
      <4> SUFFICES ASSUME d = a PROVE FALSE
        OBVIOUS
      <4>1. b < a /\ acts[b].obj = acts[a].obj /\ Open(b)
        BY <1>4, <2>1, <3>1 DEF Behind
      <4> QED BY <1>2, <4>1 DEF First, Behind
    <3> QED BY <3>1, <3>2
  <2>4. ASSUME Fetch(c)
        PROVE  \E d \in DOMAIN acts' : /\ acts'[d].obj = acts'[b].obj /\ Open(d)' /\ Leaves(d)'
                                       /\ b <= d /\ d < c
    BY <1>7, <1>8, <1>9, <2>3, <2>4
  <2> QED BY <1>8, <1>9, <1>10, <2>2, <2>4
<1>20. Unpublished'
  <2>1. \A p \in Objects : (\E b \in DOMAIN acts : acts[b].obj = p /\ Waiting(b))'
                             <=> \E b \in DOMAIN acts : acts[b].obj = p /\ Waiting(b)
    BY <1>7, <1>8, <1>10
  <2> QED BY <1>6, <2>1 DEF IInv, Lists, Unpublished
<1>21. Stages'
  <2> SUFFICES ASSUME NEW b \in DOMAIN acts
               PROVE  (/\ ~Open(b) /\ Queued(b) => b \in copied
                       /\ b \in copied => Queued(b) /\ acts[b].state # "QUEUED" /\ (~Fetch(b) => Triggered(b))
                       /\ acts[b].state = "IN_FLIGHT" =>
                            /\ Queued(b) /\ First(b) /\ acts[b].lease # 0
                            /\ ~Done(b) => acts[b].lease = obj[acts[b].obj].lease
                            /\ Copies(b) => obj[acts[b].obj].spill
                       /\ acts[b].state = "QUEUED" =>
                            /\ Fetch(b) /\ ~InHand(b) => acts[b].lease = 0 /\ acts[b].destination
                            /\ Copies(b) /\ acts[b].lease # 0 => acts[b].lease = obj[acts[b].obj].lease
                            /\ Copies(b) /\ ~acts[b].destination =>
                                 /\ obj[acts[b].obj].spill
                                 /\ acts[b].obj \in plan.retained \/ First(b))'
    BY <1>7 DEF Stages
  <2>1. /\ ~Open(b) /\ Queued(b) => b \in copied
        /\ b \in copied => Queued(b) /\ acts[b].state # "QUEUED" /\ (~Fetch(b) => Triggered(b))
        /\ acts[b].state = "IN_FLIGHT" =>
             /\ Queued(b) /\ First(b) /\ acts[b].lease # 0
             /\ b # a => acts[b].lease = obj[acts[b].obj].lease
             /\ Copies(b) => obj[acts[b].obj].spill
        /\ acts[b].state = "QUEUED" =>
             /\ Fetch(b) => acts[b].lease = 0 /\ acts[b].destination
             /\ Copies(b) /\ acts[b].lease # 0 => acts[b].lease = obj[acts[b].obj].lease
             /\ Copies(b) /\ ~acts[b].destination =>
                  /\ obj[acts[b].obj].spill
                  /\ acts[b].obj \in plan.retained \/ First(b)
    BY <1>9 DEF IInv, Flights, Stages
  <2>2. CASE b = a
    <3>1. acts'[b].state = "FINISHED" /\ ~Open(b)'
      BY <1>8, <1>9, <2>2
    <3>2. Queued(b) => b \in copied
      BY <1>2, <2>2
    <3> QED BY <1>6, <1>9, <2>1, <3>1, <3>2
  <2>3. CASE b # a
    <3>1. First(b) => First(b)'
      BY <1>12, <2>3
    <3> QED BY <1>6, <1>8, <1>9, <2>1, <2>3, <3>1
  <2> QED BY <2>2, <2>3
<1>22. OnLanes' /\ AtLane' /\ AtDone' /\ Committed'
  <2>1. OnLanes'
    <3> SUFFICES ASSUME NEW r \in Routes, NEW i \in DOMAIN lane[r]
                 PROVE  /\ lane[r][i] \in DOMAIN acts
                        /\ lane[r][i] \notin copied => acts'[lane[r][i]].state = "IN_FLIGHT"
      BY <1>6, <1>7 DEF OnLanes
    <3>1. /\ lane[r][i] \in DOMAIN acts
          /\ lane[r][i] \notin copied => acts[lane[r][i]].state = "IN_FLIGHT"
      BY DEF IInv, Flights, OnLanes
    <3>2. lane[r][i] \notin copied => lane[r][i] # a
      BY <1>2, <3>1
    <3> QED BY <1>8, <3>1, <3>2
  <2>2. worker'.at = "idle"
    BY <1>6 DEF Idle
  <2> QED BY <2>1, <2>2 DEF AtLane, AtDone, Committed
<1>23. Located'
  <2> SUFFICES ASSUME NEW p \in Objects
               PROVE  (/\ obj[p].lease \in 0 .. Len(leases[p])
                       /\ obj[p].lease = 0 <=> obj[p].residency \in {"SPILL_ONLY", "RELEASED"}
                       /\ obj[p].lease # 0 => obj[p].execVersion = obj[p].version
                       /\ obj[p].residency = "RELEASED" => ~obj[p].spillCurrent
                       /\ obj[p].spillCurrent => obj[p].spill
                       /\ obj[p].residency = "FETCHING" =>
                            LET f == obj[p].readiness IN
                            /\ f \in DOMAIN acts /\ acts[f].obj = p /\ Fetch(f)
                            /\ acts[f].state = "IN_FLIGHT" /\ ~Done(f)
                       /\ obj[p].residency = "EVICTING" => Leaving(p)
                       /\ \A b \in DOMAIN acts : acts[b].obj = p /\ First(b) =>
                            /\ obj[p].lease = 0 <=> Waiting(b) \/ (Leaves(b) /\ Done(b))
                            /\ Fetch(b) /\ acts[b].state = "IN_FLIGHT" /\ ~Done(b) =>
                                 obj[p].residency = "FETCHING" /\ obj[p].readiness = b)'
    BY DEF Located
  <2>1. /\ obj[p].lease \in 0 .. Len(leases[p])
        /\ obj[p].lease = 0 <=> obj[p].residency \in {"SPILL_ONLY", "RELEASED"}
        /\ obj[p].lease # 0 => obj[p].execVersion = obj[p].version
        /\ obj[p].residency = "RELEASED" => ~obj[p].spillCurrent
        /\ obj[p].spillCurrent => obj[p].spill
        /\ obj[p].residency = "EVICTING" => Leaving(p)
    BY DEF IInv, Places, Located
  <2>2. obj[p].residency = "FETCHING" =>
          LET f == obj[p].readiness IN
          /\ f \in DOMAIN acts /\ acts[f].obj = p /\ Fetch(f)
          /\ acts[f].state = "IN_FLIGHT" /\ f # a
    BY <1>9 DEF IInv, Places, Located
  <2>3. obj[p].residency = "FETCHING" =>
          /\ obj[p].readiness \in DOMAIN acts /\ acts'[obj[p].readiness].obj = p
          /\ acts'[obj[p].readiness].kind = "FETCH"
          /\ acts'[obj[p].readiness].state = "IN_FLIGHT" /\ ~Done(obj[p].readiness)'
    BY <1>8, <1>9, <2>2 DEF Fetch
  <2>4. obj[p].residency = "EVICTING" => Leaving(p)'
    <3> SUFFICES ASSUME obj[p].residency = "EVICTING" PROVE Leaving(p)'
      OBVIOUS
    <3>1. PICK b \in DOMAIN acts : acts[b].obj = p /\ Open(b) /\ Leaves(b)
      BY <2>1 DEF Leaving
    <3>2. b # a
      BY <1>3, <1>15, <2>1, <3>1
    <3> QED BY <1>7, <1>8, <1>9, <3>1, <3>2 DEF Leaving
  <2>5. ASSUME NEW b \in DOMAIN acts, acts[b].obj = p, First(b)'
        PROVE  /\ obj[p].lease = 0 <=> Waiting(b)
               /\ Fetch(b) /\ acts'[b].state = "IN_FLIGHT" =>
                    obj[p].residency = "FETCHING" /\ obj[p].readiness = b
    <3>1. Open(b) /\ b # a
      BY <1>9, <2>5 DEF First
    <3>2. CASE p # o
      <4>1. First(b)
        BY <1>14, <2>5, <3>2
      <4> QED BY <1>8, <1>9, <2>5, <3>1, <4>1 DEF IInv, Places, Located
    <3>3. CASE p = o
      <4>1. Behind(a, b)
        BY <1>13, <2>5, <3>1, <3>3
      <4>2. Fetch(b) => Waiting(b)
        BY <1>2, <4>1 DEF IInv, Lists, Order
      <4>3. CASE Leaves(a)
        <5>1. Waiting(b)
          BY <1>2, <4>1, <4>2, <4>3 DEF IInv, Lists, Order
        <5>2. acts'[b].state # "IN_FLIGHT"
          BY <1>8, <3>1, <5>1 DEF Waiting
        <5> QED BY <1>15, <3>3, <4>3, <5>1, <5>2
      <4>4. CASE ~Leaves(a)
        <5> SUFFICES ASSUME Fetch(b) PROVE FALSE
          BY <1>15, <3>3, <4>4 DEF Waiting
        <5>1. PICK c \in DOMAIN acts : /\ acts[c].obj = acts[a].obj /\ Open(c) /\ Leaves(c)
                                       /\ a <= c /\ c < b
          BY <1>2, <4>1 DEF IInv, Lists, Order
        <5>2. Behind(c, b) /\ c # a
          BY <1>3, <2>5, <3>1, <3>3, <4>4, <5>1 DEF Behind
        <5>3. Behind(c, b)'
          BY <1>11, <5>2
        <5> QED BY <1>7, <2>5, <5>3 DEF First
      <4> QED BY <4>3, <4>4
    <3> QED BY <3>2, <3>3
  <2>6. obj' = obj /\ leases' = leases
    BY <1>6
  <2>7. obj[p].residency = "FETCHING" => Fetch(obj[p].readiness)'
    BY <2>3, <2>6 DEF Fetch
  <2>8. ASSUME NEW b \in DOMAIN acts', acts'[b].obj = p, First(b)'
        PROVE  (/\ obj[p].lease = 0 <=> Waiting(b) \/ (Leaves(b) /\ Done(b))
                /\ Fetch(b) /\ acts[b].state = "IN_FLIGHT" /\ ~Done(b) =>
                     obj[p].residency = "FETCHING" /\ obj[p].readiness = b)'
    <3>1. b \in DOMAIN acts /\ acts[b].obj = p
      BY <1>7, <1>8, <2>8
    <3> QED BY <1>9, <1>10, <2>5, <2>6, <2>8, <3>1
  <2> QED BY <1>7, <2>1, <2>3, <2>4, <2>6, <2>7, <2>8
<1>24. LeaseStates'
  <2> SUFFICES ASSUME NEW p \in Objects
               PROVE  (/\ \A g \in DOMAIN leases[p] :
                            /\ leases[p][g].state = "IN_USE" => leases[p][g].event = NoEvent
                            /\ g # obj[p].lease =>
                                 \/ leases[p][g].state = "FREE"
                                 \/ /\ InHand(worker.action) /\ acts[worker.action].obj = p
                                    /\ acts[worker.action].lease = g
                       /\ obj[p].lease # 0 /\ ~(\E b \in DOMAIN acts : acts[b].obj = p /\ Open(b) /\ Leaves(b) /\ ~acts[b].late) =>
                            leases[p][obj[p].lease].state = "IN_USE"
                       /\ obj[p].lease # 0 => \A b \in DOMAIN acts :
                            acts[b].obj = p /\ Open(b) /\ Leaves(b) /\ ~acts[b].late =>
                              /\ leases[p][obj[p].lease].state = "RETIRE_PENDING"
                              /\ leases[p][obj[p].lease].event =
                                   IF acts[b].kind = "RELEASE" THEN << "task", acts[b].task >>
                                   ELSE IF acts[b].state = "QUEUED" THEN NoEvent ELSE << "copy", b >>)'
    BY DEF LeaseStates
  <2>1. /\ \A g \in DOMAIN leases[p] :
             /\ leases[p][g].state = "IN_USE" => leases[p][g].event = NoEvent
             /\ g # obj[p].lease => leases[p][g].state = "FREE"
        /\ obj[p].lease # 0 /\ ~(\E b \in DOMAIN acts : acts[b].obj = p /\ Open(b) /\ Leaves(b) /\ ~acts[b].late) =>
             leases[p][obj[p].lease].state = "IN_USE"
        /\ obj[p].lease # 0 => \A b \in DOMAIN acts :
             acts[b].obj = p /\ Open(b) /\ Leaves(b) /\ ~acts[b].late =>
               /\ leases[p][obj[p].lease].state = "RETIRE_PENDING"
               /\ leases[p][obj[p].lease].event =
                    IF acts[b].kind = "RELEASE" THEN << "task", acts[b].task >>
                    ELSE IF acts[b].state = "QUEUED" THEN NoEvent ELSE << "copy", b >>
    BY <1>9 DEF IInv, Places, LeaseStates
  <2>2. obj[p].lease # 0 => \A b \in DOMAIN acts : acts[b].obj = p /\ Leaves(b) => b # a
    BY <1>3, <1>15
  <2>3. obj' = obj /\ leases' = leases
    BY <1>6
  <2>4. obj[p].lease # 0 => \A b \in DOMAIN acts :
          /\ (acts[b].obj = p /\ Open(b) /\ Leaves(b) /\ ~acts[b].late)'
               <=> (acts[b].obj = p /\ Open(b) /\ Leaves(b) /\ ~acts[b].late)
          /\ acts[b].obj = p /\ Leaves(b) => acts'[b].kind = acts[b].kind /\ acts'[b].task = acts[b].task
                                             /\ acts'[b].state = acts[b].state
    BY <1>8, <1>9, <2>2
  <2>5. obj[p].lease # 0 => \A b \in DOMAIN acts' :
          (acts[b].obj = p /\ Open(b) /\ Leaves(b) /\ ~acts[b].late)' =>
            /\ leases[p][obj[p].lease].state = "RETIRE_PENDING"
            /\ leases[p][obj[p].lease].event =
                 IF acts'[b].kind = "RELEASE" THEN << "task", acts'[b].task >>
                 ELSE IF acts'[b].state = "QUEUED" THEN NoEvent ELSE << "copy", b >>
    BY <1>7, <2>1, <2>4
  <2>6. obj[p].lease # 0 /\ ~(\E b \in DOMAIN acts : acts[b].obj = p /\ Open(b) /\ Leaves(b) /\ ~acts[b].late)' =>
          leases[p][obj[p].lease].state = "IN_USE"
    BY <1>7, <2>1, <2>4
  <2> QED BY <2>1, <2>3, <2>5, <2>6
<1>25. Updating'
  BY <1>6, <1>7, <1>8, <1>9 DEF IInv, Places, Updating, Leaving
<1>26. Users' /\ Waits' /\ Releases'
  <2>1. Users'
    BY <1>4, <1>6, <1>7, <1>8, <1>9 DEF IInv, Uses, Users
  <2>2. Waits'
    <3> SUFFICES ASSUME NEW b \in DOMAIN acts, NEW t \in DOMAIN tasks,
                        b \notin copied, Fetch(b), tasks[t].obj = acts[b].obj, Open(b), b # a
                 PROVE  /\ t > acts[b].task => b \in tasks[t].waits
                        /\ acts[b].state = "IN_FLIGHT" /\ t > ran => b \in tasks[t].waits
      BY <1>6, <1>7, <1>8, <1>9 DEF Waits
    <3> QED BY DEF IInv, Uses, Waits
  <2>3. Releases'
    BY <1>6, <1>7, <1>8, <1>9, <1>11 DEF IInv, Uses, Releases
  <2> QED BY <2>1, <2>2, <2>3
<1>27. \A p \in Objects :
         /\ Held(p)' = Held(p) /\ Upcoming(p)' = Upcoming(p)
         /\ \A r : After(p, r)' = After(p, r) /\ Expected(p, r)' = Expected(p, r)
  <2>1. \A p \in Objects : Held(p)' = Held(p) /\ Upcoming(p)' = Upcoming(p)
    BY <1>6 DEF Held, Loading, Upcoming
  <2> QED BY <1>6, <2>1 DEF After, Expected
<1>28. Chained' /\ Bounded'
  BY <1>6, <1>9, <1>27 DEF IInv, Values, Chained, Bounded
<1>29. Reached'
  <2> SUFFICES ASSUME NEW b \in DOMAIN acts, Open(b), Copies(b), NEW p \in Objects, p = acts[b].obj,
                      obj[p].lease # 0, NEW r \in Points(p),
                      \A u \in Unrun(p) : ~(r < u /\ u <= acts[b].task)
               PROVE  acts[b].version <= After(p, r)'
    BY <1>4, <1>6, <1>7, <1>8, <1>9, ZenonT(20) DEF Reached
  <2>1. acts[b].version <= After(p, r)
    BY DEF IInv, Values, Reached
  <2> QED BY <1>27, <2>1
<1>30. SpillCopyTrue' /\ TasksReadCurrent' /\ PlanNeverFails'
  BY <1>6 DEF IInv, Values, SpillCopyTrue, TasksReadCurrent, PlanNeverFails
<1>31. Worth'
  <2> SUFFICES ASSUME NEW b \in DOMAIN acts, Open(b), b # a, NEW p \in Objects, p = acts[b].obj
               PROVE  (/\ obj[p].spillCurrent /\ obj[p].spillVersion = obj[p].version =>
                            acts[b].version = obj[p].version
                       /\ /\ acts[b].version = obj[p].version /\ (acts[b].spill \/ Waiting(b)) /\ ~Copies(b)
                          => Refreshed(p, b) \/ (Fetch(b) /\ ~Waiting(b) /\ p \notin plan.retained)
                       /\ Copies(b) /\ b \in copied /\ acts[b].version = obj[p].version /\ boundary.update # p =>
                            spilled[p] = obj[p].version)'
    BY <1>4, <1>7, <1>8, <1>9 DEF Worth
  <2>1. /\ obj[p].spillCurrent /\ obj[p].spillVersion = obj[p].version =>
             acts[b].version = obj[p].version
        /\ /\ acts[b].version = obj[p].version /\ (acts[b].spill \/ Waiting(b)) /\ ~Copies(b)
           => Refreshed(p, b) \/ (Fetch(b) /\ ~Waiting(b) /\ p \notin plan.retained)
        /\ Copies(b) /\ b \in copied /\ acts[b].version = obj[p].version /\ boundary.update # p =>
             spilled[p] = obj[p].version
    BY DEF IInv, Values, Worth
  <2>2. Refreshed(p, b) => Refreshed(p, b)'
    <3>1. CASE /\ Current(p)
               /\ p \notin plan.retained => \A c \in DOMAIN acts : Fetch(c) => ~Behind(c, b)
      <4>1. Current(p)'
        BY <1>6, <3>1 DEF Current
      <4>2. p \notin plan'.retained => \A c \in DOMAIN acts' : Fetch(c)' => ~Behind(c, b)'
        BY <1>6, <1>7, <1>9, <1>11, <3>1
      <4> QED BY <4>1, <4>2 DEF Refreshed
    <3>2. CASE \E c \in DOMAIN acts : Behind(c, b) /\ Copies(c) /\ acts[c].version = obj[p].version
      <4>1. PICK c \in DOMAIN acts : Behind(c, b) /\ Copies(c) /\ acts[c].version = obj[p].version
        BY <3>2
      <4>2. CASE c # a
        <5>1. c \in DOMAIN acts' /\ Behind(c, b)' /\ Copies(c)' /\ acts'[c].version = obj'[p].version
          BY <1>6, <1>7, <1>8, <1>9, <1>11, <4>1, <4>2
        <5> QED BY <5>1 DEF Refreshed
      <4>3. CASE c = a
        <5>1. p = o
          BY <1>3, <4>1, <4>3 DEF Behind
        <5>2. obj[o].spillCurrent /\ obj[o].spillVersion = obj[o].version
          BY <1>1, <1>2, <1>3, <4>1, <4>3, <5>1 DEF IInv, Committed
        <5>3. Current(o)
          BY <5>2 DEF Current, IInv, Places, Located
        <5>4. Current(p)'
          BY <1>6, <5>1, <5>3 DEF Current
        <5>5. ASSUME NEW d \in DOMAIN acts, Fetch(d), Behind(d, b), d # a PROVE FALSE
          <6>1. acts[d].obj = o /\ Open(d)
            BY <5>1, <5>5 DEF Behind
          <6>2. Behind(a, d)
            BY <1>13, <5>5, <6>1
          <6>3. Waiting(d)
            BY <1>2, <5>5, <6>2 DEF IInv, Lists, Order
          <6> QED BY <5>5, <6>3 DEF IInv, Lists, Order
        <5>6. \A d \in DOMAIN acts' : Fetch(d)' => ~Behind(d, b)'
          BY <1>7, <1>9, <1>11, <5>5
        <5> QED BY <5>4, <5>6 DEF Refreshed
      <4> QED BY <4>2, <4>3
    <3> QED BY <3>1, <3>2 DEF Refreshed
  <2> QED BY <1>6, <1>8, <1>9, <1>10, <2>1, <2>2
<1>32. Reused'
  <2>1. \A e : Complete(e)' <=> Complete(e)
    BY <1>6 DEF Complete
  <2>2. \A range : Lease(range)' = Lease(range)
    BY <1>6 DEF Lease
  <2> SUFFICES ASSUME NEW b \in DOMAIN acts, acts[b].pred # NoRange, NEW range, range = acts[b].pred
               PROVE  /\ acts'[b].kind = "FETCH" /\ range[1] \in Objects
                      /\ range[2] \in DOMAIN leases[range[1]] /\ Lease(range).state # "IN_USE"
                      /\ acts[b].lease # 0 =>
                           Lease(range).state = "FREE" \/ (acts[b].waits = Lease(range).event /\ acts[b].waits # NoEvent)
                      /\ b \in copied => Lease(range).state = "FREE" \/ Complete(Lease(range).event)
    BY <1>6, <1>7, <1>8, <2>1, <2>2 DEF Reused, Fetch
  <2> QED BY <1>8 DEF IInv, Reused, Fetch
<1> QED BY <1>16, <1>17, <1>18, <1>19, <1>20, <1>21, <1>22, <1>23, <1>24, <1>25, <1>26, <1>28, <1>29, <1>30,
           <1>31, <1>32 DEF IInv, Lists, Flights, Places, Uses, Values

-----------------------------------------------------------------------------
(* The device runs a task or a copy.                                       *)

\* An event that is complete stays complete.
LEMMA CompleteStays ==
  ASSUME Types, ran' \in Nat, ran <= ran', copied \subseteq copied', NEW e \in Events, Complete(e)
  PROVE  Complete(e)'
<1>1. ran \in Nat
  BY DEF Types
<1>2. e = NoEvent \/ (e[1] \in {"task", "copy"} /\ e[2] \in Nat)
  BY DEF Events
<1> QED BY <1>1, <1>2 DEF Complete, NoEvent

\* The next task finds its object where the boundary bound it, loaded and at
\* the version it expects.
LEMMA NextTask ==
  ASSUME IInv, NEW n \in Nat, n = ran + 1, n \in DOMAIN tasks, tasks[n].waits \subseteq copied
  PROVE  LET o == tasks[n].obj IN
         /\ n \in Unrun(o) /\ tasks[n].lease = obj[o].lease /\ obj[o].lease \in DOMAIN leases[o]
         /\ obj[o].lease # 0 /\ ~Loading(o)
         /\ leases[o][obj[o].lease].data = tasks[n].expects
<1>1. PICK o \in Objects : o = tasks[n].obj
  BY TaskTyped DEF IInv
<1>2. Types /\ ran \in Nat /\ Len(tasks) \in Nat /\ DOMAIN tasks = 1 .. Len(tasks)
  BY SMTT(20) DEF IInv, Types
<1>3. n \in Unrun(o)
  BY <1>1, <1>2 DEF Unrun
<1>4. tasks[n].lease = obj[o].lease
  BY <1>3 DEF IInv, Uses, Users
<1>5. leases[o] \in Seq(LeaseRecord)
  BY <1>2, ObjectTyped
<1>6. obj[o].lease # 0 /\ obj[o].lease \in DOMAIN leases[o]
  BY <1>1, <1>4, <1>5 DEF IInv, Uses, Users
<1>7. ~Loading(o)
  <2> SUFFICES ASSUME obj[o].residency = "FETCHING", NEW f, f = obj[o].readiness, f \notin copied
               PROVE  FALSE
    BY DEF Loading
  <2>1. f \in DOMAIN acts /\ acts[f].obj = o /\ Fetch(f) /\ acts[f].state = "IN_FLIGHT" /\ Open(f)
    BY DEF IInv, Places, Located, Open
  <2>2. f \in tasks[n].waits
    BY <1>1, <1>2, <2>1 DEF IInv, Uses, Waits
  <2> QED BY <2>2
<1>8. leases[o][obj[o].lease].data = tasks[n].expects
  <2>1. Expected(o, n) = After(o, ran)
    <3>1. ran \in Points(o) /\ n \in Unrun(o) \cup {Len(tasks) + 1} /\ ran < n
      BY <1>2, <1>3 DEF Points
    <3>2. \A u \in Unrun(o) : ~(ran < u /\ u < n)
      BY <1>2 DEF Unrun
    <3> QED BY <1>6, <3>1, <3>2 DEF IInv, Values, Chained
  <2>2. Expected(o, n) = tasks[n].expects
    BY DEF Expected
  <2>3. After(o, ran) = leases[o][obj[o].lease].data
    BY <1>7 DEF After, Held
  <2> QED BY <2>1, <2>2, <2>3
<1> QED BY <1>1, <1>3, <1>4, <1>6, <1>7, <1>8

\* The stream runs the next task.
LEMMA RunTaskInv ==
  ASSUME IInv, RunTask
  PROVE  IInv'
<1>1. PICK n \in Nat : n = ran + 1
  BY DEF IInv, Types
<1>2. Types /\ ran \in Nat /\ Len(tasks) \in Nat /\ DOMAIN tasks = 1 .. Len(tasks) /\ n \in DOMAIN tasks
  <2>1. Types /\ tasks \in Seq(LaunchRecord) /\ ran \in 0 .. Len(tasks) /\ ran < Len(tasks)
    BY DEF IInv, Types, RunTask
  <2> QED BY <1>1, <2>1
<1>3. /\ tasks[n].waits \subseteq copied /\ ran' = n
      /\ UNCHANGED << obj, acts, fifo, sequences, worker, boundary, published, failed, lane, copied,
                      spilled, plan >>
  BY <1>1 DEF RunTask
<1>4. PICK o \in Objects : o = tasks[n].obj
  BY <1>2, TaskTyped
<1>5. PICK g : g = obj[o].lease
  OBVIOUS
<1>6. /\ n \in Unrun(o) /\ tasks[n].lease = g /\ g \in DOMAIN leases[o] /\ g # 0 /\ ~Loading(o)
      /\ leases[o][g].data = tasks[n].expects
  BY <1>1, <1>2, <1>3, <1>4, <1>5, NextTask
<1>7. /\ tasks' = [tasks EXCEPT ![n].saw = leases[o][g].data]
      /\ leases' = IF tasks[n].mutates THEN [leases EXCEPT ![o][g].data = tasks[n].expects + 1] ELSE leases
  BY <1>1, <1>4, <1>6 DEF RunTask
<1>8. leases[o] \in Seq(LeaseRecord) /\ leases[o][g] \in LeaseRecord /\ tasks[n] \in LaunchRecord
  BY <1>2, <1>6, ObjectTyped, TaskTyped
<1>9. /\ tasks' \in Seq(LaunchRecord) /\ Len(tasks') = Len(tasks) /\ DOMAIN tasks' = DOMAIN tasks
      /\ \A t \in DOMAIN tasks :
           /\ tasks'[t].obj = tasks[t].obj /\ tasks'[t].lease = tasks[t].lease
           /\ tasks'[t].mutates = tasks[t].mutates /\ tasks'[t].expects = tasks[t].expects
           /\ tasks'[t].waits = tasks[t].waits
           /\ tasks'[t].saw = IF t = n THEN leases[o][g].data ELSE tasks[t].saw
  <2> DEFINE item == [tasks[n] EXCEPT !.saw = leases[o][g].data]
  <2>1. item \in LaunchRecord
    BY <1>8 DEF LaunchRecord, LeaseRecord
  <2>2. /\ item.obj = tasks[n].obj /\ item.lease = tasks[n].lease /\ item.mutates = tasks[n].mutates
        /\ item.expects = tasks[n].expects /\ item.waits = tasks[n].waits /\ item.saw = leases[o][g].data
    BY <1>8 DEF LaunchRecord
  <2>3. tasks \in Seq(LaunchRecord) /\ tasks' = [tasks EXCEPT ![n] = item]
    BY <1>2, <1>7 DEF Types
  <2> HIDE DEF item
  <2>4. /\ tasks' \in Seq(LaunchRecord) /\ Len(tasks') = Len(tasks) /\ DOMAIN tasks' = DOMAIN tasks
        /\ tasks'[n] = item /\ \A t \in DOMAIN tasks : t # n => tasks'[t] = tasks[t]
    BY <1>2, <2>1, <2>3, Replaced
  <2> QED BY <2>2, <2>4
<1>10. /\ leases' \in [Objects -> Seq(LeaseRecord)]
       /\ \A p \in Objects : p # o => leases'[p] = leases[p]
       /\ Len(leases'[o]) = Len(leases[o]) /\ DOMAIN leases'[o] = DOMAIN leases[o]
       /\ \A h \in DOMAIN leases[o] :
            /\ leases'[o][h].state = leases[o][h].state /\ leases'[o][h].event = leases[o][h].event
            /\ h # g => leases'[o][h].data = leases[o][h].data
       /\ leases'[o][g].data = IF tasks[n].mutates THEN tasks[n].expects + 1 ELSE tasks[n].expects
  <2>1. CASE ~tasks[n].mutates
    BY <1>2, <1>6, <1>7, <2>1 DEF Types
  <2>2. CASE tasks[n].mutates
    <3> DEFINE item == [leases[o][g] EXCEPT !.data = tasks[n].expects + 1]
               list == [leases[o] EXCEPT ![g] = item]
    <3>1. tasks[n].expects + 1 \in Int
      BY <1>8 DEF LaunchRecord
    <3>2. item \in LeaseRecord
      BY <1>8, <3>1 DEF LeaseRecord
    <3>3. item.state = leases[o][g].state /\ item.event = leases[o][g].event
          /\ item.data = tasks[n].expects + 1
      BY <1>8 DEF LeaseRecord
    <3>4. leases' = [leases EXCEPT ![o] = list]
      BY <1>2, <1>7, <2>2 DEF Types
    <3> HIDE DEF item
    <3>5. /\ list \in Seq(LeaseRecord) /\ Len(list) = Len(leases[o]) /\ DOMAIN list = DOMAIN leases[o]
          /\ list[g] = item /\ \A h \in DOMAIN leases[o] : h # g => list[h] = leases[o][h]
      BY <1>6, <1>8, <3>2, Replaced
    <3> HIDE DEF list
    <3>6. /\ leases'[o] = list /\ leases' \in [Objects -> Seq(LeaseRecord)]
          /\ \A p \in Objects : p # o => leases'[p] = leases[p]
      BY <1>2, <3>4, <3>5 DEF Types
    <3> QED BY <2>2, <3>3, <3>5, <3>6
  <2> QED BY <2>1, <2>2
<1>11. \A p \in Objects :
         /\ Len(leases'[p]) = Len(leases[p]) /\ DOMAIN leases'[p] = DOMAIN leases[p]
         /\ \A h \in DOMAIN leases[p] :
              leases'[p][h].state = leases[p][h].state /\ leases'[p][h].event = leases[p][h].event
  BY <1>10
<1>12. \A b \in DOMAIN acts : acts[b].obj \in Objects /\ acts[b].task \in Nat
  BY <1>2, ActionTyped DEF ActionRecord
<1>13. Types'
  <2>1. ran' \in 0 .. Len(tasks')
    BY <1>1, <1>2, <1>3, <1>9
  <2> QED BY <1>2, <1>3, <1>9, <1>10, <2>1 DEF Types
<1>14. /\ \A b, c : Behind(b, c)' <=> Behind(b, c)
       /\ \A b : /\ (Open(b)' <=> Open(b)) /\ (Queued(b)' <=> Queued(b)) /\ (Copies(b)' <=> Copies(b))
                 /\ (Fetch(b)' <=> Fetch(b)) /\ (Leaves(b)' <=> Leaves(b)) /\ (Waiting(b)' <=> Waiting(b))
                 /\ (First(b)' <=> First(b)) /\ (InHand(b)' <=> InHand(b)) /\ (Done(b)' <=> Done(b))
       /\ \A p : (Leaving(p)' <=> Leaving(p)) /\ Pending(p)' = Pending(p)
       /\ \A b \in DOMAIN acts : Triggered(b) => Triggered(b)'
  <2>1. \A b \in DOMAIN acts : Triggered(b) => Triggered(b)'
    BY <1>1, <1>2, <1>3, <1>12 DEF Triggered
  <2> QED BY <1>3, <2>1 DEF Behind, Open, Queued, Copies, Fetch, Leaves, Waiting, First, InHand, Done, Leaving,
          Pending
<1>15. Lists'
  <2>1. Listed' /\ Order' /\ Unpublished'
    BY <1>3, <1>14 DEF IInv, Lists, Listed, Order, Unpublished
  <2>2. Static'
    BY <1>3, <1>9, <1>11, <1>12, <1>14 DEF IInv, Lists, Static
  <2>3. Awaited' /\ Versions'
    BY <1>3, <1>9, <1>14 DEF IInv, Lists, Awaited, Versions
  <2> QED BY <2>1, <2>2, <2>3 DEF Lists
<1>16. Flights'
  <2>1. Stages'
    BY <1>3, <1>14, SMTT(20) DEF IInv, Flights, Stages
  <2>2. OnLanes' /\ AtDone'
    BY <1>3, <1>14, SMTT(20) DEF IInv, Flights, OnLanes, AtDone
  <2>3. AtLane'
    <3> SUFFICES ASSUME worker.at = "lane", NEW a, a = worker.action
                 PROVE  (LET x == obj[acts[a].obj] IN
                         /\ First(a) /\ Queued(a) /\ acts[a].state = "QUEUED" /\ acts[a].lease # 0
                         /\ IF Fetch(a)
                            THEN /\ Fetchable(x) /\ x.lease = 0 /\ x.version = worker.version
                                 /\ leases[acts[a].obj][acts[a].lease].state = "IN_USE"
                                 /\ \A t \in DOMAIN tasks :
                                      tasks[t].obj = acts[a].obj => tasks[t].lease # acts[a].lease
                                 /\ \A b \in DOMAIN acts :
                                      acts[b].obj = acts[a].obj /\ acts[b].lease = acts[a].lease => b = a
                            ELSE acts[a].lease = x.lease /\ x.spill)'
      BY <1>3 DEF AtLane
    <3>1. /\ First(a) /\ Queued(a) /\ acts[a].state = "QUEUED" /\ acts[a].lease # 0
          /\ IF Fetch(a)
             THEN /\ Fetchable(obj[acts[a].obj]) /\ obj[acts[a].obj].lease = 0
                  /\ obj[acts[a].obj].version = worker.version
                  /\ leases[acts[a].obj][acts[a].lease].state = "IN_USE"
                  /\ \A t \in DOMAIN tasks :
                       tasks[t].obj = acts[a].obj => tasks[t].lease # acts[a].lease
                  /\ \A b \in DOMAIN acts :
                       acts[b].obj = acts[a].obj /\ acts[b].lease = acts[a].lease => b = a
             ELSE acts[a].lease = obj[acts[a].obj].lease /\ obj[acts[a].obj].spill
      BY DEF IInv, Flights, AtLane
    <3>2. a \in DOMAIN acts /\ acts[a].lease \in DOMAIN leases[acts[a].obj]
      <4>1. a \in DOMAIN acts
        BY <3>1 DEF First
      <4>2. acts[a].lease \in 0 .. Len(leases[acts[a].obj]) /\ leases[acts[a].obj] \in Seq(LeaseRecord)
        BY <1>2, <1>12, <4>1, ObjectTyped DEF IInv, Lists, Static
      <4> QED BY <3>1, <4>1, <4>2
    <3>3. leases'[acts[a].obj][acts[a].lease].state = leases[acts[a].obj][acts[a].lease].state
      BY <1>11, <1>12, <3>2
    <3> QED BY <1>3, <1>9, <1>14, <3>1, <3>3 DEF Fetchable
  <2> QED BY <2>1, <2>2, <2>3 DEF Flights
<1>17. Places'
  <2>1. Located'
    <3> SUFFICES ASSUME NEW p \in Objects
                 PROVE  (/\ obj[p].lease \in 0 .. Len(leases[p])
                         /\ obj[p].lease = 0 <=> obj[p].residency \in {"SPILL_ONLY", "RELEASED"}
                         /\ obj[p].lease # 0 => obj[p].execVersion = obj[p].version
                         /\ obj[p].residency = "RELEASED" => ~obj[p].spillCurrent
                         /\ obj[p].spillCurrent => obj[p].spill
                         /\ obj[p].residency = "FETCHING" =>
                              LET f == obj[p].readiness IN
                              /\ f \in DOMAIN acts /\ acts[f].obj = p /\ Fetch(f)
                              /\ acts[f].state = "IN_FLIGHT" /\ ~Done(f)
                         /\ obj[p].residency = "EVICTING" => Leaving(p)
                         /\ \A b \in DOMAIN acts : acts[b].obj = p /\ First(b) =>
                              /\ obj[p].lease = 0 <=> Waiting(b) \/ (Leaves(b) /\ Done(b))
                              /\ Fetch(b) /\ acts[b].state = "IN_FLIGHT" /\ ~Done(b) =>
                                   obj[p].residency = "FETCHING" /\ obj[p].readiness = b)'
      BY DEF Located
    <3>1. /\ obj[p].lease \in 0 .. Len(leases[p])
          /\ obj[p].lease = 0 <=> obj[p].residency \in {"SPILL_ONLY", "RELEASED"}
          /\ obj[p].lease # 0 => obj[p].execVersion = obj[p].version
          /\ obj[p].residency = "RELEASED" => ~obj[p].spillCurrent
          /\ obj[p].spillCurrent => obj[p].spill
          /\ obj[p].residency = "EVICTING" => Leaving(p)
          /\ \A b \in DOMAIN acts : acts[b].obj = p /\ First(b) =>
               /\ obj[p].lease = 0 <=> Waiting(b) \/ (Leaves(b) /\ Done(b))
               /\ Fetch(b) /\ acts[b].state = "IN_FLIGHT" /\ ~Done(b) =>
                    obj[p].residency = "FETCHING" /\ obj[p].readiness = b
      BY DEF IInv, Places, Located
    <3>2. obj[p].residency = "FETCHING" =>
            LET f == obj[p].readiness IN
            /\ f \in DOMAIN acts /\ acts[f].obj = p /\ Fetch(f)
            /\ acts[f].state = "IN_FLIGHT" /\ ~Done(f)
      BY DEF IInv, Places, Located
    <3>3. obj[p].residency = "FETCHING" => Fetch(obj[p].readiness)' /\ ~Done(obj[p].readiness)'
      BY <1>3, <3>2 DEF Fetch, Done
    <3> QED BY <1>3, <1>11, <1>14, <3>1, <3>2, <3>3
  <2>2. LeaseStates'
    <3> SUFFICES ASSUME NEW p \in Objects
                 PROVE  (/\ \A h \in DOMAIN leases[p] :
                              /\ leases[p][h].state = "IN_USE" => leases[p][h].event = NoEvent
                              /\ h # obj[p].lease =>
                                   \/ leases[p][h].state = "FREE"
                                   \/ /\ InHand(worker.action) /\ acts[worker.action].obj = p
                                      /\ acts[worker.action].lease = h
                         /\ obj[p].lease # 0 /\ ~(\E b \in DOMAIN acts : acts[b].obj = p /\ Open(b) /\ Leaves(b) /\ ~acts[b].late) =>
                              leases[p][obj[p].lease].state = "IN_USE"
                         /\ obj[p].lease # 0 => \A b \in DOMAIN acts :
                              acts[b].obj = p /\ Open(b) /\ Leaves(b) /\ ~acts[b].late =>
                                /\ leases[p][obj[p].lease].state = "RETIRE_PENDING"
                                /\ leases[p][obj[p].lease].event =
                                     IF acts[b].kind = "RELEASE" THEN << "task", acts[b].task >>
                                     ELSE IF acts[b].state = "QUEUED" THEN NoEvent ELSE << "copy", b >>)'
      BY DEF LeaseStates
    <3>1. /\ \A h \in DOMAIN leases[p] :
               /\ leases[p][h].state = "IN_USE" => leases[p][h].event = NoEvent
               /\ h # obj[p].lease =>
                    \/ leases[p][h].state = "FREE"
                    \/ /\ InHand(worker.action) /\ acts[worker.action].obj = p
                       /\ acts[worker.action].lease = h
          /\ obj[p].lease # 0 /\ ~(\E b \in DOMAIN acts : acts[b].obj = p /\ Open(b) /\ Leaves(b) /\ ~acts[b].late) =>
               leases[p][obj[p].lease].state = "IN_USE"
          /\ obj[p].lease # 0 => \A b \in DOMAIN acts :
               acts[b].obj = p /\ Open(b) /\ Leaves(b) /\ ~acts[b].late =>
                 /\ leases[p][obj[p].lease].state = "RETIRE_PENDING"
                 /\ leases[p][obj[p].lease].event =
                      IF acts[b].kind = "RELEASE" THEN << "task", acts[b].task >>
                      ELSE IF acts[b].state = "QUEUED" THEN NoEvent ELSE << "copy", b >>
      BY DEF IInv, Places, LeaseStates
    <3>2. obj[p].lease # 0 =>
            /\ leases'[p][obj[p].lease].state = leases[p][obj[p].lease].state
            /\ leases'[p][obj[p].lease].event = leases[p][obj[p].lease].event
      <4>1. obj[p].lease \in 0 .. Len(leases[p]) /\ leases[p] \in Seq(LeaseRecord)
        BY <1>2, ObjectTyped DEF IInv, Places, Located
      <4> QED BY <1>11, <4>1
    <3>3. InHand(worker.action)' <=> InHand(worker.action)
      BY <1>3 DEF InHand
    <3> QED BY <1>3, <1>11, <1>14, <3>1, <3>2, <3>3
  <2>3. Updating'
    BY <1>3, <1>14 DEF IInv, Places, Updating
  <2> QED BY <2>1, <2>2, <2>3 DEF Places
<1>18. /\ Unrun(o)' = Unrun(o) \ {n}
       /\ \A p \in Objects : p # o => n \notin Unrun(p) /\ Unrun(p)' = Unrun(p)
       /\ \A p : Unrun(p)' \subseteq Unrun(p) /\ Points(p)' = {n} \cup Unrun(p)'
  <2>1. \A p : Unrun(p)' = {t \in Unrun(p) : t # n}
    BY <1>1, <1>2, <1>3, <1>9 DEF Unrun
  <2>2. \A p \in Objects : p # o => n \notin Unrun(p)
    BY <1>4 DEF Unrun
  <2> QED BY <1>3, <2>1, <2>2 DEF Points
<1>19. Uses'
  <2>1. \A t \in DOMAIN tasks : tasks[t].obj \in Objects
    BY <1>2, TaskTyped
  <2>2. Users'
    <3>1. \A t \in DOMAIN tasks' : tasks'[t].lease \in 1 .. Len(leases'[tasks'[t].obj])
      BY <1>9, <1>11, <2>1 DEF IInv, Uses, Users
    <3>2. \A p \in Objects : \A t \in Unrun(p)' : tasks'[t].lease = obj'[p].lease
      <4>1. \A p : \A t \in Unrun(p) : t \in DOMAIN tasks
        BY <1>1, <1>2 DEF Unrun
      <4> QED BY <1>3, <1>9, <1>18, <4>1 DEF IInv, Uses, Users
    <3>3. \A b \in DOMAIN acts' : b \notin copied' /\ acts'[b].lease # 0 /\ ~InHand(b)' =>
            acts'[b].lease = obj'[acts'[b].obj].lease
      BY <1>3, <1>14 DEF IInv, Uses, Users
    <3>4. \A t \in 1 .. ran' : tasks'[t].waits \subseteq copied'
      <4> SUFFICES ASSUME NEW t \in 1 .. n PROVE tasks[t].waits \subseteq copied
        BY <1>1, <1>2, <1>3, <1>9
      <4>1. t = n \/ t \in 1 .. ran
        BY <1>1, <1>2
      <4> QED BY <1>3, <4>1 DEF IInv, Uses, Users
    <3> QED BY <3>1, <3>2, <3>3, <3>4 DEF Users
  <2>3. Waits'
    <3> SUFFICES ASSUME NEW b \in DOMAIN acts, NEW t \in DOMAIN tasks,
                        b \notin copied, Fetch(b), tasks[t].obj = acts[b].obj, Open(b)
                 PROVE  /\ t > acts[b].task => b \in tasks[t].waits
                        /\ acts[b].state = "IN_FLIGHT" /\ t > n => b \in tasks[t].waits
      BY <1>3, <1>9, <1>14 DEF Waits
    <3>1. t > n => t > ran
      BY <1>1, <1>2
    <3> QED BY <3>1 DEF IInv, Uses, Waits
  <2>4. Releases'
    BY <1>3, <1>9, <1>14 DEF IInv, Uses, Releases
  <2> QED BY <2>2, <2>3, <2>4 DEF Uses
<1>20. \A p \in Objects : \A s : /\ Upcoming(p)' = Upcoming(p) /\ Expected(p, s)' = Expected(p, s)
  BY <1>3, <1>9 DEF Upcoming, Expected
<1>21. ASSUME NEW p \in Objects, NEW r \in Points(p)'
       PROVE  \E q \in Points(p) : /\ q <= r /\ r \in Nat /\ q \in Nat /\ After(p, r)' = After(p, q)
                                    /\ \A u \in Unrun(p) : q < u => u \in Unrun(p)' /\ r < u
  <2>0. \A u \in Unrun(p) : u \in Nat /\ n <= u
    BY <1>1, <1>2 DEF Unrun
  <2>1. CASE r \in Unrun(p)'
    <3>1. r \in Unrun(p) /\ r \in Points(p) /\ r # n /\ r \in DOMAIN tasks /\ r # ran /\ r \in Nat /\ n < r
      <4>1. r \in Unrun(p) /\ r # n
        BY <1>18, <2>1
      <4>2. r \in Nat /\ n <= r
        BY <2>0, <4>1
      <4> QED BY <1>1, <1>2, <4>1, <4>2 DEF Unrun, Points
    <3>2. After(p, r)' = After(p, r)
      BY <1>3, <1>9, <3>1 DEF After
    <3>3. \A u \in Unrun(p) : r < u => u \in Unrun(p)'
      BY <1>18, <2>0, <3>1
    <3> QED BY <3>1, <3>2, <3>3
  <2>2. CASE r = n /\ p # o
    <3>1. After(p, r)' = Held(p)'
      BY <1>3, <2>2 DEF After
    <3>2. Held(p)' = Held(p)
      BY <1>3, <1>10, <2>2 DEF Held, Loading
    <3>3. Held(p) = After(p, ran) /\ ran \in Points(p) /\ ran <= r /\ r \in Nat
      BY <1>1, <1>2, <2>2 DEF After, Points
    <3>4. \A u \in Unrun(p) : u # n /\ Unrun(p)' = Unrun(p)
      BY <1>18, <2>2
    <3>5. \A u \in Unrun(p) : u \in Unrun(p)' /\ r < u
      BY <1>2, <2>0, <2>2, <3>4
    <3> QED BY <1>2, <3>1, <3>2, <3>3, <3>5
  <2>3. CASE r = n /\ p = o
    <3>1. After(o, r)' = Held(o)'
      BY <1>3, <2>3 DEF After
    <3>2. ~Loading(o)'
      BY <1>3, <1>6 DEF Loading
    <3>3. Held(o)' = leases'[o][g].data
      BY <1>3, <1>5, <3>2 DEF Held
    <3>4. After(o, n) = IF tasks[n].mutates THEN tasks[n].expects + 1 ELSE tasks[n].expects
      BY <1>1, <1>2 DEF After
    <3>5. n \in Points(o) /\ n <= n
      BY <1>2, <1>6 DEF Points
    <3>6. \A u \in Unrun(o) : n < u => u \in Unrun(o)' /\ n < u
      BY <1>18, <1>2
    <3> QED BY <1>10, <2>3, <3>1, <3>3, <3>4, <3>5, <3>6
  <2> QED BY <1>18, <2>1, <2>2, <2>3
<1>22. Chained'
  <2> SUFFICES ASSUME NEW p \in Objects, obj[p].lease # 0,
                      NEW r \in Points(p)', NEW s \in Unrun(p)' \cup {Len(tasks) + 1}, r < s,
                      \A u \in Unrun(p)' : ~(r < u /\ u < s)
               PROVE  Expected(p, s)' = After(p, r)'
    BY <1>3, <1>9 DEF Chained
  <2>1. PICK q \in Points(p) : /\ q <= r /\ r \in Nat /\ q \in Nat /\ After(p, r)' = After(p, q)
                               /\ \A u \in Unrun(p) : q < u => u \in Unrun(p)' /\ r < u
    BY <1>21
  <2>2. s \in Unrun(p) \cup {Len(tasks) + 1} /\ s \in Nat
    BY <1>2, <1>18 DEF Unrun
  <2>3. q < s /\ \A u \in Unrun(p) : ~(q < u /\ u < s)
    BY <2>1, <2>2
  <2>4. Expected(p, s) = After(p, q)
    BY <2>2, <2>3 DEF IInv, Values, Chained
  <2> QED BY <1>20, <2>1, <2>4
<1>23. Bounded'
  <2> SUFFICES ASSUME NEW p \in Objects, obj[p].lease # 0, NEW r \in Points(p)'
               PROVE  After(p, r)' <= Upcoming(p)'
    BY <1>3 DEF Bounded
  <2>1. PICK q \in Points(p) : After(p, r)' = After(p, q)
    BY <1>21
  <2> QED BY <1>20, <2>1 DEF IInv, Values, Bounded
<1>24. Reached'
  <2> SUFFICES ASSUME NEW b \in DOMAIN acts, Open(b), Copies(b), NEW p \in Objects, p = acts[b].obj,
                      obj[p].lease # 0, NEW r \in Points(p)',
                      \A u \in Unrun(p)' : ~(r < u /\ u <= acts[b].task)
               PROVE  acts[b].version <= After(p, r)'
    BY <1>3, <1>12, <1>14 DEF Reached
  <2>1. PICK q \in Points(p) : /\ After(p, r)' = After(p, q)
                               /\ \A u \in Unrun(p) : q < u => u \in Unrun(p)' /\ r < u
    BY <1>21
  <2>2. \A u \in Unrun(p) : ~(q < u /\ u <= acts[b].task)
    BY <2>1
  <2> QED BY <2>1, <2>2 DEF IInv, Values, Reached
<1>25. Worth' /\ SpillCopyTrue' /\ PlanNeverFails' /\ Committed'
  <2>1. \A p \in Objects, b \in DOMAIN acts : Refreshed(p, b)' <=> Refreshed(p, b)
    BY <1>3, <1>14 DEF Refreshed, Current
  <2>2. Worth'
    BY <1>3, <1>12, <1>14, <2>1 DEF IInv, Values, Worth
  <2> QED BY <1>3, <1>14, <2>2 DEF IInv, Values, SpillCopyTrue, PlanNeverFails, Committed
<1>26. TasksReadCurrent'
  <2> SUFFICES ASSUME NEW t \in 1 .. n PROVE tasks'[t].saw = tasks'[t].expects
    BY <1>3 DEF TasksReadCurrent
  <2>1. t = n \/ (t \in 1 .. ran /\ t # n)
    BY <1>1, <1>2
  <2>2. t \in DOMAIN tasks
    BY <1>1, <1>2
  <2> QED BY <1>6, <1>9, <2>1, <2>2 DEF IInv, Values, TasksReadCurrent
<1>27. Reused'
  <2> SUFFICES ASSUME NEW b \in DOMAIN acts, acts[b].pred # NoRange, NEW range, range = acts[b].pred
               PROVE  (/\ Fetch(b) /\ range[1] \in Objects
                       /\ range[2] \in DOMAIN leases[range[1]] /\ Lease(range).state # "IN_USE"
                       /\ acts[b].lease # 0 =>
                            Lease(range).state = "FREE" \/ (acts[b].waits = Lease(range).event /\ acts[b].waits # NoEvent)
                       /\ b \in copied => Lease(range).state = "FREE" \/ Complete(Lease(range).event))'
    BY <1>3 DEF Reused
  <2>1. /\ Fetch(b) /\ range[1] \in Objects
        /\ range[2] \in DOMAIN leases[range[1]] /\ Lease(range).state # "IN_USE"
        /\ acts[b].lease # 0 =>
             Lease(range).state = "FREE" \/ (acts[b].waits = Lease(range).event /\ acts[b].waits # NoEvent)
        /\ b \in copied => Lease(range).state = "FREE" \/ Complete(Lease(range).event)
    BY DEF IInv, Reused
  <2>2. PICK e : e = Lease(range).event
    OBVIOUS
  <2>3. e \in Events
    <3>1. leases[range[1]] \in Seq(LeaseRecord)
      BY <1>2, <2>1, ObjectTyped
    <3>2. Lease(range) \in LeaseRecord
      BY <2>1, <3>1 DEF Lease
    <3> QED BY <2>2, <3>2 DEF LeaseRecord
  <2>4. Lease(range)'.state = Lease(range).state /\ Lease(range)'.event = e
        /\ DOMAIN leases'[range[1]] = DOMAIN leases[range[1]]
    BY <1>11, <2>1, <2>2 DEF Lease
  <2>5. Complete(e) => Complete(e)'
    BY <1>1, <1>2, <1>3, <2>3, CompleteStays
  <2>6. Complete(e)' => Complete(Lease(range).event)'
    BY <2>4 DEF Complete
  <2> QED BY <1>3, <1>14, <2>1, <2>2, <2>4, <2>5, <2>6
<1> QED BY <1>13, <1>15, <1>16, <1>17, <1>19, <1>22, <1>23, <1>24, <1>25, <1>26, <1>27 DEF IInv, Values

\* The copy a lane runs next is the first of its object, in the object's range.
LEMMA NextCopy ==
  ASSUME IInv, NEW r \in Routes, NEW a \in DOMAIN acts, Foremost(r, a)
  PROVE  /\ a \notin copied /\ acts[a].state = "IN_FLIGHT" /\ Open(a) /\ First(a) /\ ~Done(a)
         /\ Queued(a) /\ (Fetch(a) \/ Copies(a))
         /\ acts[a].lease # 0 /\ acts[a].lease = obj[acts[a].obj].lease
         /\ acts[a].lease \in DOMAIN leases[acts[a].obj]
<1>1. a \notin copied /\ acts[a].state = "IN_FLIGHT"
  BY DEF Foremost, IInv, Flights, OnLanes
<1>2. Open(a) /\ First(a) /\ Queued(a) /\ acts[a].lease # 0
  BY <1>1 DEF IInv, Flights, Stages, Open
<1>3. ~Done(a)
  BY <1>1, <1>2 DEF IInv, Flights, AtDone, Done
<1>4. acts[a].lease = obj[acts[a].obj].lease
  BY <1>1, <1>3 DEF IInv, Flights, Stages
<1>5. Types /\ acts[a] \in ActionRecord /\ acts[a].obj \in Objects
  BY ActionTyped DEF IInv
<1>6. Fetch(a) \/ Copies(a)
  BY <1>2, <1>5 DEF Queued, Fetch, Copies, ActionRecord, AllKinds
<1>7. acts[a].lease \in DOMAIN leases[acts[a].obj]
  <2>1. leases[acts[a].obj] \in Seq(LeaseRecord)
    BY <1>5, ObjectTyped
  <2>2. acts[a].lease \in 0 .. Len(leases[acts[a].obj])
    BY DEF IInv, Lists, Static
  <2> QED BY <1>2, <2>1, <2>2
<1> QED BY <1>1, <1>2, <1>3, <1>4, <1>6, <1>7

\* What running a copy of either route leaves as it was.
LEMMA CopyStays ==
  ASSUME IInv, NEW r \in Routes, NEW a \in DOMAIN acts, Foremost(r, a), Triggered(a),
         acts[a].waits # NoEvent => Complete(acts[a].waits),
         copied' = copied \cup {a},
         leases' \in [Objects -> Seq(LeaseRecord)],
         \A p \in Objects :
           /\ Len(leases'[p]) = Len(leases[p]) /\ DOMAIN leases'[p] = DOMAIN leases[p]
           /\ \A h \in DOMAIN leases[p] :
                leases'[p][h].state = leases[p][h].state /\ leases'[p][h].event = leases[p][h].event,
         spilled' \in [Objects -> Int],
         UNCHANGED << obj, acts, fifo, sequences, worker, boundary, published, failed, tasks, ran, lane, plan >>
  PROVE  /\ Types' /\ Lists' /\ Flights' /\ Places' /\ Uses' /\ Reused' /\ PlanNeverFails'
         /\ TasksReadCurrent' /\ Committed'
<1>1. /\ Types /\ a \notin copied /\ acts[a].state = "IN_FLIGHT" /\ Queued(a) /\ acts[a].lease # 0
  BY NextCopy DEF IInv
<1>2. \A b \in DOMAIN acts : acts[b].obj \in Objects
  BY <1>1, ActionTyped
<1>3. Types'
  BY <1>1 DEF Types
<1>4. /\ \A b, c : Behind(b, c)' <=> Behind(b, c)
      /\ \A b : /\ (Open(b)' <=> Open(b)) /\ (Queued(b)' <=> Queued(b)) /\ (Copies(b)' <=> Copies(b))
                /\ (Fetch(b)' <=> Fetch(b)) /\ (Leaves(b)' <=> Leaves(b)) /\ (Waiting(b)' <=> Waiting(b))
                /\ (First(b)' <=> First(b)) /\ (InHand(b)' <=> InHand(b)) /\ (Done(b)' <=> Done(b))
                /\ (Triggered(b)' <=> Triggered(b))
      /\ \A p : (Leaving(p)' <=> Leaving(p)) /\ Pending(p)' = Pending(p) /\ Unrun(p)' = Unrun(p)
  BY DEF Behind, Open, Queued, Copies, Fetch, Leaves, Waiting, First, InHand, Done, Leaving, Pending, Triggered,
     Unrun
<1>5. Lists'
  <2>1. Listed' /\ Order' /\ Unpublished'
    BY <1>4 DEF IInv, Lists, Listed, Order, Unpublished
  <2>2. Static'
    BY <1>2, <1>4, SMTT(20) DEF IInv, Lists, Static
  <2>3. Awaited' /\ Versions'
    BY <1>4 DEF IInv, Lists, Awaited, Versions
  <2> QED BY <2>1, <2>2, <2>3 DEF Lists
<1>6. Flights'
  <2>1. Stages'
    BY <1>1, <1>4 DEF IInv, Flights, Stages
  <2>2. OnLanes' /\ AtDone'
    BY <1>4 DEF IInv, Flights, OnLanes, AtDone
  <2>3. AtLane'
    <3> SUFFICES ASSUME worker.at = "lane", NEW c, c = worker.action
                 PROVE  (LET x == obj[acts[c].obj] IN
                         /\ First(c) /\ Queued(c) /\ acts[c].state = "QUEUED" /\ acts[c].lease # 0
                         /\ IF Fetch(c)
                            THEN /\ Fetchable(x) /\ x.lease = 0 /\ x.version = worker.version
                                 /\ leases[acts[c].obj][acts[c].lease].state = "IN_USE"
                                 /\ \A t \in DOMAIN tasks :
                                      tasks[t].obj = acts[c].obj => tasks[t].lease # acts[c].lease
                                 /\ \A b \in DOMAIN acts :
                                      acts[b].obj = acts[c].obj /\ acts[b].lease = acts[c].lease => b = c
                            ELSE acts[c].lease = x.lease /\ x.spill)'
      BY DEF AtLane
    <3>1. /\ First(c) /\ Queued(c) /\ acts[c].state = "QUEUED" /\ acts[c].lease # 0
          /\ IF Fetch(c)
             THEN /\ Fetchable(obj[acts[c].obj]) /\ obj[acts[c].obj].lease = 0
                  /\ obj[acts[c].obj].version = worker.version
                  /\ leases[acts[c].obj][acts[c].lease].state = "IN_USE"
                  /\ \A t \in DOMAIN tasks :
                       tasks[t].obj = acts[c].obj => tasks[t].lease # acts[c].lease
                  /\ \A b \in DOMAIN acts :
                       acts[b].obj = acts[c].obj /\ acts[b].lease = acts[c].lease => b = c
             ELSE acts[c].lease = obj[acts[c].obj].lease /\ obj[acts[c].obj].spill
      BY DEF IInv, Flights, AtLane
    <3>2. c \in DOMAIN acts /\ acts[c].lease \in DOMAIN leases[acts[c].obj]
      <4>1. c \in DOMAIN acts
        BY <3>1 DEF First
      <4>2. acts[c].lease \in 0 .. Len(leases[acts[c].obj]) /\ leases[acts[c].obj] \in Seq(LeaseRecord)
        BY <1>1, <1>2, <4>1, ObjectTyped DEF IInv, Lists, Static
      <4> QED BY <3>1, <4>1, <4>2
    <3>3. leases'[acts[c].obj][acts[c].lease].state = leases[acts[c].obj][acts[c].lease].state
      BY <1>2, <3>2
    <3> QED BY <1>4, <3>1, <3>3 DEF Fetchable
  <2> QED BY <2>1, <2>2, <2>3 DEF Flights
<1>7. Located'
  <2> SUFFICES ASSUME NEW p \in Objects
               PROVE  (/\ obj[p].lease \in 0 .. Len(leases[p])
                       /\ obj[p].lease = 0 <=> obj[p].residency \in {"SPILL_ONLY", "RELEASED"}
                       /\ obj[p].lease # 0 => obj[p].execVersion = obj[p].version
                       /\ obj[p].residency = "RELEASED" => ~obj[p].spillCurrent
                       /\ obj[p].spillCurrent => obj[p].spill
                       /\ obj[p].residency = "FETCHING" =>
                            LET f == obj[p].readiness IN
                            /\ f \in DOMAIN acts /\ acts[f].obj = p /\ Fetch(f)
                            /\ acts[f].state = "IN_FLIGHT" /\ ~Done(f)
                       /\ obj[p].residency = "EVICTING" => Leaving(p)
                       /\ \A b \in DOMAIN acts : acts[b].obj = p /\ First(b) =>
                            /\ obj[p].lease = 0 <=> Waiting(b) \/ (Leaves(b) /\ Done(b))
                            /\ Fetch(b) /\ acts[b].state = "IN_FLIGHT" /\ ~Done(b) =>
                                 obj[p].residency = "FETCHING" /\ obj[p].readiness = b)'
    BY DEF Located
  <2>1. /\ obj[p].lease \in 0 .. Len(leases[p])
        /\ obj[p].lease = 0 <=> obj[p].residency \in {"SPILL_ONLY", "RELEASED"}
        /\ obj[p].lease # 0 => obj[p].execVersion = obj[p].version
        /\ obj[p].residency = "RELEASED" => ~obj[p].spillCurrent
        /\ obj[p].spillCurrent => obj[p].spill
        /\ obj[p].residency = "EVICTING" => Leaving(p)
        /\ \A b \in DOMAIN acts : acts[b].obj = p /\ First(b) =>
             /\ obj[p].lease = 0 <=> Waiting(b) \/ (Leaves(b) /\ Done(b))
             /\ Fetch(b) /\ acts[b].state = "IN_FLIGHT" /\ ~Done(b) =>
                  obj[p].residency = "FETCHING" /\ obj[p].readiness = b
    BY DEF IInv, Places, Located
  <2>2. obj[p].residency = "FETCHING" =>
          LET f == obj[p].readiness IN
          /\ f \in DOMAIN acts /\ acts[f].obj = p /\ Fetch(f)
          /\ acts[f].state = "IN_FLIGHT" /\ ~Done(f)
    BY DEF IInv, Places, Located
  <2>3. obj[p].residency = "FETCHING" => Fetch(obj[p].readiness)' /\ ~Done(obj[p].readiness)'
    BY <2>2 DEF Fetch, Done
  <2> QED BY <1>4, <2>1, <2>2, <2>3
<1>8. LeaseStates'
  <2> SUFFICES ASSUME NEW p \in Objects
               PROVE  (/\ \A h \in DOMAIN leases[p] :
                            /\ leases[p][h].state = "IN_USE" => leases[p][h].event = NoEvent
                            /\ h # obj[p].lease =>
                                 \/ leases[p][h].state = "FREE"
                                 \/ /\ InHand(worker.action) /\ acts[worker.action].obj = p
                                    /\ acts[worker.action].lease = h
                       /\ obj[p].lease # 0 /\ ~(\E b \in DOMAIN acts : acts[b].obj = p /\ Open(b) /\ Leaves(b) /\ ~acts[b].late) =>
                            leases[p][obj[p].lease].state = "IN_USE"
                       /\ obj[p].lease # 0 => \A b \in DOMAIN acts :
                            acts[b].obj = p /\ Open(b) /\ Leaves(b) /\ ~acts[b].late =>
                              /\ leases[p][obj[p].lease].state = "RETIRE_PENDING"
                              /\ leases[p][obj[p].lease].event =
                                   IF acts[b].kind = "RELEASE" THEN << "task", acts[b].task >>
                                   ELSE IF acts[b].state = "QUEUED" THEN NoEvent ELSE << "copy", b >>)'
    BY DEF LeaseStates
  <2>1. /\ \A h \in DOMAIN leases[p] :
             /\ leases[p][h].state = "IN_USE" => leases[p][h].event = NoEvent
             /\ h # obj[p].lease =>
                  \/ leases[p][h].state = "FREE"
                  \/ /\ InHand(worker.action) /\ acts[worker.action].obj = p
                     /\ acts[worker.action].lease = h
        /\ obj[p].lease # 0 /\ ~(\E b \in DOMAIN acts : acts[b].obj = p /\ Open(b) /\ Leaves(b) /\ ~acts[b].late) =>
             leases[p][obj[p].lease].state = "IN_USE"
        /\ obj[p].lease # 0 => \A b \in DOMAIN acts :
             acts[b].obj = p /\ Open(b) /\ Leaves(b) /\ ~acts[b].late =>
               /\ leases[p][obj[p].lease].state = "RETIRE_PENDING"
               /\ leases[p][obj[p].lease].event =
                    IF acts[b].kind = "RELEASE" THEN << "task", acts[b].task >>
                    ELSE IF acts[b].state = "QUEUED" THEN NoEvent ELSE << "copy", b >>
    BY DEF IInv, Places, LeaseStates
  <2>2. obj[p].lease # 0 =>
          /\ leases'[p][obj[p].lease].state = leases[p][obj[p].lease].state
          /\ leases'[p][obj[p].lease].event = leases[p][obj[p].lease].event
    <3>1. obj[p].lease \in 0 .. Len(leases[p]) /\ leases[p] \in Seq(LeaseRecord)
      BY <1>1, ObjectTyped DEF IInv, Places, Located
    <3> QED BY <3>1
  <2>3. InHand(worker.action)' <=> InHand(worker.action)
    BY DEF InHand
  <2>4. DOMAIN leases'[p] = DOMAIN leases[p] /\ \A h \in DOMAIN leases[p] :
          leases'[p][h].state = leases[p][h].state /\ leases'[p][h].event = leases[p][h].event
    OBVIOUS
  <2>5. \A h \in DOMAIN leases'[p] :
             /\ leases'[p][h].state = "IN_USE" => leases'[p][h].event = NoEvent
             /\ h # obj'[p].lease =>
                  \/ leases'[p][h].state = "FREE"
                  \/ /\ InHand(worker.action)' /\ acts'[worker'.action].obj = p
                     /\ acts'[worker'.action].lease = h
    BY <2>1, <2>3, <2>4
  <2> QED BY <1>4, <2>1, <2>2, <2>5
<1>9. Updating'
  BY <1>4 DEF IInv, Places, Updating
<1>10. Uses'
  <2>1. \A t \in DOMAIN tasks : tasks[t].obj \in Objects
    BY <1>1, TaskTyped
  <2>2. Users'
    BY <1>4, <2>1 DEF IInv, Uses, Users
  <2>3. Waits' /\ Releases'
    BY <1>4 DEF IInv, Uses, Waits, Releases
  <2> QED BY <2>2, <2>3 DEF Uses
<1>11. Reused'
  <2> SUFFICES ASSUME NEW b \in DOMAIN acts, acts[b].pred # NoRange, NEW range, range = acts[b].pred
               PROVE  (/\ Fetch(b) /\ range[1] \in Objects
                       /\ range[2] \in DOMAIN leases[range[1]] /\ Lease(range).state # "IN_USE"
                       /\ acts[b].lease # 0 =>
                            Lease(range).state = "FREE" \/ (acts[b].waits = Lease(range).event /\ acts[b].waits # NoEvent)
                       /\ b \in copied => Lease(range).state = "FREE" \/ Complete(Lease(range).event))'
    BY DEF Reused
  <2>1. /\ Fetch(b) /\ range[1] \in Objects
        /\ range[2] \in DOMAIN leases[range[1]] /\ Lease(range).state # "IN_USE"
        /\ acts[b].lease # 0 =>
             Lease(range).state = "FREE" \/ (acts[b].waits = Lease(range).event /\ acts[b].waits # NoEvent)
        /\ b \in copied => Lease(range).state = "FREE" \/ Complete(Lease(range).event)
    BY DEF IInv, Reused
  <2>2. PICK e : e = Lease(range).event
    OBVIOUS
  <2>3. e \in Events
    <3>1. leases[range[1]] \in Seq(LeaseRecord)
      BY <1>1, <2>1, ObjectTyped
    <3>2. Lease(range) \in LeaseRecord
      BY <2>1, <3>1 DEF Lease
    <3> QED BY <2>2, <3>2 DEF LeaseRecord
  <2>4. Lease(range)'.state = Lease(range).state /\ Lease(range)'.event = e
        /\ DOMAIN leases'[range[1]] = DOMAIN leases[range[1]]
    BY <2>1, <2>2 DEF Lease
  <2>5. Complete(e) => Complete(e)'
    <3>1. ran \in Nat
      BY <1>1 DEF Types
    <3>2. ran' \in Nat /\ ran <= ran' /\ copied \subseteq copied'
      BY <3>1
    <3> QED BY <1>1, <2>3, <3>2, CompleteStays
  <2>6. Complete(e)' => Complete(Lease(range).event)'
    BY <2>4 DEF Complete
  <2>7. b \in copied' => Lease(range).state = "FREE" \/ Complete(e)
    BY <1>1, <2>1, <2>2
  <2> QED BY <1>4, <2>1, <2>2, <2>4, <2>5, <2>6, <2>7
<1> QED BY <1>3, <1>5, <1>6, <1>7, <1>8, <1>9, <1>10, <1>11
        DEF IInv, Values, Places, PlanNeverFails, TasksReadCurrent, Committed, Copies

\* What the ranges hold is followed across a copy.
LEMMA CopyFollowed ==
  ASSUME IInv, \A p \in Objects : Held(p)' = Held(p),
         UNCHANGED << obj, acts, boundary, tasks, ran, plan >>
  PROVE  Chained' /\ Bounded' /\ Reached'
<1>1. \A p \in Objects :
        /\ Upcoming(p)' = Upcoming(p) /\ Unrun(p)' = Unrun(p) /\ Points(p)' = Points(p)
        /\ \A s : After(p, s)' = After(p, s) /\ Expected(p, s)' = Expected(p, s)
  BY DEF Upcoming, Unrun, Points, After, Expected
<1>2. Chained' /\ Bounded'
  BY <1>1 DEF IInv, Values, Chained, Bounded
<1>3. Reached'
  <2> SUFFICES ASSUME NEW b \in DOMAIN acts, Open(b), Copies(b), NEW p \in Objects, p = acts[b].obj,
                      obj[p].lease # 0, NEW r \in Points(p),
                      \A u \in Unrun(p) : ~(r < u /\ u <= acts[b].task)
               PROVE  acts[b].version <= After(p, r)'
    <3>1. \A b \in DOMAIN acts : acts[b].obj \in Objects
      BY ActionTyped DEF IInv
    <3>2. \A b : (Open(b)' <=> Open(b)) /\ (Copies(b)' <=> Copies(b))
      BY DEF Open, Copies
    <3> QED BY <1>1, <3>1, <3>2 DEF Reached
  <2>1. acts[b].version <= After(p, r)
    BY DEF IInv, Values, Reached
  <2> QED BY <1>1, <2>1
<1> QED BY <1>2, <1>3

\* The two routes differ in what they write.
LEMMA CopyWrites ==
  ASSUME IInv, NEW r \in Routes, RunCopy(r)
  PROVE  \E a \in DOMAIN acts, o \in Objects, g \in Nat :
           /\ Types /\ o = acts[a].obj /\ g = acts[a].lease /\ Foremost(r, a) /\ Triggered(a)
           /\ g # 0 /\ g = obj[o].lease /\ g \in DOMAIN leases[o]
           /\ a \notin copied /\ acts[a].state = "IN_FLIGHT" /\ Open(a) /\ First(a) /\ ~Done(a)
           /\ Fetch(a) \/ Copies(a)
           /\ acts[a].waits # NoEvent => Complete(acts[a].waits)
           /\ copied' = copied \cup {a}
           /\ IF Fetch(a)
              THEN leases' = [leases EXCEPT ![o][g].data = spilled[o]] /\ UNCHANGED spilled
              ELSE spilled' = [spilled EXCEPT ![o] = leases[o][g].data] /\ UNCHANGED leases
           /\ UNCHANGED << obj, acts, fifo, sequences, worker, boundary, published, failed, tasks,
                           ran, lane, plan >>
<1>1. PICK a \in DOMAIN acts :
        /\ Foremost(r, a) /\ Triggered(a)
        /\ acts[a].waits # NoEvent => Complete(acts[a].waits)
        /\ copied' = copied \cup {a}
        /\ IF acts[a].kind = "FETCH"
           THEN leases' = [leases EXCEPT ![acts[a].obj][acts[a].lease].data = spilled[acts[a].obj]]
                /\ UNCHANGED spilled
           ELSE spilled' = [spilled EXCEPT ![acts[a].obj] = leases[acts[a].obj][acts[a].lease].data]
                /\ UNCHANGED leases
        /\ UNCHANGED << obj, acts, fifo, sequences, worker, boundary, published, failed, tasks,
                        ran, lane, plan >>
  BY DEF RunCopy
<1>2. Types /\ acts[a].obj \in Objects /\ acts[a].lease \in Nat
  BY ActionTyped DEF IInv, ActionRecord
<1>3. /\ a \notin copied /\ acts[a].state = "IN_FLIGHT" /\ Open(a) /\ First(a) /\ ~Done(a)
      /\ (Fetch(a) \/ Copies(a))
      /\ acts[a].lease # 0 /\ acts[a].lease = obj[acts[a].obj].lease
      /\ acts[a].lease \in DOMAIN leases[acts[a].obj]
  BY <1>1, NextCopy
<1>4. PICK o \in Objects : o = acts[a].obj
  BY <1>2
<1>5. PICK g \in Nat : g = acts[a].lease
  BY <1>2
<1>6. IF Fetch(a)
      THEN leases' = [leases EXCEPT ![o][g].data = spilled[o]] /\ UNCHANGED spilled
      ELSE spilled' = [spilled EXCEPT ![o] = leases[o][g].data] /\ UNCHANGED leases
  BY <1>1, <1>4, <1>5 DEF Fetch
<1> QED BY <1>1, <1>2, <1>3, <1>4, <1>5, <1>6

\* A fetch fills the range its object is waiting for.
LEMMA RunFetchInv ==
  ASSUME IInv, NEW r \in Routes, NEW a \in DOMAIN acts, NEW o \in Objects, NEW g \in Nat,
         o = acts[a].obj, g = acts[a].lease, Foremost(r, a), Triggered(a),
         g # 0, g = obj[o].lease, g \in DOMAIN leases[o],
         a \notin copied, acts[a].state = "IN_FLIGHT", First(a), ~Done(a), Fetch(a),
         acts[a].waits # NoEvent => Complete(acts[a].waits),
         copied' = copied \cup {a},
         leases' = [leases EXCEPT ![o][g].data = spilled[o]],
         UNCHANGED << obj, acts, fifo, sequences, worker, boundary, published, failed, tasks, ran,
                      lane, plan, spilled >>
  PROVE  IInv'
<1>1. Types /\ leases[o] \in Seq(LeaseRecord) /\ leases[o][g] \in LeaseRecord
  BY ObjectTyped, SMTT(20) DEF IInv
<1>2. /\ leases' \in [Objects -> Seq(LeaseRecord)]
      /\ \A p \in Objects : p # o => leases'[p] = leases[p]
      /\ Len(leases'[o]) = Len(leases[o]) /\ DOMAIN leases'[o] = DOMAIN leases[o]
      /\ \A h \in DOMAIN leases[o] :
           leases'[o][h].state = leases[o][h].state /\ leases'[o][h].event = leases[o][h].event
      /\ leases'[o][g].data = spilled[o]
  <2> DEFINE item == [leases[o][g] EXCEPT !.data = spilled[o]]
             list == [leases[o] EXCEPT ![g] = item]
  <2>1. spilled[o] \in Int
    BY <1>1, SMTT(20) DEF Types
  <2>2. item \in LeaseRecord
    BY <1>1, <2>1 DEF LeaseRecord
  <2>3. item.state = leases[o][g].state /\ item.event = leases[o][g].event /\ item.data = spilled[o]
    BY <1>1 DEF LeaseRecord
  <2>4. leases' = [leases EXCEPT ![o] = list]
    BY <1>1 DEF Types
  <2> HIDE DEF item
  <2>5. /\ list \in Seq(LeaseRecord) /\ Len(list) = Len(leases[o]) /\ DOMAIN list = DOMAIN leases[o]
        /\ list[g] = item /\ \A h \in DOMAIN leases[o] : h # g => list[h] = leases[o][h]
    BY <1>1, <2>2, Replaced, SMTT(20)
  <2> HIDE DEF list
  <2>6. /\ leases'[o] = list /\ leases' \in [Objects -> Seq(LeaseRecord)]
        /\ \A p \in Objects : p # o => leases'[p] = leases[p]
    <3>1. leases \in [Objects -> Seq(LeaseRecord)]
      BY <1>1 DEF Types
    <3> QED BY <2>4, <2>5, <3>1, ZenonT(20)
  <2> QED BY <2>3, <2>5, <2>6, ZenonT(20)
<1>3. /\ Types' /\ Lists' /\ Flights' /\ Places' /\ Uses' /\ Reused' /\ PlanNeverFails'
      /\ TasksReadCurrent' /\ Committed'
  <2>1. \A p \in Objects :
          /\ Len(leases'[p]) = Len(leases[p]) /\ DOMAIN leases'[p] = DOMAIN leases[p]
          /\ \A h \in DOMAIN leases[p] :
               leases'[p][h].state = leases[p][h].state /\ leases'[p][h].event = leases[p][h].event
    <3> SUFFICES ASSUME NEW p \in Objects
                 PROVE  /\ Len(leases'[p]) = Len(leases[p]) /\ DOMAIN leases'[p] = DOMAIN leases[p]
                        /\ \A h \in DOMAIN leases[p] : leases'[p][h].state = leases[p][h].state
                                                       /\ leases'[p][h].event = leases[p][h].event
      BY ZenonT(20)
    <3>1. CASE p = o
      <4>1. Len(leases'[o]) = Len(leases[o]) /\ DOMAIN leases'[o] = DOMAIN leases[o]
        BY <1>2
      <4>2. \A h \in DOMAIN leases[o] : leases'[o][h].state = leases[o][h].state
                                       /\ leases'[o][h].event = leases[o][h].event
        BY <1>2, Zenon
      <4>3. Len(leases'[p]) = Len(leases[p])
        BY <3>1, <4>1
      <4>4. DOMAIN leases'[p] = DOMAIN leases[p]
        BY <3>1, <4>1
      <4>5. \A h \in DOMAIN leases[p] : leases'[p][h].state = leases[p][h].state
        BY <3>1, <4>2
      <4>6. \A h \in DOMAIN leases[p] : leases'[p][h].event = leases[p][h].event
        BY <3>1, <4>2, SMTT(20)
      <4> QED BY <4>3, <4>4, <4>5, <4>6, ZenonT(20)
    <3>2. CASE p # o
      BY <1>2, <3>2, SMTT(20)
    <3> QED BY <3>1, <3>2, ZenonT(20)
  <2>2. spilled' \in [Objects -> Int] /\ leases' \in [Objects -> Seq(LeaseRecord)]
    <3>1. spilled \in [Objects -> Int]
      BY <1>1 DEF Types
    <3> QED BY <1>2, <3>1
  <2> QED BY <2>1, <2>2, CopyStays, ZenonT(20)
<1>4. \A p \in Objects : Held(p)' = Held(p)
  <2>1. obj[o].residency = "FETCHING" /\ obj[o].readiness = a
    BY SMTT(20) DEF IInv, Places, Located
  <2>2. Held(o)' = Held(o)
    <3>1. Loading(o) /\ ~Loading(o)'
      BY <2>1, SMTT(20) DEF Loading
    <3> QED BY <1>2, <3>1 DEF Held
  <2>3. ASSUME NEW p \in Objects, p # o PROVE Held(p)' = Held(p)
    <3>1. obj[p].residency = "FETCHING" => obj[p].readiness # a
      BY <2>3 DEF IInv, Places, Located
    <3>2. Loading(p)' <=> Loading(p)
      BY <3>1 DEF Loading
    <3> QED BY <1>2, <2>3, <3>2 DEF Held
  <2> QED BY <2>2, <2>3
<1>5. Chained' /\ Bounded' /\ Reached'
  BY <1>4, CopyFollowed
<1>6. Worth' /\ SpillCopyTrue'
  <2>1. /\ \A b, c : Behind(b, c)' <=> Behind(b, c)
        /\ \A b : /\ (Open(b)' <=> Open(b)) /\ (Copies(b)' <=> Copies(b)) /\ (Fetch(b)' <=> Fetch(b))
                  /\ (Waiting(b)' <=> Waiting(b))
        /\ \A b \in DOMAIN acts : acts[b].obj \in Objects
    BY <1>1, ActionTyped DEF Behind, Open, Copies, Fetch, Waiting
  <2>2. \A p \in Objects, b \in DOMAIN acts : Refreshed(p, b)' <=> Refreshed(p, b)
    BY <2>1 DEF Refreshed, Current
  <2>3. ~Copies(a)
    BY DEF Copies, Fetch
  <2>4. Worth'
    BY <2>1, <2>2, <2>3 DEF IInv, Values, Worth
  <2> QED BY <2>4 DEF IInv, Values, SpillCopyTrue
<1> QED BY <1>3, <1>5, <1>6 DEF IInv, Values

\* An eviction or a write-back reads the range of its object, which holds the
\* version it was scheduled for when no task is due before the next version.
LEMMA RunSpillInv ==
  ASSUME IInv, NEW r \in Routes, NEW a \in DOMAIN acts, NEW o \in Objects, NEW g \in Nat,
         o = acts[a].obj, g = acts[a].lease, Foremost(r, a), Triggered(a),
         g # 0, g = obj[o].lease, g \in DOMAIN leases[o],
         a \notin copied, acts[a].state = "IN_FLIGHT", Open(a), First(a), ~Done(a), Copies(a),
         acts[a].waits # NoEvent => Complete(acts[a].waits),
         copied' = copied \cup {a},
         spilled' = [spilled EXCEPT ![o] = leases[o][g].data],
         UNCHANGED << obj, acts, fifo, sequences, worker, boundary, published, failed, tasks, ran,
                      lane, plan, leases >>
  PROVE  IInv'
<1>1. /\ Types /\ leases[o] \in Seq(LeaseRecord) /\ leases[o][g] \in LeaseRecord
      /\ obj[o] \in ObjectRecord /\ acts[a] \in ActionRecord
  BY ObjectTyped, ActionTyped DEF IInv
<1>2. /\ spilled' \in [Objects -> Int] /\ spilled'[o] = leases[o][g].data
      /\ \A p \in Objects : p # o => spilled'[p] = spilled[p]
  BY <1>1 DEF Types, LeaseRecord
<1>3. /\ Types' /\ Lists' /\ Flights' /\ Places' /\ Uses' /\ Reused' /\ PlanNeverFails'
      /\ TasksReadCurrent' /\ Committed'
  <2>1. leases' \in [Objects -> Seq(LeaseRecord)]
    BY <1>1 DEF Types
  <2> QED BY <1>2, <2>1, CopyStays
<1>4. obj[o].residency # "FETCHING"
  <2> SUFFICES ASSUME obj[o].residency = "FETCHING", NEW f, f = obj[o].readiness PROVE FALSE
    OBVIOUS
  <2>1. f \in DOMAIN acts /\ acts[f].obj = o /\ Fetch(f) /\ acts[f].state = "IN_FLIGHT"
    BY DEF IInv, Places, Located
  <2>2. First(f)
    BY <2>1 DEF IInv, Flights, Stages
  <2>3. f = a
    BY <1>1, <2>1, <2>2, OneFirst
  <2> QED BY <2>1, <2>3 DEF Fetch, Copies
<1>5. Held(o) = leases[o][g].data /\ \A p \in Objects : Held(p)' = Held(p)
  <2>1. ~Loading(o) /\ ~Loading(o)'
    BY <1>4 DEF Loading
  <2>2. Held(o) = leases[o][g].data /\ Held(o)' = Held(o)
    BY <2>1 DEF Held
  <2>3. ASSUME NEW p \in Objects, p # o PROVE Held(p)' = Held(p)
    <3>1. obj[p].residency = "FETCHING" => obj[p].readiness # a
      BY <2>3 DEF IInv, Places, Located
    <3>2. Loading(p)' <=> Loading(p)
      BY <3>1 DEF Loading
    <3> QED BY <1>2, <2>3, <3>2 DEF Held
  <2> QED BY <2>2, <2>3
<1>6. Chained' /\ Bounded' /\ Reached'
  BY <1>5, CopyFollowed
<1>7. acts[a].version = obj[o].version /\ boundary.update # o => leases[o][g].data = obj[o].version
  <2> SUFFICES ASSUME acts[a].version = obj[o].version, boundary.update # o
               PROVE  leases[o][g].data = obj[o].version
    OBVIOUS
  <2>1. ran \in Points(o) /\ After(o, ran) = leases[o][g].data
    BY <1>5 DEF Points, After
  <2>2. \A u \in Unrun(o) : ~(ran < u /\ u <= acts[a].task)
    <3>1. ran \in Nat /\ acts[a].task \in Nat /\ acts[a].task <= ran
      BY <1>1 DEF Types, ActionRecord, Triggered
    <3> QED BY <3>1 DEF Unrun
  <2>3. acts[a].version <= leases[o][g].data
    BY <2>1, <2>2 DEF IInv, Values, Reached
  <2>4. leases[o][g].data <= obj[o].version
    BY <2>1 DEF IInv, Values, Bounded, Upcoming
  <2>5. leases[o][g].data \in Int /\ obj[o].version \in Int
    BY <1>1 DEF LeaseRecord, ObjectRecord
  <2> QED BY <2>3, <2>4, <2>5
<1>8. Worth'
  <2>1. /\ \A b, c : Behind(b, c)' <=> Behind(b, c)
        /\ \A b : /\ (Open(b)' <=> Open(b)) /\ (Copies(b)' <=> Copies(b)) /\ (Fetch(b)' <=> Fetch(b))
                  /\ (Waiting(b)' <=> Waiting(b))
        /\ \A b \in DOMAIN acts : acts[b].obj \in Objects
    BY <1>1, ActionTyped DEF Behind, Open, Copies, Fetch, Waiting
  <2>2. \A p \in Objects, b \in DOMAIN acts : Refreshed(p, b)' <=> Refreshed(p, b)
    BY <2>1 DEF Refreshed, Current
  <2>3. ASSUME NEW b \in DOMAIN acts, Open(b), Copies(b), b \in copied', NEW p \in Objects, p = acts[b].obj,
               acts[b].version = obj[p].version, boundary.update # p
        PROVE  spilled'[p] = obj[p].version
    <3>1. CASE b = a
      BY <1>2, <1>7, <2>3, <3>1
    <3>2. CASE b # a
      <4>1. b \in copied
        BY <2>3, <3>2
      <4>2. p # o
        <5> SUFFICES ASSUME p = o PROVE FALSE
          OBVIOUS
        <5>1. acts[b].state \in AllStates /\ acts[b].state # "QUEUED"
          BY <1>1, <4>1, ActionTyped DEF IInv, Flights, Stages, ActionRecord
        <5>2. First(b)
          BY <2>3, <5>1 DEF AllStates, Open, IInv, Flights, Stages
        <5> QED BY <1>1, <2>3, <3>2, <5>2, OneFirst
      <4> QED BY <1>2, <2>3, <4>1, <4>2 DEF IInv, Values, Worth
    <3> QED BY <3>1, <3>2
  <2> SUFFICES ASSUME NEW b \in DOMAIN acts, Open(b), NEW p \in Objects, p = acts[b].obj
               PROVE  (/\ obj[p].spillCurrent /\ obj[p].spillVersion = obj[p].version =>
                            acts[b].version = obj[p].version
                       /\ /\ acts[b].version = obj[p].version /\ (acts[b].spill \/ Waiting(b)) /\ ~Copies(b)
                          => Refreshed(p, b) \/ (Fetch(b) /\ ~Waiting(b) /\ p \notin plan.retained)
                       /\ Copies(b) /\ b \in copied /\ acts[b].version = obj[p].version /\ boundary.update # p =>
                            spilled[p] = obj[p].version)'
    BY <2>1 DEF Worth
  <2>4. /\ obj[p].spillCurrent /\ obj[p].spillVersion = obj[p].version =>
             acts[b].version = obj[p].version
        /\ /\ acts[b].version = obj[p].version /\ (acts[b].spill \/ Waiting(b)) /\ ~Copies(b)
           => Refreshed(p, b) \/ (Fetch(b) /\ ~Waiting(b) /\ p \notin plan.retained)
    BY DEF IInv, Values, Worth
  <2> QED BY <2>1, <2>2, <2>3, <2>4
<1>9. SpillCopyTrue'
  <2> SUFFICES ASSUME NEW p \in Objects, obj[p].spill, obj[p].spillCurrent,
                      obj[p].spillVersion = obj[p].version, boundary.update # p
               PROVE  spilled'[p] = obj[p].version
    BY DEF SpillCopyTrue
  <2>1. CASE p = o
    <3>1. acts[a].version = obj[o].version
      BY <2>1 DEF IInv, Values, Worth
    <3> QED BY <1>2, <1>7, <2>1, <3>1
  <2>2. CASE p # o
    BY <1>2, <2>2 DEF IInv, Values, SpillCopyTrue
  <2> QED BY <2>1, <2>2
<1> QED BY <1>3, <1>6, <1>8, <1>9 DEF IInv, Values

\* A lane runs its foremost copy.
LEMMA RunCopyInv ==
  ASSUME IInv, NEW r \in Routes, RunCopy(r)
  PROVE  IInv'
<1>1. PICK a \in DOMAIN acts, o \in Objects, g \in Nat :
        /\ Types /\ o = acts[a].obj /\ g = acts[a].lease /\ Foremost(r, a) /\ Triggered(a)
        /\ g # 0 /\ g = obj[o].lease /\ g \in DOMAIN leases[o]
        /\ a \notin copied /\ acts[a].state = "IN_FLIGHT" /\ Open(a) /\ First(a) /\ ~Done(a)
        /\ Fetch(a) \/ Copies(a)
        /\ acts[a].waits # NoEvent => Complete(acts[a].waits)
        /\ copied' = copied \cup {a}
        /\ IF Fetch(a)
           THEN leases' = [leases EXCEPT ![o][g].data = spilled[o]] /\ UNCHANGED spilled
           ELSE spilled' = [spilled EXCEPT ![o] = leases[o][g].data] /\ UNCHANGED leases
        /\ UNCHANGED << obj, acts, fifo, sequences, worker, boundary, published, failed, tasks,
                        ran, lane, plan >>
  BY CopyWrites, SMTT(20)
<1>2. CASE Fetch(a)
  <2>1. leases' = [leases EXCEPT ![o][g].data = spilled[o]] /\ UNCHANGED spilled
    BY <1>1, <1>2
  <2> QED BY <1>1, <1>2, <2>1, RunFetchInv, ZenonT(20)
<1>3. CASE ~Fetch(a)
  <2>1. Copies(a) /\ spilled' = [spilled EXCEPT ![o] = leases[o][g].data] /\ UNCHANGED leases
    BY <1>1, <1>3
  <2> QED BY <1>1, <2>1, RunSpillInv
<1> QED BY <1>2, <1>3

-----------------------------------------------------------------------------
(* The theorems.                                                           *)

\* Every step of the dispatcher keeps the invariant,
LEMMA DispatcherInv ==
  ASSUME IInv, Dispatcher
  PROVE  IInv'
<1>1. CASE \E o \in Objects, mutates \in BOOLEAN : BeginTask(o, mutates)
  BY <1>1, BeginTaskInv
<1>2. CASE PublishMutation
  BY <1>2, PublishMutationInv
<1>3. CASE BeginActionBatch
  BY <1>3, BeginActionBatchInv
<1>4. CASE \E kind \in plan.kinds, o \in Objects : InstantiateAction(kind, o, NoRange)
  <2>1. PICK kind \in plan.kinds, o \in Objects : InstantiateAction(kind, o, NoRange)
    BY <1>4
  <2>2. kind \in AllKinds
    BY PlansAssumption DEF IInv, Types, Plan
  <2>3. NoRange \in Promisable \cup {NoRange}
    OBVIOUS
  <2> QED BY <2>1, <2>2, <2>3, InstantiateActionInv
<1>5. CASE plan.reuses /\ \E o \in Objects, pred \in Promisable : InstantiateAction("FETCH", o, pred)
  <2>1. PICK o \in Objects, pred \in Promisable : InstantiateAction("FETCH", o, pred)
    BY <1>5
  <2>2. "FETCH" \in AllKinds /\ pred \in Promisable \cup {NoRange}
    BY DEF AllKinds
  <2> QED BY <2>1, <2>2, InstantiateActionInv
<1>6. CASE PublishBatch
  BY <1>6, PublishBatchInv
<1>7. CASE Acknowledge
  BY <1>7, AcknowledgeInv
<1> QED BY <1>1, <1>2, <1>3, <1>4, <1>5, <1>6, <1>7 DEF Dispatcher

\* every step of the worker,
LEMMA WorkerInv ==
  ASSUME InScope, IInv, Worker
  PROVE  IInv'
<1>1. CASE \E a \in DOMAIN acts : HandleRelease(a) \/ SkipWriteBack(a) \/ HandleTransfer(a) \/ Finish(a)
  BY <1>1, HandleReleaseInv, SkipWriteBackInv, HandleTransferInv, FinishInv
<1>2. CASE ReturnClaim
  BY <1>2, ReturnClaimInv
<1>3. CASE Submit
  BY <1>3, SubmitInv
<1>4. CASE CompleteAction
  BY <1>4, CompleteActionInv
<1> QED BY <1>1, <1>2, <1>3, <1>4 DEF Worker

\* and a step of none of them.
LEMMA StutterInv ==
  ASSUME IInv, UNCHANGED vars
  PROVE  IInv'
<1>1. /\ UNCHANGED << obj, leases, acts, fifo, sequences, worker, boundary, published, failed >>
      /\ UNCHANGED << tasks, ran, lane, copied, spilled, plan >>
  BY DEF vars, host, device
<1>2. Types'
  BY <1>1 DEF IInv, Types
<1>3. SameActions
  BY <1>1 DEF SameActions
<1>4. /\ Listed' /\ Static' /\ Order' /\ Versions' /\ Unpublished' /\ OnLanes'
      /\ Updating' /\ Waits' /\ Releases' /\ Values' /\ Reused' /\ PlanNeverFails'
  BY <1>1, <1>2, <1>3, Still
<1>5. Awaited' /\ Committed'
  BY <1>1, SMTT(20) DEF IInv, Lists, Awaited, Waiting, Fetch, Committed, Copies
<1>6. Stages' /\ AtLane' /\ AtDone' /\ Located' /\ LeaseStates' /\ Users'
  BY <1>1 DEF IInv, Flights, Places, Uses, Stages, AtLane, AtDone, Located, LeaseStates, Users, Unrun,
              First, Open, Behind, Done, InHand, Fetch, Queued, Copies, Triggered, Fetchable, Leaving,
              Leaves, Waiting
<1> QED BY <1>2, <1>4, <1>5, <1>6 DEF IInv, Lists, Flights, Places, Uses

\* The invariant of the queues, the worker and the device, for every set of
\* objects and every plan whose reused ranges a layout places and whose lanes ask
\* for no fetch again: it holds of every reachable state.
THEOREM TransfersInvariant == ASSUME InScope PROVE Spec => []IInv
<1>1. Init => IInv
  BY InitInv
<1>2. IInv /\ [Next]_vars => IInv'
  <2> SUFFICES ASSUME IInv, [Next]_vars PROVE IInv'
    OBVIOUS
  <2>1. CASE Dispatcher
    BY <2>1, DispatcherInv
  <2>2. CASE Worker
    BY <2>2, WorkerInv
  <2>3. CASE RunTask
    BY <2>3, RunTaskInv
  <2>4. CASE \E r \in Routes : RunCopy(r)
    BY <2>4, RunCopyInv
  <2>5. CASE UNCHANGED vars
    BY <2>5, StutterInv
  <2> QED BY <2>1, <2>2, <2>3, <2>4, <2>5 DEF Next
<1> QED BY <1>1, <1>2, PTL DEF Spec

\* A schedule the simulator accepts meets no state that one of the runtime's
\* checks refuses: bindings, retirements, claims, and the checks that follow a
\* dropped object lock (task_boundaries.c, object_actions.c, worker/actions.c).
THEOREM NeverFails == ASSUME InScope PROVE Spec => []PlanNeverFails
<1>1. IInv => PlanNeverFails
  BY DEF IInv
<1> QED BY <1>1, TransfersInvariant, PTL

\* Every task that has run found the version its boundary bound in the range its
\* boundary handed it, however far the host was ahead of the device.
THEOREM ReadsCurrent == ASSUME InScope PROVE Spec => []TasksReadCurrent
<1>1. IInv => TasksReadCurrent
  BY DEF IInv, Values
<1> QED BY <1>1, TransfersInvariant, PTL

\* No copy that a mutation overtook is taken for the newest version of its object
\* (the commits of worker/completion.c).
THEOREM SpillTrue == ASSUME InScope PROVE Spec => []SpillCopyTrue
<1>1. IInv => SpillCopyTrue
  BY DEF IInv, Values
<1> QED BY <1>1, TransfersInvariant, PTL

\* What touches a range keeps it from being free and its retirement from being
\* complete: tasks by the order of the stream, copies by the order of the object's
\* list, and a release behind a write-back by waiting for it.
LEMMA TouchedHeld ==
  ASSUME IInv, NEW o \in Objects, NEW g \in DOMAIN leases[o],
         leases[o][g].state = "FREE" \/ Complete(leases[o][g].event)
  PROVE  ~Touched(<< o, g >>)
<1>1. /\ Types /\ leases[o] \in Seq(LeaseRecord) /\ ran \in Nat /\ Len(tasks) \in Nat
      /\ DOMAIN tasks = 1 .. Len(tasks) /\ obj[o] \in ObjectRecord
  BY ObjectTyped, SMTT(20) DEF IInv, Types
<1>2. g \in Nat \ {0}
  BY <1>1
<1>3. leases[o][g].state # "IN_USE"
  BY DEF IInv, Places, LeaseStates, Complete, NoEvent
<1>4. ASSUME g = obj[o].lease
      PROVE  \E d \in DOMAIN acts : /\ acts[d].obj = o /\ Open(d) /\ Leaves(d) /\ Triggered(d)
                                    /\ ~acts[d].late
                                    /\ acts[d].kind = "EVICT" => d \in copied
  <2>1. PICK d \in DOMAIN acts : acts[d].obj = o /\ Open(d) /\ Leaves(d) /\ ~acts[d].late
    BY <1>2, <1>3, <1>4 DEF IInv, Places, LeaseStates
  <2>2. /\ leases[o][g].state = "RETIRE_PENDING"
        /\ leases[o][g].event =
             IF acts[d].kind = "RELEASE" THEN << "task", acts[d].task >>
             ELSE IF acts[d].state = "QUEUED" THEN NoEvent ELSE << "copy", d >>
    BY <1>2, <1>4, <2>1 DEF IInv, Places, LeaseStates
  <2>3. Complete(leases[o][g].event)
    BY <2>2
  <2>4. CASE acts[d].kind = "RELEASE"
    <3>1. Complete(<< "task", acts[d].task >>)
      BY <2>2, <2>3, <2>4
    <3>2. Triggered(d)
      BY <3>1 DEF Complete, Triggered
    <3> QED BY <2>1, <2>4, <3>2
  <2>5. CASE acts[d].kind = "EVICT"
    <3>1. d \in copied
      BY <2>2, <2>3, <2>5 DEF Complete, NoEvent
    <3>2. Triggered(d)
      BY <2>5, <3>1 DEF IInv, Flights, Stages, Fetch
    <3> QED BY <2>1, <3>1, <3>2
  <2> QED BY <2>1, <2>4, <2>5 DEF Leaves
<1>5. ASSUME NEW t \in ran + 1 .. Len(tasks), tasks[t].obj = o, tasks[t].lease = g
      PROVE  FALSE
  <2>1. t \in Unrun(o) /\ t \in DOMAIN tasks /\ t \in Nat /\ ran < t
    BY <1>1, <1>5 DEF Unrun
  <2>2. g = obj[o].lease
    BY <1>5, <2>1 DEF IInv, Uses, Users
  <2>3. PICK d \in DOMAIN acts : acts[d].obj = o /\ Open(d) /\ Leaves(d) /\ Triggered(d)
    BY <1>4, <2>2
  <2>4. t <= acts[d].task /\ acts[d].task <= ran /\ acts[d].task \in Nat
    BY <1>1, <1>5, <2>1, <2>3, ActionTyped DEF IInv, Lists, Versions, Triggered, ActionRecord
  <2> QED BY <1>1, <2>1, <2>4
<1>6. ASSUME NEW a \in DOMAIN acts, a \notin copied, acts[a].obj = o, acts[a].lease = g
      PROVE  FALSE
  <2>1. Queued(a) /\ Open(a) /\ a \in Nat
    BY <1>1, <1>2, <1>6, ActionTyped DEF IInv, Lists, Static, Flights, Stages
  <2>2. g = obj[o].lease
    <3>1. CASE ~InHand(a)
      BY <1>2, <1>6, <3>1 DEF IInv, Uses, Users
    <3>2. CASE InHand(a)
      BY <1>3, <1>6, <3>2 DEF IInv, Flights, AtLane, InHand
    <3> QED BY <3>1, <3>2
  <2>3. PICK d \in DOMAIN acts : /\ acts[d].obj = o /\ Open(d) /\ Leaves(d) /\ Triggered(d)
                                 /\ ~acts[d].late
                                 /\ acts[d].kind = "EVICT" => d \in copied
    BY <1>4, <2>2
  <2>4. a # d /\ d \in Nat
    BY <1>1, <1>6, <2>1, <2>3, ActionTyped DEF Leaves, Queued
  <2>5. CASE Behind(a, d)
    <3>1. CASE acts[d].kind = "EVICT"
      <4>1. acts[d].state = "IN_FLIGHT"
        BY <1>1, <2>3, <3>1, ActionTyped DEF IInv, Flights, Stages, Open, ActionRecord, AllStates
      <4>2. First(d)
        BY <4>1 DEF IInv, Flights, Stages
      <4> QED BY <2>5, <4>2 DEF First
    <3>2. CASE acts[d].kind = "RELEASE"
      <4>1. PICK t \in DOMAIN tasks : t <= acts[d].task /\ a \in tasks[t].waits
        BY <1>6, <2>1, <2>3, <2>5, <3>2 DEF IInv, Uses, Releases, Fetch
      <4>2. t \in 1 .. ran
        BY <1>1, <2>3, <4>1, ActionTyped, SMTT(20) DEF Triggered, ActionRecord
      <4> QED BY <1>6, <4>1, <4>2 DEF IInv, Uses, Users
    <3> QED BY <2>3, <3>1, <3>2 DEF Leaves
  <2>6. CASE Behind(d, a)
    <3>1. Waiting(a)
      BY <2>3, <2>6 DEF IInv, Lists, Order
    <3>2. InHand(a)
      BY <1>2, <1>6, <3>1 DEF Waiting, IInv, Flights, Stages
    <3>3. First(a)
      BY <3>2 DEF IInv, Flights, AtLane, InHand
    <3> QED BY <2>6, <3>3 DEF First
  <2> QED BY <1>6, <2>1, <2>3, <2>4, <2>5, <2>6 DEF Behind
<1>7. SUFFICES ASSUME Touched(<< o, g >>) PROVE FALSE
  OBVIOUS
<1>8. CASE \E t \in ran + 1 .. Len(tasks) : << tasks[t].obj, tasks[t].lease >> = << o, g >>
  BY <1>5, <1>8
<1>9. CASE \E a \in DOMAIN acts \ copied : << acts[a].obj, acts[a].lease >> = << o, g >>
  BY <1>6, <1>9
<1> QED BY <1>7, <1>8, <1>9 DEF Touched

\* Once the event that retires a range is complete, or the range is released,
\* nothing launched or claimed still touches it.
THEOREM RangesOutlive == ASSUME InScope PROVE Spec => []RangesOutliveUse
<1>1. IInv => RangesOutliveUse
  BY TouchedHeld DEF RangesOutliveUse
<1> QED BY <1>1, TransfersInvariant, PTL

\* A copy into a range that was promised while its last owner was retiring runs
\* when nothing launched or claimed by that owner still touches it.
THEOREM Reuse == ASSUME InScope PROVE Spec => []ReuseOrdered
<1>1. IInv => ReuseOrdered
  <2> SUFFICES ASSUME IInv, NEW a \in copied, acts[a].pred # NoRange PROVE ~Touched(acts[a].pred)
    BY DEF ReuseOrdered
  <2>1. a \in DOMAIN acts
    BY DEF IInv, Types
  <2>2. PICK range : range = acts[a].pred
    OBVIOUS
  <2>3. /\ range[1] \in Objects /\ range[2] \in DOMAIN leases[range[1]]
        /\ Lease(range).state = "FREE" \/ Complete(Lease(range).event)
    BY <2>1, <2>2 DEF IInv, Reused
  <2>4. ~Touched(<< range[1], range[2] >>)
    BY <2>3, TouchedHeld DEF Lease
  <2>5. range \in Objects \X Nat
    BY <2>1, <2>2, ActionTyped DEF IInv, ActionRecord
  <2>6. range = << range[1], range[2] >>
    BY <2>5
  <2> QED BY <2>2, <2>4, <2>6
<1> QED BY <1>1, TransfersInvariant, PTL
=============================================================================
