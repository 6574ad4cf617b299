--------------------------- MODULE RetirementProofs -------------------------
(***************************************************************************)
(* What the life of an allocation guarantees, for any number of leases,    *)
(* streams, threads, tasks, destinations and generations: the types,       *)
(* pending_retirements, and, where a task uses one stream, that a free     *)
(* range is idle and that the owners of a range use it one after another.  *)
(*                                                                         *)
(* The last two follow from what covers the work a stream has still to do. *)
(* While a lease owns a range, the unfinished work on the range is on      *)
(* streams the lease knows of; once its retirement is queued, the events   *)
(* come after all of it; and a transfer that took the range early waits    *)
(* for all of it.  Reclaiming behind those events, recycling on the stream *)
(* of every use and the hand-over to a successor each keep that.           *)
(***************************************************************************)
EXTENDS Retirement, FiniteSetTheorems, TLAPS
(* The types of the state. *)
Event == [stream : Streams, at : Nat]
Entry == [block : Nat \cup {None}, generation : Nat, needs : SUBSET Event]
LeaseRecord ==
  [state : States, block : Nat \cup {None}, generation : Nat, home : Streams \cup {None},
   uses : SUBSET Streams, phase : Phases, events : SUBSET Event, task : Threads \cup {None},
   linked : Threads \cup {None}, enqueued : Nat, successor : Leases \cup {None},
   predecessor : Leases \cup {None}, planned : BOOLEAN]
QueueRecord == [lease : Leases, generation : Nat, events : SUBSET Event]
ThreadState == [at : Places, stream : Streams \cup {None}, lease : Leases \cup {None}]

Typed ==
  /\ setup \in Setups
  /\ lease \in [Leases -> LeaseRecord]
  /\ queue \subseteq QueueRecord /\ owed \subseteq QueueRecord
  /\ pending \in Int
  /\ generation \in Nat \ {0}
  /\ thread \in [Threads -> ThreadState]
  /\ scope \subseteq Threads /\ moved \subseteq Threads
  /\ work \in [Streams -> Seq(Entry)]
  /\ done \in [Streams -> Nat]
  /\ \A s \in Streams : done[s] <= Len(work[s])

Queueable == {"event", "uses"}

\* What the state of a lease says of its other fields.
Sound(r) ==
  /\ r.state = "FREE" => r.generation = 0 /\ r.block = None
  /\ r.state # "FREE" => r.generation > 0 /\ r.generation < generation /\ r.block \in setup.blocks
  /\ r.phase # "none" <=> r.state \in {"RETIRE_PENDING", "TRANSFERRED"}
  /\ r.state = "TRANSFERRED" => r.phase = "event" /\ setup.acquires
  /\ r.state \in {"RESERVED", "SUCCESSOR_RESERVED"} => r.planned
  /\ r.state \in {"RETIRE_PENDING", "TRANSFERRED"} => ~ r.planned /\ r.home \in r.uses
  /\ r.state = "IN_USE" /\ ~ r.planned => r.home \in Streams
  /\ r.phase = "local" => r.uses = {r.home} /\ r.home \in setup.taskStreams
  /\ r.phase \in Queueable => r.enqueued = r.generation
  /\ r.state # "FREE" /\ r.phase \notin Queueable => r.enqueued < r.generation
  /\ r.successor # None => r.state = "RETIRE_PENDING"

\* Both ends of a promise name each other, and the successor is the younger.
Promised ==
  /\ \A l \in Leases : lease[l].successor \in Leases =>
       LET n == lease[lease[l].successor] IN
       /\ n.state = "SUCCESSOR_RESERVED" /\ n.predecessor = l
       /\ n.block = lease[l].block /\ lease[l].generation < n.generation
  /\ \A n \in Leases : lease[n].state = "SUCCESSOR_RESERVED" =>
       lease[n].predecessor \in Leases /\ lease[lease[n].predecessor].successor = n

\* A range has one owner.
Exclusive ==
  \A l, m \in Leases :
    OwnsRange(l) /\ OwnsRange(m) /\ lease[l].block = lease[m].block => l = m

\* A queued record that speaks for its lease carries the events of its lease.
QueueExact ==
  \A r \in queue :
    /\ r.generation > 0 /\ r.generation < generation
    /\ lease[r.lease].generation = r.generation =>
         lease[r.lease].phase \in Queueable /\ lease[r.lease].events = r.events

\* A lease whose events are being recorded is in the hands of one thread, and a
\* request made inside a task is for a stream of the task.
InCall == {"free", "abortfree"}
Handled ==
  /\ \A t \in Threads : thread[t].at \in InCall =>
       thread[t].lease \in Leases /\ lease[thread[t].lease].phase = "preparing"
  /\ \A t, u \in Threads :
       thread[t].at \in InCall /\ thread[u].at \in InCall /\ thread[t].lease = thread[u].lease
         => t = u
  /\ \A t \in Threads : thread[t].at \in {"request", "publish", "wait"} =>
       thread[t].stream \in Streams /\ (t \in scope => thread[t].stream \in setup.taskStreams)

\* The pending count is never too low, and exact where no successor acquires its
\* range early.
Counted ==
  /\ \A r, q \in owed : r = q
  /\ pending >= Cardinality(Outstanding) + Cardinality(owed)
  /\ ~ setup.acquires => PendingExact

\* The work on a range is not younger than its owner.
Aged ==
  \A s \in Streams : \A i \in 1..Len(work[s]) :
    /\ work[s][i].generation < generation
    /\ \A l \in Leases : OwnsRange(l) /\ work[s][i].block = lease[l].block =>
         work[s][i].generation <= lease[l].generation

-----------------------------------------------------------------------------
(* The device. *)

\* What a stream has still to do.
Left(s) == done[s] + 1 .. Len(work[s])

\* An event of this set comes after the i-th piece of work of stream s.
After(events, s, i) == \E e \in events : e.stream = s /\ i <= e.at

\* Unfinished work is on a range somebody owns.
Backed ==
  \A s \in Streams : \A i \in Left(s) : work[s][i].block # None =>
    \E l \in Leases : OwnsRange(l) /\ lease[l].block = work[s][i].block

\* Unfinished work on the range of r, stream by stream: the owner's own is on a
\* stream it recorded, what earlier owners left is on its home stream, the events
\* of a retirement come after all of it, and a transfer into the range waits for it.
CoveredAt(r, s, i) ==
  /\ r.state # "RESERVED"
  /\ ~ r.planned => IF work[s][i].generation = r.generation
                    THEN s \in r.uses \cup {r.home} ELSE s = r.home
  /\ r.phase \in Queueable => After(r.events, s, i)
  /\ r.planned => \/ work[s][i].generation = r.generation
                  \/ \E j \in Left(Lane) : /\ work[Lane][j].generation = r.generation
                                           /\ After(work[Lane][j].needs, s, i)
Covered(l) ==
  OwnsRange(l) => \A s \in Streams : \A i \in Left(s) :
                    work[s][i].block = lease[l].block => CoveredAt(lease[l], s, i)

\* Unfinished work of an older owner comes before that of a younger.
Ordered ==
  \A s, z \in Streams : \A i \in Left(s), j \in Left(z) :
    /\ work[s][i].block # None
    /\ work[z][j].block = work[s][i].block
    /\ work[z][j].generation < work[s][i].generation
    => (s = z /\ j < i) \/ After(work[s][i].needs, z, j)

Device == Backed /\ (\A l \in Leases : Covered(l)) /\ Ordered /\ OwnersOrdered

\* A task uses one stream.
OneTaskStream(s) == s.taskStreams = {TaskStream}

Structure == Typed /\ (\A l \in Leases : Sound(lease[l])) /\ Promised /\ Exclusive
               /\ QueueExact /\ Handled /\ Counted

IInv == Structure /\ Aged /\ (OneTaskStream(setup) => Device)

-----------------------------------------------------------------------------
(* Facts about one state. *)

\* The constants of the instance at hand.
LEMMA SetupFacts ==
  ASSUME Typed
  PROVE  /\ setup \in Setup /\ setup.blocks \subseteq Nat /\ None \notin setup.blocks
         /\ setup.threads \subseteq Threads /\ setup.taskStreams \subseteq Streams
         /\ setup.streams \subseteq Streams /\ setup.taskStreams \subseteq setup.streams
         /\ setup.acquires \in BOOLEAN
         /\ TaskStream \in Streams /\ Lane \in Streams
BY SetupsAssumption, LaneAssumption DEF Typed, Setup

\* The fields of a lease have their types.
LEMMA Fields ==
  ASSUME Typed, NEW l \in Leases
  PROVE  /\ lease[l] \in LeaseRecord
         /\ lease[l].state \in States /\ lease[l].block \in Nat \cup {None}
         /\ lease[l].generation \in Nat /\ lease[l].home \in Streams \cup {None}
         /\ lease[l].uses \in SUBSET Streams /\ lease[l].phase \in Phases
         /\ lease[l].events \in SUBSET Event /\ lease[l].task \in Threads \cup {None}
         /\ lease[l].linked \in Threads \cup {None} /\ lease[l].enqueued \in Nat
         /\ lease[l].successor \in Leases \cup {None}
         /\ lease[l].predecessor \in Leases \cup {None} /\ lease[l].planned \in BOOLEAN
BY DEF Typed, LeaseRecord

\* The end of a stream is an event.
LEMMA NowTyped ==
  ASSUME Typed, NEW s \in Streams
  PROVE  /\ Now(s) \in Event /\ Now(s).stream = s /\ Now(s).at = Len(work[s])
         /\ Len(work[s]) \in Nat /\ work[s] \in Seq(Entry)
<1>1. work[s] \in Seq(Entry)
  BY DEF Typed
<1>2. Len(work[s]) \in Nat
  BY <1>1
<1> QED BY <1>1, <1>2 DEF Now, Event

\* A free record.
LEMMA FreeRecordTyped ==
  ASSUME NEW k \in Threads \cup {None}
  PROVE  [FreeRecord EXCEPT !.linked = k] \in LeaseRecord /\ FreeRecord \in LeaseRecord
BY DEF FreeRecord, LeaseRecord, States, Phases

\* The counted leases are finitely many.
LEMMA OutstandingFinite ==
  /\ IsFiniteSet(Outstanding) /\ Cardinality(Outstanding) \in Nat
<1>1. Outstanding \subseteq Leases
  BY DEF Outstanding
<1> QED BY <1>1, LeasesAssumption, FS_Subset, FS_CardinalityType

\* At most one record is owed.
LEMMA OwedOne ==
  ASSUME \A r, q \in owed : r = q
  PROVE  /\ Cardinality(owed) = IF owed = {} THEN 0 ELSE 1
         /\ Cardinality(owed) \in Nat
<1>1. CASE owed = {}
  BY <1>1, FS_EmptySet
<1>2. CASE owed # {}
  <2>1. PICK r : r \in owed
    BY <1>2
  <2>2. owed = {r}
    BY <2>1
  <2>3. Cardinality({r}) = 1
    BY FS_Singleton
  <2> QED BY <1>2, <2>2, <2>3
<1> QED BY <1>1, <1>2

-----------------------------------------------------------------------------
(* The initial state. *)

\* Nothing is allocated, queued or submitted.
LEMMA InitHolds == Init => IInv
<1> SUFFICES ASSUME Init PROVE IInv
  OBVIOUS
<1>1. \A l \in Leases : lease[l] = FreeRecord
  BY DEF Init
<1>2. \A s \in Streams : work[s] = <<>> /\ Len(work[s]) = 0 /\ done[s] = 0 /\ Left(s) = {}
  BY DEF Init, Left
<1>3. Typed
  <2>1. lease \in [Leases -> LeaseRecord]
    BY FreeRecordTyped DEF Init
  <2>2. thread \in [Threads -> ThreadState]
    BY DEF Init, ThreadState, Idle, At, Places
  <2>3. work \in [Streams -> Seq(Entry)] /\ done \in [Streams -> Nat]
    BY DEF Init
  <2> QED BY <1>2, <2>1, <2>2, <2>3 DEF Init, Typed
<1>4. \A l \in Leases : Sound(lease[l])
  BY <1>1 DEF Sound, FreeRecord, Queueable
<1>5. Promised /\ Exclusive
  BY <1>1, NoneAssumption DEF Promised, Exclusive, OwnsRange, FreeRecord
<1>6. QueueExact /\ Handled
  BY DEF Init, QueueExact, Handled, InCall, Idle, At
<1>7. Counted
  <2>1. Outstanding = {} /\ owed = {} /\ pending = 0
    BY <1>1 DEF Init, Outstanding, FreeRecord
  <2> QED BY <2>1, FS_EmptySet DEF Counted, PendingExact
<1>8. Aged
  BY <1>2 DEF Aged
<1>9. Device
  <2>1. OwnersOrdered
    BY <1>2 DEF OwnersOrdered
  <2> QED BY <1>2, <2>1 DEF Device, Backed, Covered, Ordered
<1> QED BY <1>3, <1>4, <1>5, <1>6, <1>7, <1>8, <1>9 DEF IInv, Structure

-----------------------------------------------------------------------------
(***************************************************************************)
(* What a step has to leave alone.  Each part of the invariant survives a  *)
(* step that keeps, of every lease, the fields that part is about.         *)
(***************************************************************************)

\* Lease l owns what it owned and its promise stands; it may have passed to a
\* new owner in place, which no promise allows.
Holds(l) ==
  /\ OwnsRange(l)' <=> OwnsRange(l)
  /\ lease'[l].block = lease[l].block
  /\ lease'[l].successor = lease[l].successor
  /\ lease'[l].predecessor = lease[l].predecessor
  /\ lease'[l].state = "SUCCESSOR_RESERVED" <=> lease[l].state = "SUCCESSOR_RESERVED"
  /\ \/ lease'[l].generation = lease[l].generation
     \/ /\ lease[l].successor = None /\ lease[l].state # "SUCCESSOR_RESERVED"
        /\ lease'[l].generation = generation

\* A promise and the owner of a range survive a step that holds every lease.
LEMMA KeptRanges ==
  ASSUME Promised, Exclusive, NoneAssumption, \A l \in Leases : Holds(l)
  PROVE  Promised' /\ Exclusive'
<1>1. Promised'
  <2>1. ASSUME NEW l \in Leases, lease'[l].successor \in Leases
        PROVE  LET n == lease'[lease'[l].successor] IN
               /\ n.state = "SUCCESSOR_RESERVED" /\ n.predecessor = l
               /\ n.block = lease'[l].block /\ lease'[l].generation < n.generation
    <3>0. PICK m \in Leases : m = lease'[l].successor
      BY <2>1
    <3>1. Holds(l) /\ Holds(m)
      OBVIOUS
    <3>2. lease[l].successor = m /\ m # None
      BY <3>0, <3>1, NoneAssumption DEF Holds
    <3>3. /\ lease[m].state = "SUCCESSOR_RESERVED" /\ lease[m].predecessor = l
          /\ lease[m].block = lease[l].block /\ lease[l].generation < lease[m].generation
      BY <3>2 DEF Promised
    <3> QED BY <3>0, <3>1, <3>2, <3>3 DEF Holds
  <2>2. ASSUME NEW n \in Leases, lease'[n].state = "SUCCESSOR_RESERVED"
        PROVE  lease'[n].predecessor \in Leases /\ lease'[lease'[n].predecessor].successor = n
    BY <2>2 DEF Holds, Promised
  <2> QED BY <2>1, <2>2 DEF Promised
<1>2. Exclusive'
  BY DEF Holds, Exclusive
<1> QED BY <1>1, <1>2

\* Lease l says of its events what it said, or has another generation.
Speaks(l) ==
  \/ /\ lease'[l].generation = lease[l].generation
     /\ lease[l].phase \in Queueable =>
          lease'[l].phase \in Queueable /\ lease'[l].events = lease[l].events
  \/ lease'[l].generation = 0
  \/ lease'[l].generation = generation

\* No queued record comes to speak for a lease with other events.
LEMMA QueueKept ==
  ASSUME Typed, QueueExact, queue' \subseteq queue,
         generation' \in {generation, generation + 1}, \A l \in Leases : Speaks(l)
  PROVE  QueueExact'
<1> SUFFICES ASSUME NEW r \in queue'
             PROVE  /\ r.generation > 0 /\ r.generation < generation'
                    /\ lease'[r.lease].generation = r.generation =>
                         /\ lease'[r.lease].phase \in Queueable
                         /\ lease'[r.lease].events = r.events
  BY DEF QueueExact
<1>1. r \in queue /\ r.lease \in Leases /\ r.generation \in Nat /\ generation \in Nat
  BY DEF Typed, QueueRecord
<1>2. r.generation > 0 /\ r.generation < generation
      /\ (lease[r.lease].generation = r.generation =>
           lease[r.lease].phase \in Queueable /\ lease[r.lease].events = r.events)
  BY <1>1 DEF QueueExact
<1> QED BY <1>1, <1>2 DEF Speaks

\* Leases in the hands of a thread stay there.
LEMMA HandledKept ==
  ASSUME Handled, thread' = thread, scope' = scope, setup' = setup,
         \A l \in Leases : lease[l].phase = "preparing" => lease'[l].phase = "preparing"
  PROVE  Handled'
BY DEF Handled

\* A step that neither starts nor ends a retirement.
LEMMA CountedKept ==
  ASSUME Counted, pending' = pending, owed' = owed, setup' = setup, Outstanding' = Outstanding
  PROVE  Counted'
BY DEF Counted, PendingExact

\* One retirement more.
LEMMA CountedUp ==
  ASSUME Typed, Counted, pending' = pending + 1, owed' = owed, setup' = setup,
         NEW l, l \notin Outstanding, Outstanding' = Outstanding \cup {l}
  PROVE  Counted'
<1>1. Cardinality(Outstanding \cup {l}) = Cardinality(Outstanding) + 1
      /\ Cardinality(Outstanding) \in Nat
  BY OutstandingFinite, FS_AddElement
<1>2. Cardinality(owed) \in Nat /\ pending \in Int
  BY OwedOne DEF Counted, Typed
<1> QED BY <1>1, <1>2 DEF Counted, PendingExact

\* One retirement less.
LEMMA CountedDown ==
  ASSUME Typed, Counted, pending' = pending - 1, owed' = owed, setup' = setup,
         NEW l, l \in Outstanding, Outstanding' = Outstanding \ {l}
  PROVE  Counted'
<1>1. Cardinality(Outstanding \ {l}) = Cardinality(Outstanding) - 1
      /\ Cardinality(Outstanding) \in Nat
  BY OutstandingFinite, FS_RemoveElement
<1>2. Cardinality(owed) \in Nat /\ pending \in Int
  BY OwedOne DEF Counted, Typed
<1> QED BY <1>1, <1>2 DEF Counted, PendingExact

\* Work stays no younger than the owner of its range.
LEMMA AgedKept ==
  ASSUME Typed, Aged, work' = work, generation' \in {generation, generation + 1},
         \A l \in Leases :
           OwnsRange(l)' => \/ /\ OwnsRange(l) /\ lease'[l].block = lease[l].block
                               /\ lease'[l].generation = lease[l].generation
                            \/ lease'[l].generation = generation
  PROVE  Aged'
<1> SUFFICES ASSUME NEW s \in Streams, NEW i \in 1..Len(work[s])
             PROVE  /\ work[s][i].generation < generation'
                    /\ \A l \in Leases : OwnsRange(l)' /\ work[s][i].block = lease'[l].block =>
                         work[s][i].generation <= lease'[l].generation
  BY DEF Aged
<1>1. work[s] \in Seq(Entry) /\ work[s][i] \in Entry /\ generation \in Nat
  BY DEF Typed
<1>2. work[s][i].generation \in Nat
  BY <1>1 DEF Entry
<1>3. work[s][i].generation < generation
  BY DEF Aged
<1>4. ASSUME NEW l \in Leases, OwnsRange(l)', work[s][i].block = lease'[l].block
      PROVE  work[s][i].generation <= lease'[l].generation
  <2>1. CASE lease'[l].generation = generation
    BY <1>1, <1>2, <1>3, <2>1
  <2>2. CASE OwnsRange(l) /\ lease'[l].block = lease[l].block
             /\ lease'[l].generation = lease[l].generation
    BY <1>4, <2>2 DEF Aged
  <2> QED BY <1>4, <2>1, <2>2
<1> QED BY <1>1, <1>2, <1>3, <1>4

-----------------------------------------------------------------------------
(* The same for the device, when nothing is submitted and nothing completes. *)

\* Lease l owns no new range, and has forgotten no stream and no event.
Covers(l) ==
  OwnsRange(l)' =>
    /\ OwnsRange(l)
    /\ lease'[l].block = lease[l].block /\ lease'[l].generation = lease[l].generation
    /\ lease'[l].home = lease[l].home /\ lease'[l].planned = lease[l].planned
    /\ lease[l].uses \subseteq lease'[l].uses \cup {lease[l].home}
    /\ lease'[l].state = "RESERVED" => lease[l].state = "RESERVED"
    /\ lease'[l].phase \in Queueable =>
         lease[l].phase \in Queueable /\ lease'[l].events = lease[l].events

\* What a lease covers it covers still.
LEMMA SameCovered ==
  ASSUME NEW l \in Leases, Covered(l), work' = work, done' = done, Covers(l)
  PROVE  Covered(l)'
<1> SUFFICES ASSUME OwnsRange(l)', NEW s \in Streams, NEW i \in Left(s),
                    work[s][i].block = lease'[l].block
             PROVE  CoveredAt(lease[l], s, i)'
  BY DEF Covered, Left
<1>1. Left(Lane)' = Left(Lane) /\ OwnsRange(l) /\ work[s][i].block = lease[l].block
  BY DEF Left, Covers
<1>2. CoveredAt(lease[l], s, i)
  BY <1>1 DEF Covered
<1> QED BY <1>1, <1>2 DEF CoveredAt, Covers, After

\* A range that is given up, or that nobody owned, has no unfinished work.
Free(b) == \A s \in Streams : \A i \in Left(s) : work[s][i].block # b

\* Unfinished work keeps an owner of its range.
LEMMA BackedKept ==
  ASSUME Backed, work' = work, done' = done,
         \A l \in Leases : OwnsRange(l) =>
           \/ OwnsRange(l)' /\ lease'[l].block = lease[l].block
           \/ \E m \in Leases : OwnsRange(m)' /\ lease'[m].block = lease[l].block
           \/ Free(lease[l].block)
  PROVE  Backed'
BY DEF Backed, Left, Free

\* Only the leases have changed.
LEMMA DeviceKept ==
  ASSUME Device, work' = work, done' = done, Backed', \A l \in Leases : Covered(l)'
  PROVE  Device'
<1>1. Ordered'
  BY DEF Device, Ordered, Left, After
<1>2. OwnersOrdered'
  BY DEF Device, OwnersOrdered
<1> QED BY <1>1, <1>2 DEF Device

-----------------------------------------------------------------------------
(* The steps of the threads that hold, free and use leases. *)

\* A step of the leases that keeps all of them where they are.
LEMMA InPlace ==
  ASSUME IInv, Typed', \A l \in Leases : Sound(lease[l])',
         \A l \in Leases : Holds(l), QueueExact', Handled', Counted',
         setup' = setup, work' = work, done' = done,
         generation' \in {generation, generation + 1},
         OneTaskStream(setup) /\ Device => \A l \in Leases : Covered(l)'
  PROVE  IInv'
<1>1. Promised' /\ Exclusive'
  BY KeptRanges, NoneAssumption DEF IInv, Structure
<1>2. Aged'
  BY AgedKept DEF IInv, Structure, Holds
<1>3. ASSUME OneTaskStream(setup) PROVE Device'
  <2>1. Device
    BY <1>3 DEF IInv
  <2>2. Backed'
    BY <2>1, BackedKept DEF Device, Holds
  <2> QED BY <1>3, <2>1, <2>2, DeviceKept
<1> QED BY <1>1, <1>2, <1>3 DEF IInv, Structure, OneTaskStream

\* shadowspill_memory_pool_record_stream
LEMMA RecordStreamKeeps ==
  ASSUME IInv, NEW t \in Threads, NEW l \in Leases, NEW s \in Streams, RecordStream(t, l, s)
  PROVE  IInv'
<1> USE DEF IInv, Structure
<1>1. /\ lease[l] \in LeaseRecord /\ lease[l].uses \in SUBSET Streams
      /\ lease \in [Leases -> LeaseRecord]
      /\ lease' = [lease EXCEPT ![l] = [lease[l] EXCEPT !.uses = lease[l].uses \cup {s}]]
      /\ lease[l].state = "IN_USE" /\ lease[l].phase = "none"
      /\ UNCHANGED <<queue, owed, pending, generation, thread, scope, moved, work, done, setup>>
  BY Fields DEF Typed, RecordStream, Held, Sound, device
<1>2. /\ lease'[l] = [lease[l] EXCEPT !.uses = lease[l].uses \cup {s}]
      /\ \A m \in Leases : m # l => lease'[m] = lease[m]
  BY <1>1
<1>3. lease' \in [Leases -> LeaseRecord]
  BY <1>1 DEF LeaseRecord
<1>4. Typed'
  BY <1>1, <1>3 DEF Typed
<1>5. \A m \in Leases : Sound(lease[m])'
  BY <1>1, <1>2 DEF Sound, Queueable, LeaseRecord
<1>6. \A m \in Leases : Holds(m) /\ Speaks(m) /\ Covers(m)
                        /\ lease'[m].phase = lease[m].phase /\ lease'[m].state = lease[m].state
  BY <1>1, <1>2 DEF Holds, Speaks, Covers, OwnsRange, LeaseRecord
<1>7. QueueExact' /\ Handled' /\ Counted'
  <2>1. Outstanding' = Outstanding
    BY <1>1, <1>6 DEF Outstanding
  <2> QED BY <1>1, <1>6, <2>1, QueueKept, HandledKept, CountedKept
<1>8. OneTaskStream(setup) /\ Device => \A m \in Leases : Covered(m)'
  BY <1>1, <1>6, SameCovered DEF Device
<1> QED BY <1>1, <1>4, <1>5, <1>6, <1>7, <1>8, InPlace

\* Thread t goes somewhere, and lets go of the lease it had in hand.
LEMMA ThreadGoes ==
  ASSUME Typed, Handled, NEW t \in Threads, NEW x \in ThreadState,
         thread' = [thread EXCEPT ![t] = x], setup' = setup, x.at \notin InCall,
         \A u \in Threads : u # t => (u \in scope' <=> u \in scope),
         x.at \in {"request", "publish", "wait"} =>
           x.stream \in Streams /\ (t \in scope' => x.stream \in setup.taskStreams),
         \A l \in Leases : lease[l].phase = "preparing" =>
           \/ lease'[l].phase = "preparing"
           \/ thread[t].at \in InCall /\ thread[t].lease = l
  PROVE  Handled' /\ thread' \in [Threads -> ThreadState]
<1>1. thread \in [Threads -> ThreadState]
  BY DEF Typed
<1>2. thread'[t] = x /\ \A u \in Threads : u # t => thread'[u] = thread[u]
  BY <1>1
<1>3. thread' \in [Threads -> ThreadState]
  BY <1>1
<1>4. ASSUME NEW u \in Threads, thread'[u].at \in InCall
      PROVE  /\ u # t /\ thread[u].at \in InCall
             /\ thread'[u].lease \in Leases /\ lease'[thread'[u].lease].phase = "preparing"
  <2>1. u # t /\ thread'[u] = thread[u]
    BY <1>2, <1>4
  <2>2. thread[u].lease \in Leases /\ lease[thread[u].lease].phase = "preparing"
    BY <1>4, <2>1 DEF Handled
  <2>3. ~ (thread[t].at \in InCall /\ thread[t].lease = thread[u].lease)
    BY <1>4, <2>1 DEF Handled
  <2> QED BY <1>4, <2>1, <2>2, <2>3
<1>5. \A u, v \in Threads :
        thread'[u].at \in InCall /\ thread'[v].at \in InCall /\ thread'[u].lease = thread'[v].lease
          => u = v
  BY <1>2, <1>4 DEF Handled
<1>6. \A u \in Threads : thread'[u].at \in {"request", "publish", "wait"} =>
        thread'[u].stream \in Streams /\ (u \in scope' => thread'[u].stream \in setup'.taskStreams)
  BY <1>2 DEF Handled
<1> QED BY <1>3, <1>4, <1>5, <1>6 DEF Handled

\* Thread t takes a lease in hand that nobody had.
LEMMA ThreadTakes ==
  ASSUME Typed, Handled, NEW t \in Threads, NEW x \in ThreadState, NEW l \in Leases,
         thread' = [thread EXCEPT ![t] = x], setup' = setup, scope' = scope,
         x.at \in InCall, x.lease = l,
         lease[l].phase # "preparing", lease'[l].phase = "preparing",
         \A m \in Leases : lease[m].phase = "preparing" => lease'[m].phase = "preparing"
  PROVE  Handled' /\ thread' \in [Threads -> ThreadState]
<1>1. thread \in [Threads -> ThreadState]
  BY DEF Typed
<1>2. thread'[t] = x /\ \A u \in Threads : u # t => thread'[u] = thread[u]
  BY <1>1
<1>3. thread' \in [Threads -> ThreadState]
  BY <1>1
<1>4. ASSUME NEW u \in Threads, thread'[u].at \in InCall
      PROVE  /\ thread'[u].lease \in Leases /\ lease'[thread'[u].lease].phase = "preparing"
             /\ u # t => thread'[u].lease # l /\ thread[u].at \in InCall
  BY <1>2, <1>4 DEF Handled
<1>5. \A u, v \in Threads :
        thread'[u].at \in InCall /\ thread'[v].at \in InCall /\ thread'[u].lease = thread'[v].lease
          => u = v
  BY <1>2, <1>4 DEF Handled
<1>6. \A u \in Threads : thread'[u].at \in {"request", "publish", "wait"} =>
        thread'[u].stream \in Streams /\ (u \in scope' => thread'[u].stream \in setup'.taskStreams)
  BY <1>2 DEF Handled, InCall
<1> QED BY <1>3, <1>4, <1>5, <1>6 DEF Handled

\* Only a thread moves.
LEMMA ThreadStep ==
  ASSUME IInv, UNCHANGED <<setup, lease, queue, owed, pending, generation, work, done>>,
         thread' \in [Threads -> ThreadState], scope' \subseteq Threads,
         moved' \subseteq Threads, Handled'
  PROVE  IInv'
<1>1. Typed'
  BY DEF IInv, Structure, Typed
<1>2. (\A l \in Leases : Sound(lease[l])') /\ Promised' /\ Exclusive' /\ QueueExact'
  BY DEF IInv, Structure, Sound, Promised, Exclusive, OwnsRange, QueueExact
<1>3. Counted'
  <2>1. Outstanding' = Outstanding
    BY DEF Outstanding
  <2> QED BY <2>1, CountedKept DEF IInv, Structure
<1>4. Aged'
  BY DEF IInv, Aged, OwnsRange
<1>5. ASSUME OneTaskStream(setup) PROVE Device'
  <2>1. Device
    BY <1>5 DEF IInv
  <2>2. Backed'
    BY <2>1 DEF Device, Backed, Left, OwnsRange
  <2>3. \A l \in Leases : Covered(l)'
    BY <2>1, SameCovered DEF Device, Covers, OwnsRange
  <2> QED BY <2>1, <2>2, <2>3, DeviceKept
<1> QED BY <1>1, <1>2, <1>3, <1>4, <1>5 DEF IInv, Structure, OneTaskStream

\* Calls that begin, waits, refusals, entering a task and giving one up.
LEMMA ThreadSteps ==
  ASSUME IInv, NEW t \in setup.threads,
         \/ \E s \in Streams : Request(t, s)
         \/ RefuseAllocation(t) \/ BeginWait(t) \/ EndWait(t) \/ FailRequest(t)
         \/ EnterTask(t) \/ AbortTask(t)
  PROVE  IInv'
<1> USE DEF IInv, Structure
<1>1. /\ t \in Threads /\ thread[t] \in ThreadState /\ thread \in [Threads -> ThreadState]
      /\ setup.taskStreams \subseteq Streams /\ scope \subseteq Threads /\ moved \subseteq Threads
  BY SetupFacts DEF Typed
<1>2. UNCHANGED <<setup, lease, queue, owed, pending, generation, work, done>>
      /\ moved' \subseteq Threads
  BY <1>1 DEF Request, RefuseAllocation, BeginWait, EndWait, FailRequest, EnterTask, AbortTask,
              device
<1>3. CASE EnterTask(t)
  <2>1. thread' = thread /\ scope' = scope \cup {t} /\ thread[t].at = "idle"
    BY <1>3 DEF EnterTask, Idle, At
  <2>2. Handled'
    BY <1>2, <2>1 DEF Handled
  <2> QED BY <1>1, <1>2, <2>1, <2>2, ThreadStep
<1>4. CASE ~ EnterTask(t)
  <2>1. PICK x \in ThreadState :
          /\ thread' = [thread EXCEPT ![t] = x] /\ scope' = scope /\ x.at \notin InCall
          /\ thread[t].at \notin InCall
          /\ x.at \in {"request", "publish", "wait"} =>
               x.stream \in Streams /\ (t \in scope => x.stream \in setup.taskStreams)
    <3>1. CASE \E s \in Streams : Request(t, s)
      <4>1. PICK s \in Streams : Request(t, s)
        BY <3>1
      <4> DEFINE x == [At("request") EXCEPT !.stream = s]
      <4>2. x \in ThreadState /\ x.at = "request" /\ x.stream = s
        BY DEF ThreadState, Places, At
      <4>3. /\ thread' = [thread EXCEPT ![t] = x]
            /\ thread[t].at = "idle" /\ scope' = scope
            /\ t \in scope => s \in setup.taskStreams
        BY <4>1 DEF Request, At, Idle
      <4> HIDE DEF x
      <4> QED BY <4>2, <4>3 DEF InCall
    <3>2. CASE RefuseAllocation(t) \/ FailRequest(t)
      <4>1. Idle \in ThreadState
        BY DEF ThreadState, Places, At, Idle
      <4> QED BY <3>2, <4>1 DEF RefuseAllocation, Exhausted, FailRequest, At, Idle, InCall
    <3>3. CASE AbortTask(t)
      <4>1. At("abort") \in ThreadState
        BY DEF ThreadState, Places, At
      <4>2. /\ thread' = [thread EXCEPT ![t] = At("abort")] /\ scope' = scope
            /\ thread[t].at = "idle" /\ At("abort").at = "abort"
        BY <3>3 DEF AbortTask, At, Idle
      <4> QED BY <4>1, <4>2 DEF InCall
    <3>4. CASE BeginWait(t)
      <4>1. [thread[t] EXCEPT !.at = "publish"] \in ThreadState
        BY <1>1 DEF ThreadState, Places
      <4> QED BY <1>1, <3>4, <4>1 DEF BeginWait, Exhausted, InCall, Handled, ThreadState
    <3>5. CASE EndWait(t)
      <4>1. [thread[t] EXCEPT !.at = "request"] \in ThreadState
        BY <1>1 DEF ThreadState, Places
      <4> QED BY <1>1, <3>5, <4>1 DEF EndWait, InCall, Handled, ThreadState
    <3> QED BY <1>4, <3>1, <3>2, <3>3, <3>4, <3>5
  <2>2. Handled' /\ thread' \in [Threads -> ThreadState]
    BY <1>1, <1>2, <2>1, ThreadGoes
  <2> QED BY <1>1, <1>2, <2>1, <2>2, ThreadStep
<1> QED BY <1>3, <1>4

\* A free inside a task.
LEMMA FreeLocalKeeps ==
  ASSUME IInv, NEW t \in Threads, NEW l \in Leases, FreeLocal(t, l)
  PROVE  IInv'
<1> USE DEF IInv, Structure
<1> DEFINE r == [lease[l] EXCEPT !.state = "RETIRE_PENDING", !.phase = "local",
                   !.uses = {lease[l].home}, !.task = t,
                   !.linked = IF lease[l].linked = None THEN t ELSE lease[l].linked]
<1>1. /\ lease[l] \in LeaseRecord /\ lease \in [Leases -> LeaseRecord]
      /\ lease[l].state = "IN_USE" /\ ~ lease[l].planned /\ lease[l].phase = "none"
      /\ lease[l].home \in setup.taskStreams /\ lease[l].home \in Streams
      /\ lease[l].uses \subseteq {lease[l].home}
      /\ lease[l].linked \in Threads \cup {None}
      /\ pending' = pending + 1 /\ pending \in Int
      /\ UNCHANGED <<queue, owed, generation, thread, scope, moved, work, done, setup>>
  BY Fields DEF Typed, FreeLocal, Held, Sound, device
<1>2. lease' = [lease EXCEPT ![l] = r]
  BY <1>1 DEF FreeLocal
<1>3. r \in LeaseRecord
  BY <1>1 DEF LeaseRecord, States, Phases
<1>4. /\ lease' \in [Leases -> LeaseRecord] /\ lease'[l] = r
      /\ \A m \in Leases : m # l => lease'[m] = lease[m]
  BY <1>1, <1>2, <1>3
<1>5. /\ r.state = "RETIRE_PENDING" /\ r.phase = "local" /\ r.uses = {lease[l].home}
      /\ r.home = lease[l].home /\ r.block = lease[l].block /\ r.planned = lease[l].planned
      /\ r.generation = lease[l].generation /\ r.enqueued = lease[l].enqueued
      /\ r.successor = lease[l].successor /\ r.predecessor = lease[l].predecessor
      /\ r.events = lease[l].events
  BY <1>1 DEF LeaseRecord
<1> HIDE DEF r
<1>6. Typed'
  BY <1>1, <1>4 DEF Typed
<1>7. \A m \in Leases : Sound(lease[m])'
  BY <1>1, <1>4, <1>5 DEF Sound, Queueable
<1>8. \A m \in Leases : Holds(m) /\ Speaks(m) /\ Covers(m)
  BY <1>1, <1>4, <1>5 DEF Holds, Speaks, Covers, OwnsRange, Queueable
<1>9. QueueExact' /\ Handled'
  BY <1>1, <1>4, <1>8, QueueKept, HandledKept
<1>10. Counted'
  <2>1. l \notin Outstanding /\ Outstanding' = Outstanding \cup {l}
    BY <1>1, <1>4, <1>5 DEF Outstanding
  <2> QED BY <1>1, <2>1, CountedUp
<1>11. OneTaskStream(setup) /\ Device => \A m \in Leases : Covered(m)'
  BY <1>1, <1>8, SameCovered DEF Device
<1> QED BY <1>1, <1>6, <1>7, <1>8, <1>9, <1>10, <1>11, InPlace

\* A free whose events are recorded outside the lock begins.
LEMMA FreeBeginKeeps ==
  ASSUME IInv, NEW t \in Threads, NEW l \in Leases, FreeBegin(t, l)
  PROVE  IInv'
<1> USE DEF IInv, Structure
<1> DEFINE r == [lease[l] EXCEPT !.state = "RETIRE_PENDING", !.phase = "preparing",
                   !.uses = lease[l].uses \cup {lease[l].home},
                   !.task = IF t \in scope THEN t ELSE None]
           x == [At("free") EXCEPT !.lease = l]
<1>1. /\ lease[l] \in LeaseRecord /\ lease \in [Leases -> LeaseRecord]
      /\ lease[l].state = "IN_USE" /\ ~ lease[l].planned /\ lease[l].phase = "none"
      /\ lease[l].home \in Streams /\ lease[l].uses \in SUBSET Streams
      /\ pending' = pending + 1 /\ pending \in Int
      /\ UNCHANGED <<queue, owed, generation, scope, moved, work, done, setup>>
      /\ thread' = [thread EXCEPT ![t] = x]
  BY Fields DEF Typed, FreeBegin, Held, Sound, device
<1>2. lease' = [lease EXCEPT ![l] = r]
  BY <1>1 DEF FreeBegin
<1>3. r \in LeaseRecord /\ x \in ThreadState /\ x.at = "free" /\ x.lease = l
  BY <1>1 DEF LeaseRecord, States, Phases, At, ThreadState, Places
<1>4. /\ lease' \in [Leases -> LeaseRecord] /\ lease'[l] = r
      /\ \A m \in Leases : m # l => lease'[m] = lease[m]
  BY <1>1, <1>2, <1>3
<1>5. /\ r.state = "RETIRE_PENDING" /\ r.phase = "preparing"
      /\ r.uses = lease[l].uses \cup {lease[l].home}
      /\ r.home = lease[l].home /\ r.block = lease[l].block /\ r.planned = lease[l].planned
      /\ r.generation = lease[l].generation /\ r.enqueued = lease[l].enqueued
      /\ r.successor = lease[l].successor /\ r.predecessor = lease[l].predecessor
      /\ r.events = lease[l].events
  BY <1>1 DEF LeaseRecord
<1> HIDE DEF r, x
<1>6. Handled' /\ thread' \in [Threads -> ThreadState]
  BY <1>1, <1>3, <1>4, <1>5, ThreadTakes DEF InCall
<1>7. Typed'
  BY <1>1, <1>4, <1>6 DEF Typed
<1>8. \A m \in Leases : Sound(lease[m])'
  BY <1>1, <1>4, <1>5 DEF Sound, Queueable
<1>9. \A m \in Leases : Holds(m) /\ Speaks(m) /\ Covers(m)
  BY <1>1, <1>4, <1>5 DEF Holds, Speaks, Covers, OwnsRange, Queueable
<1>10. QueueExact' /\ Counted'
  <2>1. l \notin Outstanding /\ Outstanding' = Outstanding \cup {l}
    BY <1>1, <1>4, <1>5 DEF Outstanding
  <2> QED BY <1>1, <1>9, <2>1, CountedUp, QueueKept
<1>11. OneTaskStream(setup) /\ Device => \A m \in Leases : Covered(m)'
  BY <1>1, <1>9, SameCovered DEF Device
<1> QED BY <1>1, <1>6, <1>7, <1>8, <1>9, <1>10, <1>11, InPlace

\* A retirement without events changes its phase: it is taken in hand by an abort,
\* or its events could not be recorded.
LEMMA PhaseStep ==
  ASSUME IInv, NEW l \in Leases, NEW phase \in {"preparing", "lost"},
         lease[l].phase \in {"local", "preparing"},
         lease' = [lease EXCEPT ![l].phase = phase],
         UNCHANGED <<queue, owed, pending, generation, scope, moved, work, done, setup>>,
         Handled', thread' \in [Threads -> ThreadState]
  PROVE  IInv'
<1> USE DEF IInv, Structure
<1> DEFINE r == [lease[l] EXCEPT !.phase = phase]
<1>1. lease[l] \in LeaseRecord /\ lease \in [Leases -> LeaseRecord]
  BY Fields DEF Typed
<1>2. r \in LeaseRecord /\ lease' = [lease EXCEPT ![l] = r]
  BY <1>1 DEF LeaseRecord, Phases
<1>3. /\ lease' \in [Leases -> LeaseRecord] /\ lease'[l] = r
      /\ \A m \in Leases : m # l => lease'[m] = lease[m]
  BY <1>1, <1>2
<1>4. /\ r.state = lease[l].state /\ r.phase = phase /\ r.uses = lease[l].uses
      /\ r.home = lease[l].home /\ r.block = lease[l].block /\ r.planned = lease[l].planned
      /\ r.generation = lease[l].generation /\ r.enqueued = lease[l].enqueued
      /\ r.successor = lease[l].successor /\ r.predecessor = lease[l].predecessor
      /\ r.events = lease[l].events
  BY <1>1 DEF LeaseRecord
<1> HIDE DEF r
<1>5. Typed'
  BY <1>1, <1>3 DEF Typed
<1>6. \A m \in Leases : Sound(lease[m])'
  BY <1>1, <1>3, <1>4 DEF Sound, Queueable
<1>7. \A m \in Leases : Holds(m) /\ Speaks(m) /\ Covers(m) /\ lease'[m].state = lease[m].state
  BY <1>1, <1>3, <1>4 DEF Holds, Speaks, Covers, OwnsRange, Queueable
<1>8. QueueExact' /\ Counted'
  <2>1. Outstanding' = Outstanding
    BY <1>7 DEF Outstanding
  <2> QED BY <1>7, <2>1, CountedKept, QueueKept
<1>9. OneTaskStream(setup) /\ Device => \A m \in Leases : Covered(m)'
  BY <1>7, SameCovered DEF Device
<1> QED BY <1>5, <1>6, <1>7, <1>8, <1>9, InPlace

\* Recording an event fails, and an aborted task prepares what it freed.
LEMMA PhaseSteps ==
  ASSUME IInv, NEW t \in Threads, FreeFail(t) \/ AbortPrepare(t)
  PROVE  IInv'
<1> USE DEF IInv, Structure
<1>1. /\ UNCHANGED <<queue, owed, pending, generation, scope, moved, work, done, setup>>
      /\ lease \in [Leases -> LeaseRecord]
  BY DEF FreeFail, AbortPrepare, device, Typed
<1>2. CASE FreeFail(t)
  <2> DEFINE l == thread[t].lease
             x == IF thread[t].at = "free" THEN Idle ELSE At("leave")
  <2>1. /\ thread[t].at \in InCall /\ l \in Leases /\ lease[l].phase = "preparing"
        /\ lease' = [lease EXCEPT ![l].phase = "lost"]
        /\ thread' = [thread EXCEPT ![t] = x]
    BY <1>2 DEF FreeFail, Handled, InCall
  <2>2. x \in ThreadState /\ x.at \in {"idle", "leave"}
    BY DEF Idle, At, ThreadState, Places
  <2> HIDE DEF x
  <2>3. \A m \in Leases : m # l => lease'[m] = lease[m]
    BY <1>1, <2>1
  <2>4. Handled' /\ thread' \in [Threads -> ThreadState]
    BY <1>1, <2>1, <2>2, <2>3, ThreadGoes DEF InCall
  <2> QED BY <1>1, <2>1, <2>4, PhaseStep
<1>3. CASE AbortPrepare(t)
  <2>1. PICK l \in Leases : /\ lease[l].phase = "local"
                            /\ lease' = [lease EXCEPT ![l].phase = "preparing"]
                            /\ thread' = [thread EXCEPT ![t] = [At("abortfree") EXCEPT !.lease = l]]
    BY <1>3 DEF AbortPrepare, Local
  <2> DEFINE x == [At("abortfree") EXCEPT !.lease = l]
  <2>2. x \in ThreadState /\ x.at = "abortfree" /\ x.lease = l
    BY DEF At, ThreadState, Places
  <2>3. lease[l] \in LeaseRecord
    BY <1>1
  <2>4. lease'[l].phase = "preparing" /\ \A m \in Leases : m # l => lease'[m] = lease[m]
    BY <1>1, <2>1, <2>3 DEF LeaseRecord
  <2>5. thread' = [thread EXCEPT ![t] = x]
    BY <2>1
  <2> HIDE DEF x
  <2>6. Handled' /\ thread' \in [Threads -> ThreadState]
    BY <1>1, <2>1, <2>2, <2>4, <2>5, ThreadTakes DEF InCall
  <2> QED BY <1>1, <2>1, <2>6, PhaseStep
<1> QED BY <1>2, <1>3

\* Leases ls retire behind these events; every other field stays as it was.
Enqueues(ls, events) ==
  /\ lease' \in [Leases -> LeaseRecord]
  /\ \A l \in Leases :
       /\ lease'[l].state = lease[l].state /\ lease'[l].block = lease[l].block
       /\ lease'[l].generation = lease[l].generation /\ lease'[l].home = lease[l].home
       /\ lease'[l].uses = lease[l].uses /\ lease'[l].planned = lease[l].planned
       /\ lease'[l].successor = lease[l].successor
       /\ lease'[l].predecessor = lease[l].predecessor
  /\ \A l \in ls : /\ lease[l].phase \in {"local", "preparing"}
                   /\ lease'[l].phase \in Queueable /\ lease'[l].events = events
                   /\ lease'[l].enqueued = lease[l].generation
  /\ \A l \in Leases \ ls : /\ lease'[l].phase = lease[l].phase
                            /\ lease'[l].events = lease[l].events
                            /\ lease'[l].enqueued = lease[l].enqueued

\* A record of each is queued, and every stream their work was on has an event.
LEMMA EnqueueStep ==
  ASSUME IInv, NEW ls \in SUBSET Leases, NEW events \in SUBSET Event, Enqueues(ls, events),
         queue' = queue \cup Queued(ls, events),
         OneTaskStream(setup) => \A l \in ls : \A s \in lease[l].uses : Now(s) \in events,
         UNCHANGED <<owed, pending, generation, moved, work, done, setup>>,
         Handled', thread' \in [Threads -> ThreadState], scope' \subseteq Threads
  PROVE  IInv'
<1> USE DEF IInv, Structure, Enqueues
<1>1. \A l \in ls : l \in Leases /\ lease[l].state = "RETIRE_PENDING"
  BY DEF Sound
<1>2. \A r \in Queued(ls, events) :
        /\ r \in QueueRecord /\ r.lease \in ls /\ r.events = events
        /\ r.generation = lease[r.lease].generation
  BY Fields, <1>1 DEF Queued, QueueRecord
<1>3. Typed'
  BY <1>2 DEF Typed
<1>4. \A m \in Leases : Sound(lease[m])'
  <2> SUFFICES ASSUME NEW m \in Leases PROVE Sound(lease[m])'
    OBVIOUS
  <2>1. Sound(lease[m]) /\ lease[m].generation \in Nat
    BY Fields
  <2>2. CASE m \in ls
    BY <1>1, <2>1, <2>2 DEF Sound, Queueable
  <2>3. CASE m \notin ls
    BY <2>1, <2>3 DEF Sound
  <2> QED BY <2>2, <2>3
<1>5. \A m \in Leases : Holds(m)
  BY DEF Holds, OwnsRange
<1>6. QueueExact'
  <2> SUFFICES ASSUME NEW r \in queue'
               PROVE  /\ r.generation > 0 /\ r.generation < generation'
                      /\ lease'[r.lease].generation = r.generation =>
                           /\ lease'[r.lease].phase \in Queueable
                           /\ lease'[r.lease].events = r.events
    BY DEF QueueExact
  <2>1. CASE r \in queue
    <3>1. r.lease \in Leases
      BY <2>1 DEF Typed, QueueRecord
    <3>2. CASE r.lease \in ls
      BY <2>1, <3>1, <3>2 DEF QueueExact, Queueable
    <3>3. CASE r.lease \notin ls
      BY <2>1, <3>1, <3>3 DEF QueueExact
    <3> QED BY <3>2, <3>3
  <2>2. CASE r \in Queued(ls, events)
    BY <1>1, <1>2, <2>2 DEF Sound
  <2> QED BY <2>1, <2>2
<1>7. Counted'
  <2>1. \A m \in Leases : lease[m].state = "TRANSFERRED" =>
          ((\E r \in queue' : r.lease = m) <=> (\E r \in queue : r.lease = m))
    BY <1>1, <1>2
  <2>2. Outstanding' = Outstanding
    BY <2>1 DEF Outstanding
  <2> QED BY <2>2, CountedKept
<1>8. ASSUME OneTaskStream(setup), Device, NEW m \in Leases PROVE Covered(m)'
  <2>1. CASE m \notin ls
    <3>1. Covers(m)
      BY <2>1 DEF Covers, OwnsRange
    <3> QED BY <1>8, <3>1, SameCovered DEF Device
  <2>2. CASE m \in ls
    <3> SUFFICES ASSUME OwnsRange(m)', NEW s \in Streams, NEW i \in Left(s),
                        work[s][i].block = lease'[m].block
                 PROVE  CoveredAt(lease[m], s, i)'
      BY DEF Covered, Left
    <3>1. CoveredAt(lease[m], s, i) /\ Left(Lane)' = Left(Lane)
      BY <1>8 DEF Device, Covered, OwnsRange, Left
    <3>2. s \in lease[m].uses
      BY <1>1, <2>2, <3>1 DEF CoveredAt, Sound
    <3>3. Now(s) \in events /\ Now(s).stream = s /\ i <= Now(s).at
      <4>1. Len(work[s]) \in Nat /\ Now(s).stream = s /\ Now(s).at = Len(work[s])
            /\ done[s] \in Nat
        BY NowTyped DEF Typed
      <4> QED BY <1>8, <2>2, <3>2, <4>1 DEF Left
    <3>4. After(lease'[m].events, s, i)
      BY <2>2, <3>3 DEF After
    <3>5. ~ lease[m].planned
      BY <1>1, <2>2 DEF Sound
    <3> QED BY <3>1, <3>4, <3>5 DEF CoveredAt, After
  <2> QED BY <2>1, <2>2
<1> QED BY <1>3, <1>4, <1>5, <1>6, <1>7, <1>8, InPlace

\* The events of a free are recorded, and its record is queued.
LEMMA PreparedKeeps ==
  ASSUME IInv, NEW t \in Threads, FreeFinish(t) \/ AbortFinish(t)
  PROVE  IInv'
<1> USE DEF IInv, Structure
<1> DEFINE l == thread[t].lease
           events == {Now(s) : s \in lease[l].uses}
           r == [lease[l] EXCEPT !.phase = "uses", !.events = events,
                                 !.enqueued = lease[l].generation]
           x == IF thread[t].at = "free" THEN Idle ELSE At("abort")
<1>1. /\ thread[t].at \in InCall /\ l \in Leases /\ lease[l].phase = "preparing"
      /\ lease[l] \in LeaseRecord /\ lease \in [Leases -> LeaseRecord]
      /\ lease[l].uses \in SUBSET Streams /\ scope \subseteq Threads
      /\ UNCHANGED <<owed, pending, generation, scope, moved, work, done, setup>>
  BY Fields DEF FreeFinish, AbortFinish, Handled, InCall, device, Typed
<1>2. /\ lease' = [lease EXCEPT ![l] = r]
      /\ queue' = queue \cup Queued({l}, events)
  BY <1>1 DEF FreeFinish, AbortFinish, Prepared
<1>3. thread' = [thread EXCEPT ![t] = x]
  BY DEF FreeFinish, AbortFinish
<1>4. x \in ThreadState /\ x.at \in {"idle", "abort"}
  BY DEF Idle, At, ThreadState, Places
<1>5. events \in SUBSET Event
  BY <1>1, NowTyped
<1>6. r \in LeaseRecord
  BY <1>1, <1>5 DEF LeaseRecord, Phases
<1>7. /\ r.state = lease[l].state /\ r.phase = "uses" /\ r.uses = lease[l].uses
      /\ r.home = lease[l].home /\ r.block = lease[l].block /\ r.planned = lease[l].planned
      /\ r.generation = lease[l].generation /\ r.enqueued = lease[l].generation
      /\ r.successor = lease[l].successor /\ r.predecessor = lease[l].predecessor
      /\ r.events = events
  BY <1>1 DEF LeaseRecord
<1>8. \A s \in lease[l].uses : Now(s) \in events
  OBVIOUS
<1> HIDE DEF r, x, events
<1>9. /\ lease' \in [Leases -> LeaseRecord] /\ lease'[l] = r
      /\ \A m \in Leases : m # l => lease'[m] = lease[m]
  BY <1>1, <1>2, <1>6
<1>10. Handled' /\ thread' \in [Threads -> ThreadState]
  BY <1>1, <1>3, <1>4, <1>9, ThreadGoes DEF InCall
<1>11. {l} \in SUBSET Leases /\ Enqueues({l}, events)
  BY <1>1, <1>7, <1>9 DEF Enqueues, Queueable
<1> HIDE DEF l, IInv, Structure
<1> QED BY <1>1, <1>2, <1>5, <1>8, <1>10, <1>11, EnqueueStep
\* Frees of a task are published behind one event of a stream of the task, and the
\* task's list may be taken apart.
LEMMA PublishStep ==
  ASSUME IInv, NEW t \in Threads, NEW ls \in SUBSET Local(t), NEW s \in setup.taskStreams,
         lease' \in {Published(ls, s), Unlinked(Published(ls, s), t)},
         queue' = queue \cup Queued(ls, {Now(s)}),
         UNCHANGED <<owed, pending, generation, moved, work, done, setup>>,
         Handled', thread' \in [Threads -> ThreadState], scope' \subseteq Threads
  PROVE  IInv'
<1> USE DEF IInv, Structure
<1> DEFINE r(l) == [lease[l] EXCEPT !.phase = "event", !.events = {Now(s)},
                                    !.enqueued = lease[l].generation]
           p == Published(ls, s)
<1>1. s \in Streams /\ Now(s) \in Event /\ ls \in SUBSET Leases
  BY SetupFacts, NowTyped DEF Local
<1>2. ASSUME NEW l \in Leases
      PROVE  /\ p[l] \in LeaseRecord
             /\ p[l].state = lease[l].state /\ p[l].block = lease[l].block
             /\ p[l].generation = lease[l].generation /\ p[l].home = lease[l].home
             /\ p[l].uses = lease[l].uses /\ p[l].planned = lease[l].planned
             /\ p[l].successor = lease[l].successor /\ p[l].predecessor = lease[l].predecessor
             /\ l \in ls => /\ p[l].phase = "event" /\ p[l].events = {Now(s)}
                            /\ p[l].enqueued = lease[l].generation
             /\ l \notin ls => /\ p[l].phase = lease[l].phase /\ p[l].events = lease[l].events
                               /\ p[l].enqueued = lease[l].enqueued
  <2>1. lease[l] \in LeaseRecord
    BY Fields
  <2>2. p[l] = IF l \in ls THEN r(l) ELSE lease[l]
    BY DEF Published
  <2>3. /\ r(l) \in LeaseRecord
        /\ r(l).state = lease[l].state /\ r(l).block = lease[l].block
        /\ r(l).generation = lease[l].generation /\ r(l).home = lease[l].home
        /\ r(l).uses = lease[l].uses /\ r(l).planned = lease[l].planned
        /\ r(l).successor = lease[l].successor /\ r(l).predecessor = lease[l].predecessor
        /\ r(l).phase = "event" /\ r(l).events = {Now(s)}
        /\ r(l).enqueued = lease[l].generation
    BY <1>1, <2>1 DEF LeaseRecord, Phases
  <2> HIDE DEF r, p
  <2> QED BY <2>1, <2>2, <2>3
<1>3. p \in [Leases -> LeaseRecord]
  <2>1. DOMAIN p = Leases /\ p = [l \in Leases |-> p[l]]
    BY DEF Published
  <2> HIDE DEF p
  <2> QED BY <1>2, <2>1
<1>4. ASSUME NEW l \in Leases
      PROVE  LET u == Unlinked(p, t)[l] IN
             /\ u \in LeaseRecord
             /\ u.state = p[l].state /\ u.block = p[l].block /\ u.generation = p[l].generation
             /\ u.home = p[l].home /\ u.uses = p[l].uses /\ u.planned = p[l].planned
             /\ u.successor = p[l].successor /\ u.predecessor = p[l].predecessor
             /\ u.phase = p[l].phase /\ u.events = p[l].events /\ u.enqueued = p[l].enqueued
  <2> HIDE DEF p
  <2>1. p[l] \in LeaseRecord
    BY <1>2
  <2> QED BY <2>1 DEF Unlinked, LeaseRecord
<1>5. Unlinked(p, t) \in [Leases -> LeaseRecord]
  <2> HIDE DEF p
  <2>1. Unlinked(p, t) = [l \in Leases |-> Unlinked(p, t)[l]]
    BY DEF Unlinked
  <2> QED BY <1>4, <2>1
<1>6. lease' \in {p, Unlinked(p, t)}
  OBVIOUS
<1> HIDE DEF p
<1>7. /\ lease' \in [Leases -> LeaseRecord]
      /\ \A l \in Leases :
           /\ lease'[l].state = lease[l].state /\ lease'[l].block = lease[l].block
           /\ lease'[l].generation = lease[l].generation /\ lease'[l].home = lease[l].home
           /\ lease'[l].uses = lease[l].uses /\ lease'[l].planned = lease[l].planned
           /\ lease'[l].successor = lease[l].successor
           /\ lease'[l].predecessor = lease[l].predecessor
           /\ l \in ls => /\ lease'[l].phase = "event" /\ lease'[l].events = {Now(s)}
                          /\ lease'[l].enqueued = lease[l].generation
           /\ l \notin ls => /\ lease'[l].phase = lease[l].phase
                             /\ lease'[l].events = lease[l].events
                             /\ lease'[l].enqueued = lease[l].enqueued
  <2>1. CASE lease' = p
    BY <1>2, <1>3, <2>1
  <2>2. CASE lease' = Unlinked(p, t)
    BY <1>2, <1>4, <1>5, <2>2
  <2> QED BY <1>6, <2>1, <2>2
<1>8. \A l \in ls : lease[l].phase = "local"
  BY DEF Local
<1>9. OneTaskStream(setup) => \A l \in ls : \A z \in lease[l].uses : Now(z) \in {Now(s)}
  BY <1>1, <1>8 DEF OneTaskStream, Sound
<1>10. {Now(s)} \in SUBSET Event /\ "event" \in Queueable
  BY <1>1 DEF Queueable
<1>11. Enqueues(ls, {Now(s)})
  BY <1>1, <1>7, <1>8 DEF Enqueues, Queueable
<1> HIDE DEF IInv, Structure
<1> QED BY <1>1, <1>9, <1>10, <1>11, EnqueueStep

\* A task publishes its frees before it waits and when it ends, and an aborted
\* task leaves.
LEMMA PublishSteps ==
  ASSUME IInv, NEW t \in setup.threads,
         PublishForWait(t) \/ EndTask(t) \/ AbortLeave(t)
  PROVE  IInv'
<1> USE DEF IInv, Structure
<1>1. /\ t \in Threads /\ thread[t] \in ThreadState /\ thread \in [Threads -> ThreadState]
      /\ scope \subseteq Threads /\ moved \subseteq Threads /\ lease \in [Leases -> LeaseRecord]
      /\ TaskStream \in setup.taskStreams
      /\ UNCHANGED <<owed, pending, generation, moved, work, done, setup>>
  BY SetupFacts, SetupsAssumption DEF Typed, PublishForWait, EndTask, AbortLeave, device
<1>2. \A s : lease = Published({}, s) /\ queue = queue \cup Queued({}, {Now(s)})
  BY <1>1 DEF Published, Queued
<1>3. \A ls \in Publishable(t) : ls \in SUBSET Local(t)
  BY DEF Publishable
<1>4. ASSUME NEW ls \in SUBSET Local(t), NEW s \in setup.taskStreams,
             lease' \in {Published(ls, s), Unlinked(Published(ls, s), t)}
      PROVE  \A l \in Leases : lease[l].phase = "preparing" => lease'[l].phase = "preparing"
  <2> SUFFICES ASSUME NEW l \in Leases, lease[l].phase = "preparing"
               PROVE  lease'[l].phase = "preparing"
    OBVIOUS
  <2>1. l \notin ls /\ Published(ls, s)[l] = lease[l]
    BY DEF Local, Published
  <2>2. Unlinked(Published(ls, s), t)[l].phase = Published(ls, s)[l].phase
    <3>1. Published(ls, s)[l] \in LeaseRecord
      BY <2>1, Fields
    <3> HIDE DEF Published
    <3> QED BY <3>1 DEF Unlinked, LeaseRecord
  <2> QED BY <1>4, <2>1, <2>2
<1>5. CASE PublishForWait(t)
  <2> DEFINE x == [thread[t] EXCEPT !.at = "wait"]
  <2>1. /\ thread' = [thread EXCEPT ![t] = x] /\ scope' = scope /\ thread[t].at = "publish"
    BY <1>1, <1>5 DEF PublishForWait
  <2>2. x \in ThreadState /\ x.at = "wait" /\ x.stream = thread[t].stream
    BY <1>1 DEF ThreadState, Places
  <2>3. x.stream \in Streams /\ (t \in scope => x.stream \in setup.taskStreams)
    BY <1>1, <2>1, <2>2 DEF Handled
  <2> HIDE DEF x
  <2>4. CASE lease' = lease /\ queue' = queue
    <3>1. Handled' /\ thread' \in [Threads -> ThreadState]
      BY <1>1, <2>1, <2>2, <2>3, <2>4, ThreadGoes DEF InCall
    <3> QED BY <1>1, <2>1, <2>4, <3>1, ThreadStep
  <2>5. CASE ~ (lease' = lease /\ queue' = queue)
    <3>1. PICK ls \in Publishable(t) :
            /\ t \in scope
            /\ lease' = Published(ls, thread[t].stream)
            /\ queue' = queue \cup Queued(ls, {Now(thread[t].stream)})
      BY <1>5, <2>5 DEF PublishForWait, Publish
    <3>2. thread[t].stream \in setup.taskStreams /\ ls \in SUBSET Local(t)
      BY <1>3, <2>2, <2>3, <3>1
    <3>3. \A l \in Leases : lease[l].phase = "preparing" => lease'[l].phase = "preparing"
      BY <1>4, <3>1, <3>2
    <3>4. Handled' /\ thread' \in [Threads -> ThreadState]
      BY <1>1, <2>1, <2>2, <2>3, <3>3, ThreadGoes DEF InCall
    <3> QED BY <1>1, <2>1, <3>1, <3>2, <3>4, PublishStep
  <2> QED BY <2>4, <2>5
<1>6. CASE EndTask(t)
  <2>1. thread' = thread /\ scope' = scope \ {t} /\ thread[t].at = "idle"
    BY <1>6 DEF EndTask, Idle, At
  <2>2. PICK ls \in SUBSET Local(t) :
          /\ lease' = Unlinked(Published(ls, TaskStream), t)
          /\ queue' = queue \cup Queued(ls, {Now(TaskStream)})
    BY <1>2, <1>3, <1>6 DEF EndTask
  <2>3. \A l \in Leases : lease[l].phase = "preparing" => lease'[l].phase = "preparing"
    BY <1>1, <1>4, <2>2
  <2>4. Handled'
    BY <1>1, <2>1, <2>3 DEF Handled
  <2> QED BY <1>1, <2>1, <2>2, <2>4, PublishStep
<1>7. CASE AbortLeave(t)
  <2>1. /\ thread' = [thread EXCEPT ![t] = Idle] /\ scope' = scope \ {t}
        /\ queue' = queue \cup Queued({}, {Now(TaskStream)})
        /\ lease' = Unlinked(Published({}, TaskStream), t)
    BY <1>2, <1>7 DEF AbortLeave
  <2>2. Idle \in ThreadState /\ Idle.at = "idle" /\ {} \in SUBSET Local(t)
    BY DEF Idle, At, ThreadState, Places
  <2>3. \A l \in Leases : lease[l].phase = "preparing" => lease'[l].phase = "preparing"
    BY <1>1, <1>4, <2>1, <2>2
  <2>4. Handled' /\ thread' \in [Threads -> ThreadState]
    BY <1>1, <2>1, <2>2, <2>3, ThreadGoes DEF InCall
  <2> QED BY <1>1, <2>1, <2>2, <2>4, PublishStep
<1> QED BY <1>5, <1>6, <1>7

-----------------------------------------------------------------------------
(* A request is served. *)

\* A retiring lease passes to a new owner in place.
LEMMA ReuseKeeps ==
  ASSUME IInv, NEW t \in Threads, NEW l \in Leases, thread[t].at = "request",
         Recycles(l, thread[t].stream), lease[l].phase \in {"local", "event", "uses"},
         Reuse(l, t), thread' = [thread EXCEPT ![t] = Idle],
         UNCHANGED <<queue, owed, scope, moved, work, done, setup>>
  PROVE  IInv'
<1> USE DEF IInv, Structure
<1> DEFINE s == thread[t].stream
           r == [lease[l] EXCEPT !.state = "IN_USE", !.generation = generation, !.home = s,
                   !.uses = {}, !.phase = "none", !.events = {}, !.task = None]
<1>1. /\ lease[l] \in LeaseRecord /\ lease \in [Leases -> LeaseRecord]
      /\ s \in Streams /\ generation \in Nat /\ generation > 0 /\ pending \in Int
      /\ lease[l].generation \in Nat /\ lease[l].enqueued \in Nat
      /\ thread \in [Threads -> ThreadState]
  BY Fields DEF Typed, Handled
<1>2. /\ lease[l].state = "RETIRE_PENDING" /\ ~ lease[l].planned /\ lease[l].successor = None
      /\ lease[l].uses = {s} /\ lease[l].home = s
      /\ lease[l].generation < generation /\ lease[l].enqueued < generation
      /\ lease[l].block \in setup.blocks
  <2>1. Sound(lease[l]) /\ lease[l].state \in States
    BY Fields
  <2> QED BY <1>1, <2>1 DEF Recycles, OwnsRange, Sound, States
<1>3. lease' = [lease EXCEPT ![l] = r] /\ pending' = pending - 1 /\ generation' = generation + 1
  BY <1>1 DEF Reuse
<1>4. r \in LeaseRecord
  BY <1>1 DEF LeaseRecord, States, Phases
<1>5. /\ r.state = "IN_USE" /\ r.phase = "none" /\ r.uses = {} /\ r.home = s /\ r.events = {}
      /\ r.block = lease[l].block /\ r.planned = lease[l].planned
      /\ r.generation = generation /\ r.enqueued = lease[l].enqueued
      /\ r.successor = lease[l].successor /\ r.predecessor = lease[l].predecessor
  BY <1>1 DEF LeaseRecord
<1>6. /\ lease' \in [Leases -> LeaseRecord] /\ lease'[l] = r
      /\ \A m \in Leases : m # l => lease'[m] = lease[m]
  BY <1>1, <1>3, <1>4
<1> HIDE DEF r
<1>7. Handled' /\ thread' \in [Threads -> ThreadState]
  <2>1. Idle \in ThreadState /\ Idle.at = "idle"
    BY DEF Idle, At, ThreadState, Places
  <2>2. \A m \in Leases : lease[m].phase = "preparing" => lease'[m].phase = "preparing"
    BY <1>6
  <2> QED BY <2>1, <2>2, ThreadGoes DEF InCall
<1>8. Typed'
  BY <1>1, <1>3, <1>6, <1>7 DEF Typed
<1>9. \A m \in Leases : Sound(lease[m])'
  <2> SUFFICES ASSUME NEW m \in Leases PROVE Sound(lease[m])'
    OBVIOUS
  <2>1. CASE m = l
    BY <1>1, <1>2, <1>3, <1>5, <1>6, <2>1 DEF Sound, Queueable
  <2>2. CASE m # l
    <3>1. Sound(lease[m]) /\ lease[m].generation \in Nat /\ lease'[m] = lease[m]
      BY <1>6, <2>2, Fields
    <3> QED BY <1>1, <1>3, <3>1 DEF Sound
  <2> QED BY <2>1, <2>2
<1>10. \A m \in Leases : Holds(m) /\ Speaks(m) /\ (m # l => Covers(m))
  BY <1>2, <1>5, <1>6 DEF Holds, Speaks, Covers, OwnsRange
<1>11. QueueExact' /\ Counted'
  <2>1. l \in Outstanding /\ Outstanding' = Outstanding \ {l}
    BY <1>2, <1>5, <1>6 DEF Outstanding
  <2> QED BY <1>1, <1>3, <1>10, <2>1, CountedDown, QueueKept
<1>12. ASSUME OneTaskStream(setup), Device, NEW m \in Leases PROVE Covered(m)'
  <2>1. CASE m # l
    BY <1>10, <1>12, <2>1, SameCovered DEF Device
  <2>2. CASE m = l
    <3> SUFFICES ASSUME NEW z \in Streams, NEW i \in Left(z), work[z][i].block = r.block
                 PROVE  CoveredAt(lease[l], z, i)'
      BY <1>6, <2>2 DEF Covered, Left
    <3>1. CoveredAt(lease[l], z, i)
      BY <1>2, <1>5, <1>12 DEF Device, Covered, OwnsRange
    <3>2. z = s
      BY <1>2, <3>1 DEF CoveredAt
    <3> QED BY <1>2, <1>5, <1>6, <3>2 DEF CoveredAt, Queueable
  <2> QED BY <2>1, <2>2
<1> QED BY <1>3, <1>7, <1>8, <1>9, <1>10, <1>11, <1>12, InPlace

\* A free record takes a free range.
LEMMA CreateStep ==
  ASSUME IInv, NEW n \in Recyclable, NEW b \in FreeBlocks, NEW r \in LeaseRecord,
         lease' = [lease EXCEPT ![n] = r],
         r.block = b, r.generation = generation, r.phase = "none", r.successor = None,
         r.enqueued = 0,
         \/ r.state = "IN_USE" /\ ~ r.planned /\ r.home \in Streams
         \/ r.state = "RESERVED" /\ r.planned,
         generation' = generation + 1,
         UNCHANGED <<queue, owed, pending, scope, moved, work, done, setup>>,
         Handled', thread' \in [Threads -> ThreadState]
  PROVE  IInv'
<1> USE DEF IInv, Structure
<1>1. /\ lease \in [Leases -> LeaseRecord] /\ generation \in Nat /\ generation > 0
      /\ n \in Leases /\ lease[n].state = "FREE" /\ lease[n].phase = "none"
      /\ b \in setup.blocks /\ \A m \in Leases : OwnsRange(m) => lease[m].block # b
  BY DEF Typed, Recyclable, FreeBlocks, Sound
<1>2. /\ lease' \in [Leases -> LeaseRecord] /\ lease'[n] = r
      /\ \A m \in Leases : m # n => lease'[m] = lease[m]
  BY <1>1
<1>3. Typed'
  BY <1>1, <1>2 DEF Typed
<1>4. \A m \in Leases : Sound(lease[m])'
  <2> SUFFICES ASSUME NEW m \in Leases PROVE Sound(lease[m])'
    OBVIOUS
  <2>1. CASE m = n
    BY <1>1, <1>2, <2>1 DEF Sound, Queueable
  <2>2. CASE m # n
    <3>1. Sound(lease[m]) /\ lease[m].generation \in Nat /\ lease'[m] = lease[m]
      BY <1>2, <2>2, Fields
    <3> QED BY <1>1, <3>1 DEF Sound
  <2> QED BY <2>1, <2>2
<1>5. \A m \in Leases : m # n => lease[m].successor # n
  BY <1>1 DEF Promised
<1>6. lease[n].successor = None
  BY <1>1 DEF Sound
<1>7. Promised'
  <2>1. ASSUME NEW l \in Leases, lease'[l].successor \in Leases
        PROVE  LET m == lease'[lease'[l].successor] IN
               /\ m.state = "SUCCESSOR_RESERVED" /\ m.predecessor = l
               /\ m.block = lease'[l].block /\ lease'[l].generation < m.generation
    <3>1. l # n
      BY <1>2, <2>1, NoneAssumption
    <3> QED BY <1>2, <1>5, <2>1, <3>1 DEF Promised
  <2>2. ASSUME NEW m \in Leases, lease'[m].state = "SUCCESSOR_RESERVED"
        PROVE  lease'[m].predecessor \in Leases /\ lease'[lease'[m].predecessor].successor = m
    <3>1. m # n /\ lease'[m] = lease[m]
      BY <1>2, <2>2
    <3>2. lease[m].predecessor \in Leases /\ lease[lease[m].predecessor].successor = m
      BY <2>2, <3>1 DEF Promised
    <3>3. lease[m].predecessor # n
      BY <1>6, <3>2, NoneAssumption
    <3> QED BY <1>2, <3>1, <3>2, <3>3
  <2> QED BY <2>1, <2>2 DEF Promised
<1>8. Exclusive'
  BY <1>1, <1>2 DEF Exclusive, OwnsRange
<1>9. QueueExact'
  BY <1>1, <1>2, QueueKept DEF Speaks
<1>10. Counted'
  <2>1. Outstanding' = Outstanding
    BY <1>1, <1>2 DEF Outstanding
  <2> QED BY <2>1, CountedKept
<1>11. Aged'
  BY <1>1, <1>2, AgedKept DEF OwnsRange
<1>12. ASSUME OneTaskStream(setup) PROVE Device'
  <2>1. Device
    BY <1>12
  <2>2. Backed'
    BY <1>1, <1>2, <2>1, BackedKept DEF Device, OwnsRange
  <2>3. ASSUME NEW m \in Leases PROVE Covered(m)'
    <3>1. CASE m # n
      BY <1>2, <2>1, <3>1, SameCovered DEF Device, Covers, OwnsRange
    <3>2. CASE m = n
      <4>1. \A s \in Streams : \A i \in Left(s) : work[s][i].block # b
        <5>1. b # None
          BY <1>1, SetupFacts
        <5> QED BY <1>1, <2>1, <5>1 DEF Device, Backed
      <4> QED BY <1>2, <3>2, <4>1 DEF Covered, Left
    <3> QED BY <3>1, <3>2
  <2> QED BY <2>1, <2>2, <2>3, DeviceKept
<1> QED BY <1>3, <1>4, <1>7, <1>8, <1>9, <1>10, <1>11, <1>12 DEF OneTaskStream

\* take_lease_locked
LEMMA TakeLeaseKeeps ==
  ASSUME IInv, NEW t \in Threads, TakeLease(t)
  PROVE  IInv'
<1> DEFINE s == thread[t].stream
<1>1. /\ thread[t].at = "request" /\ thread' = [thread EXCEPT ![t] = Idle]
      /\ UNCHANGED <<queue, owed, scope, moved, work, done, setup>>
  BY DEF TakeLease, device
<1>2. CASE \E l \in TaskLocal(t, s) \cup Retired(s) : Reuse(l, t)
  <2>1. PICK l \in Leases : /\ Reuse(l, t) /\ Recycles(l, s)
                            /\ lease[l].phase \in {"local", "event", "uses"}
    BY <1>2 DEF TaskLocal, Retired
  <2> QED BY <1>1, <2>1, ReuseKeeps
<1>3. CASE ~ \E l \in TaskLocal(t, s) \cup Retired(s) : Reuse(l, t)
  <2>1. PICK l \in Recyclable, b \in FreeBlocks :
          /\ lease' = [Created(l, b, "IN_USE", FALSE) EXCEPT ![l].home = s]
          /\ generation' = generation + 1 /\ pending' = pending
    BY <1>3 DEF TakeLease, Lowest
  <2>2. /\ s \in Streams /\ b \in Nat /\ generation \in Nat /\ l \in Leases
        /\ lease \in [Leases -> LeaseRecord]
    BY <1>1, SetupFacts DEF IInv, Structure, Typed, Handled, FreeBlocks, Recyclable
  <2> DEFINE r == [FreeRecord EXCEPT !.state = "IN_USE", !.block = b,
                     !.generation = generation, !.planned = FALSE, !.home = s]
  <2>3. lease' = [lease EXCEPT ![l] = r]
    BY <2>1, <2>2 DEF Created
  <2>4. /\ r \in LeaseRecord /\ r.block = b /\ r.generation = generation /\ r.phase = "none"
        /\ r.successor = None /\ r.enqueued = 0
        /\ r.state = "IN_USE" /\ ~ r.planned /\ r.home \in Streams
    BY <2>2 DEF FreeRecord, LeaseRecord, States, Phases
  <2> HIDE DEF r
  <2>5. Handled' /\ thread' \in [Threads -> ThreadState]
    <3>1. Idle \in ThreadState /\ Idle.at = "idle"
      BY DEF Idle, At, ThreadState, Places
    <3>2. \A m \in Leases : lease[m].phase = "preparing" => lease'[m].phase = "preparing"
      <4>1. lease[l].phase = "none"
        BY DEF Recyclable, IInv, Structure, Sound
      <4> QED BY <2>2, <2>3, <4>1
    <3> QED BY <1>1, <3>1, <3>2, ThreadGoes DEF InCall, IInv, Structure
  <2> QED BY <1>1, <2>1, <2>3, <2>4, <2>5, CreateStep
<1> QED BY <1>2, <1>3

-----------------------------------------------------------------------------
(* Work is submitted. *)

\* A piece of work at the end of stream z.
Submits(z, e) == work' = [work EXCEPT ![z] = Append(work[z], e)] /\ done' = done

\* What a submission leaves where it was.
LEMMA Appended ==
  ASSUME Typed, NEW z \in Streams, NEW e \in Entry, Submits(z, e)
  PROVE  /\ work' \in [Streams -> Seq(Entry)] /\ done' = done
         /\ Len(work'[z]) = Len(work[z]) + 1 /\ work'[z][Len(work[z]) + 1] = e
         /\ Len(work[z]) + 1 \in Left(z)'
         /\ \A s \in Streams : s # z => work'[s] = work[s]
         /\ \A s \in Streams : \A i \in 1..Len(work[s]) :
              work'[s][i] = work[s][i] /\ work[s][i] \in Entry /\ i \in 1..Len(work'[s])
         /\ \A s \in Streams : Left(s) \subseteq 1..Len(work[s]) /\ Left(s) \subseteq Left(s)'
         /\ \A s \in Streams : \A i \in 1..Len(work'[s]) :
              i \in 1..Len(work[s]) \/ (s = z /\ i = Len(work[s]) + 1)
         /\ \A s \in Streams : \A i \in Left(s)' :
              i \in Left(s) \/ (s = z /\ i = Len(work[s]) + 1)
<1>1. /\ work \in [Streams -> Seq(Entry)] /\ done \in [Streams -> Nat]
      /\ \A s \in Streams : done[s] <= Len(work[s]) /\ Len(work[s]) \in Nat
  BY NowTyped DEF Typed
<1>2. /\ work[z] \in Seq(Entry) /\ work'[z] = Append(work[z], e) /\ done' = done
      /\ \A s \in Streams : s # z => work'[s] = work[s]
  BY <1>1 DEF Submits
<1>3. /\ Append(work[z], e) \in Seq(Entry) /\ Len(Append(work[z], e)) = Len(work[z]) + 1
      /\ Append(work[z], e)[Len(work[z]) + 1] = e
      /\ \A i \in 1..Len(work[z]) : Append(work[z], e)[i] = work[z][i]
  BY <1>2
<1>4. work' \in [Streams -> Seq(Entry)]
  BY <1>1, <1>3 DEF Submits
<1>5. \A s \in Streams : \A i \in 1..Len(work[s]) : work[s][i] \in Entry
  BY <1>1
<1>6. \A s \in Streams : Len(work'[s]) = IF s = z THEN Len(work[s]) + 1 ELSE Len(work[s])
  BY <1>2, <1>3
<1>7. \A s \in Streams : \A i \in 1..Len(work[s]) : work'[s][i] = work[s][i]
  BY <1>2, <1>3
<1>8. \A s \in Streams : \A i \in 1..Len(work[s]) : i \in 1..Len(work'[s])
  BY <1>1, <1>6
<1>9. \A s \in Streams : \A i \in 1..Len(work'[s]) :
        i \in 1..Len(work[s]) \/ (s = z /\ i = Len(work[s]) + 1)
  BY <1>1, <1>6
<1>10. \A s \in Streams : Left(s) \subseteq 1..Len(work[s]) /\ Left(s) \subseteq Left(s)'
  BY <1>1, <1>2, <1>6 DEF Left
<1>11. \A s \in Streams : \A i \in Left(s)' : i \in Left(s) \/ (s = z /\ i = Len(work[s]) + 1)
  BY <1>1, <1>2, <1>6 DEF Left
<1>12. Len(work[z]) + 1 \in Left(z)'
  BY <1>1, <1>2, <1>6 DEF Left
<1> QED BY <1>2, <1>3, <1>4, <1>5, <1>7, <1>8, <1>9, <1>10, <1>11, <1>12

\* New work is the youngest on its range, and comes after what is left there.
LEMMA AppendOrdered ==
  ASSUME Typed, Ordered, OwnersOrdered, NEW z \in Streams, NEW e \in Entry, Submits(z, e),
         \A s \in Streams : \A i \in 1..Len(work[s]) :
           e.block # None /\ work[s][i].block = e.block => work[s][i].generation <= e.generation,
         \A s \in Streams : \A i \in Left(s) :
           /\ e.block # None /\ work[s][i].block = e.block
           /\ work[s][i].generation < e.generation
           => s = z \/ After(e.needs, s, i)
  PROVE  Ordered' /\ OwnersOrdered'
<1> DEFINE k == Len(work[z]) + 1
<1>0. /\ k \in Nat /\ e.generation \in Nat
      /\ \A s \in Streams : done[s] \in Nat /\ Len(work[s]) \in Nat
      /\ \A s \in Streams : \A i \in 1..Len(work[s]) : work[s][i].generation \in Nat
      /\ \A s \in Streams : done[s] <= Len(work[s])
  <2>1. \A s \in Streams : \A i \in 1..Len(work[s]) : work[s][i] \in Entry
    BY Appended
  <2>2. \A x \in Entry : x.generation \in Nat
    BY DEF Entry
  <2>3. k \in Nat /\ \A s \in Streams : done[s] \in Nat /\ Len(work[s]) \in Nat
    BY NowTyped DEF Typed
  <2> QED BY <2>1, <2>2, <2>3 DEF Typed
<1>1. Ordered'
  <2> SUFFICES ASSUME NEW s \in Streams, NEW y \in Streams, NEW i \in Left(s)', NEW j \in Left(y)',
                      work'[s][i].block # None, work'[y][j].block = work'[s][i].block,
                      work'[y][j].generation < work'[s][i].generation
               PROVE  (s = y /\ j < i) \/ After(work'[s][i].needs, y, j)
    BY DEF Ordered, After
  <2>1. CASE i \in Left(s) /\ j \in Left(y)
    <3>1. work'[s][i] = work[s][i] /\ work'[y][j] = work[y][j]
      BY <2>1, Appended
    <3> QED BY <2>1, <3>1 DEF Ordered
  <2>2. CASE s = z /\ i = k /\ j \in Left(y)
    <3>1. work'[s][i] = e /\ work'[y][j] = work[y][j] /\ j \in 1..Len(work[y])
      BY <2>2, Appended
    <3>2. y = z \/ After(e.needs, y, j)
      BY <2>2, <3>1
    <3> QED BY <1>0, <2>2, <3>1, <3>2
  <2>3. CASE y = z /\ j = k
    <3>1. work'[y][j] = e
      BY <2>3, Appended
    <3>2. CASE i \in Left(s)
      <4>1. work'[s][i] = work[s][i] /\ i \in 1..Len(work[s])
        BY <3>2, Appended
      <4> QED BY <1>0, <3>1, <4>1
    <3>3. CASE s = z /\ i = k
      <4>1. work'[s][i] = e /\ e.generation < e.generation
        BY <2>3, <3>1, <3>3
      <4> QED BY <1>0, <4>1
    <3> QED BY <3>2, <3>3, Appended
  <2> QED BY <2>1, <2>2, <2>3, Appended
<1>2. OwnersOrdered'
  <2> SUFFICES ASSUME NEW s \in Streams, NEW y \in Streams, NEW i \in 1..done[s],
                      NEW j \in done[y] + 1 .. Len(work'[y]),
                      work'[s][i].block # None, work'[s][i].block = work'[y][j].block
               PROVE  work'[s][i].generation <= work'[y][j].generation
    BY Appended DEF OwnersOrdered
  <2>1. i \in 1..Len(work[s])
    BY <1>0
  <2>2. work'[s][i] = work[s][i]
    BY <2>1, Appended
  <2>3. j \in Left(y)'
    BY Appended DEF Left
  <2>4. CASE j \in Left(y)
    <3>1. work'[y][j] = work[y][j]
      BY <2>4, Appended
    <3> QED BY <2>2, <2>4, <3>1 DEF OwnersOrdered, Left
  <2>5. CASE y = z /\ j = k
    <3>1. work'[y][j] = e
      BY <2>5, Appended
    <3> QED BY <2>1, <2>2, <3>1
  <2> QED BY <2>3, <2>4, <2>5, Appended
<1> QED BY <1>1, <1>2

\* What covered the work left on a range covers it still.
LEMMA AppendCovered ==
  ASSUME Typed, NEW z \in Streams, NEW e \in Entry, Submits(z, e),
         NEW l \in Leases, Covered(l), Covers(l), NEW k \in Nat, k = Len(work[z]) + 1,
         OwnsRange(l)' /\ e.block = lease'[l].block => CoveredAt(lease[l], z, k)'
  PROVE  Covered(l)'
<1> SUFFICES ASSUME OwnsRange(l)', NEW s \in Streams, NEW i \in Left(s)',
                    work'[s][i].block = lease'[l].block
             PROVE  CoveredAt(lease[l], s, i)'
  BY DEF Covered
<1>1. CASE i \in Left(s)
  <2>1. work'[s][i] = work[s][i] /\ OwnsRange(l) /\ work[s][i].block = lease[l].block
    BY <1>1, Appended DEF Covers
  <2>2. CoveredAt(lease[l], s, i)
    BY <1>1, <2>1 DEF Covered
  <2>3. \A j \in Left(Lane) : j \in Left(Lane)' /\ work'[Lane][j] = work[Lane][j]
    BY Appended, LaneAssumption
  <2> QED BY <2>1, <2>2, <2>3 DEF CoveredAt, Covers, After
<1>2. CASE s = z /\ i = k
  <2>1. work'[s][i] = e
    BY <1>2, Appended
  <2>2. CoveredAt(lease[l], z, k)'
    BY <2>1
  <2> QED BY <1>2, <2>2
<1> QED BY <1>1, <1>2, Appended

\* New work of the owner of its range.
LEMMA AppendAged ==
  ASSUME Typed, Aged, NEW z \in Streams, NEW e \in Entry, Submits(z, e),
         generation' = generation, e.generation < generation,
         \A l \in Leases : OwnsRange(l)' =>
           /\ lease'[l].generation \in Nat
           /\ e.block = lease'[l].block => e.generation <= lease'[l].generation
           /\ \E q \in Leases : /\ OwnsRange(q) /\ lease[q].block = lease'[l].block
                               /\ lease[q].generation <= lease'[l].generation
  PROVE  Aged'
<1> SUFFICES ASSUME NEW s \in Streams, NEW i \in 1..Len(work'[s])
             PROVE  /\ work'[s][i].generation < generation'
                    /\ \A l \in Leases : OwnsRange(l)' /\ work'[s][i].block = lease'[l].block =>
                         work'[s][i].generation <= lease'[l].generation
  BY DEF Aged
<1>1. CASE i \in 1..Len(work[s])
  <2>1. work'[s][i] = work[s][i] /\ work[s][i] \in Entry
    BY <1>1, Appended
  <2>2. work[s][i].generation \in Nat
    BY <2>1 DEF Entry
  <2>3. ASSUME NEW l \in Leases, OwnsRange(l)', work[s][i].block = lease'[l].block
        PROVE  work[s][i].generation <= lease'[l].generation
    <3>1. PICK q \in Leases : /\ OwnsRange(q) /\ lease[q].block = lease'[l].block
                              /\ lease[q].generation <= lease'[l].generation
      BY <2>3
    <3>2. work[s][i].generation <= lease[q].generation
      BY <1>1, <2>3, <3>1 DEF Aged
    <3> QED BY <2>2, <2>3, <3>1, <3>2, Fields
  <2> QED BY <1>1, <2>1, <2>3 DEF Aged
<1>2. CASE s = z /\ i = Len(work[s]) + 1
  <2>1. work'[s][i] = e
    BY <1>2, Appended
  <2> QED BY <2>1
<1> QED BY <1>1, <1>2, Appended

\* The leases stay as they are while work is submitted or completed.
LEMMA LeasesStay ==
  ASSUME IInv, UNCHANGED <<setup, lease, queue, owed, pending, generation, thread, scope, moved>>,
         work' \in [Streams -> Seq(Entry)], done' \in [Streams -> Nat],
         \A s \in Streams : done'[s] <= Len(work'[s])
  PROVE  Structure'
<1>1. Typed'
  BY DEF IInv, Structure, Typed
<1>2. (\A l \in Leases : Sound(lease[l])') /\ Promised' /\ Exclusive' /\ QueueExact' /\ Handled'
  BY DEF IInv, Structure, Sound, Promised, Exclusive, OwnsRange, QueueExact, Handled
<1>3. Counted'
  <2>1. Outstanding' = Outstanding
    BY DEF Outstanding
  <2> QED BY <2>1, CountedKept DEF IInv, Structure
<1> QED BY <1>1, <1>2, <1>3 DEF Structure

\* A lease is used on its stream, or on another behind it.
LEMMA UseKeeps ==
  ASSUME IInv, NEW l \in Leases, NEW z \in Streams, Use(l, z)
  PROVE  IInv'
<1> USE DEF IInv, Structure
<1> DEFINE needs == IF z = lease[l].home THEN {} ELSE {Now(lease[l].home)}
           e == [block |-> lease[l].block, generation |-> lease[l].generation, needs |-> needs]
<1>0. PICK k \in Nat : k = Len(work[z]) + 1
  BY NowTyped
<1>1. /\ lease[l].state = "IN_USE" /\ ~ lease[l].planned /\ lease[l].phase = "none"
      /\ lease[l].home \in Streams /\ z \in lease[l].uses \cup {lease[l].home}
      /\ lease[l].generation \in Nat /\ lease[l].generation < generation
      /\ lease[l].block \in setup.blocks /\ lease[l].block # None
      /\ lease[l].block \in Nat \cup {None}
      /\ UNCHANGED <<setup, lease, queue, owed, pending, generation, thread, scope, moved>>
  BY SetupFacts, Fields DEF Use, Sound
<1>2. e \in Entry /\ Submits(z, e)
  BY <1>1, NowTyped DEF Use, Submitted, Submits, Entry
<1>3. e.block = lease[l].block /\ e.generation = lease[l].generation /\ e.needs = needs
  OBVIOUS
<1> HIDE DEF e
<1>4. OwnsRange(l) /\ \A m \in Leases : OwnsRange(m)' <=> OwnsRange(m)
  BY <1>1 DEF OwnsRange
<1>5. \A s \in Streams : done[s] <= Len(work'[s]) /\ done[s] \in Nat
  <2>1. \A s \in Streams : done[s] <= Len(work[s]) /\ done[s] \in Nat /\ Len(work[s]) \in Nat
    BY NowTyped DEF Typed
  <2> QED BY <1>2, <2>1, Appended
<1>6. Structure'
  <2>1. work' \in [Streams -> Seq(Entry)] /\ done' = done /\ done \in [Streams -> Nat]
    BY <1>2, Appended DEF Typed
  <2> QED BY <1>1, <1>5, <2>1, LeasesStay
<1>7. Aged'
  <2>1. \A m \in Leases : OwnsRange(m)' =>
          /\ lease'[m].generation \in Nat
          /\ e.block = lease'[m].block => e.generation <= lease'[m].generation
          /\ \E q \in Leases : /\ OwnsRange(q) /\ lease[q].block = lease'[m].block
                              /\ lease[q].generation <= lease'[m].generation
    BY <1>1, <1>3, <1>4, Fields DEF Exclusive
  <2> QED BY <1>1, <1>2, <1>3, <2>1, AppendAged
<1>8. ASSUME OneTaskStream(setup) PROVE Device'
  <2>1. Device
    BY <1>8
  <2>2. ASSUME NEW s \in Streams, NEW i \in Left(s), work[s][i].block = lease[l].block
        PROVE  CoveredAt(lease[l], s, i)
    BY <1>4, <2>1, <2>2 DEF Device, Covered
  <2>3. Ordered' /\ OwnersOrdered'
    <3>1. \A s \in Streams : \A i \in 1..Len(work[s]) :
            e.block # None /\ work[s][i].block = e.block => work[s][i].generation <= e.generation
      BY <1>3, <1>4 DEF Aged
    <3>2. ASSUME NEW s \in Streams, NEW i \in Left(s), work[s][i].block = e.block,
                 work[s][i].generation < e.generation
          PROVE  s = z \/ After(e.needs, s, i)
      <4>1. work[s][i].generation # lease[l].generation
        <5>1. work[s][i] \in Entry
          BY <1>2, Appended
        <5> QED BY <1>1, <1>3, <3>2, <5>1 DEF Entry
      <4>2. s = lease[l].home
        BY <1>1, <1>3, <2>2, <3>2, <4>1 DEF CoveredAt
      <4>3. CASE z # lease[l].home
        <5>1. Now(s).stream = s /\ i <= Now(s).at
          BY NowTyped DEF Left, Typed
        <5> QED BY <1>3, <4>2, <4>3, <5>1 DEF After
      <4> QED BY <4>2, <4>3
    <3> QED BY <1>2, <2>1, <3>1, <3>2, AppendOrdered DEF Device
  <2>4. ASSUME NEW m \in Leases PROVE Covered(m)'
    <3>1. Covers(m)
      BY <1>1 DEF Covers, OwnsRange
    <3>2. OwnsRange(m)' /\ e.block = lease'[m].block => CoveredAt(lease[m], z, k)'
      <4> SUFFICES ASSUME OwnsRange(m)', e.block = lease'[m].block
                   PROVE  CoveredAt(lease[m], z, k)'
        OBVIOUS
      <4>1. m = l /\ work'[z][k] = e
        BY <1>0, <1>1, <1>2, <1>3, <1>4, Appended DEF Exclusive
      <4> QED BY <1>1, <1>3, <4>1 DEF CoveredAt, Queueable
    <3> QED BY <1>0, <1>2, <2>1, <3>1, <3>2, AppendCovered DEF Device
  <2>5. Backed'
    <3> SUFFICES ASSUME NEW s \in Streams, NEW i \in Left(s)', work'[s][i].block # None
                 PROVE  \E m \in Leases : OwnsRange(m)' /\ lease'[m].block = work'[s][i].block
      BY DEF Backed
    <3>1. CASE i \in Left(s)
      <4>1. work'[s][i] = work[s][i]
        BY <1>2, <3>1, Appended
      <4> QED BY <1>1, <1>4, <2>1, <3>1, <4>1 DEF Device, Backed
    <3>2. CASE s = z /\ i = Len(work[s]) + 1
      <4>1. work'[s][i] = e
        BY <1>2, <3>2, Appended
      <4> QED BY <1>1, <1>3, <1>4, <4>1
    <3> QED BY <1>2, <3>1, <3>2, Appended
  <2> QED BY <2>3, <2>4, <2>5 DEF Device
<1> QED BY <1>1, <1>6, <1>7, <1>8 DEF OneTaskStream

\* A range that is submitted to is owned.
LEMMA AppendBacked ==
  ASSUME Typed, Backed, NEW z \in Streams, NEW e \in Entry, Submits(z, e),
         NEW l \in Leases, OwnsRange(l)', e.block = lease'[l].block,
         \A m \in Leases : OwnsRange(m) =>
           \E q \in Leases : OwnsRange(q)' /\ lease'[q].block = lease[m].block
  PROVE  Backed'
<1> SUFFICES ASSUME NEW s \in Streams, NEW i \in Left(s)', work'[s][i].block # None
             PROVE  \E m \in Leases : OwnsRange(m)' /\ lease'[m].block = work'[s][i].block
  BY DEF Backed
<1>1. CASE i \in Left(s)
  <2>1. work'[s][i] = work[s][i]
    BY <1>1, Appended
  <2> QED BY <1>1, <2>1 DEF Backed
<1>2. CASE s = z /\ i = Len(work[s]) + 1
  <2>1. work'[s][i] = e
    BY <1>2, Appended
  <2> QED BY <2>1
<1> QED BY <1>1, <1>2, Appended

\* Providers join a side stream: the wait is on no range.
LEMMA JoinKeeps ==
  ASSUME IInv, NEW y \in Streams, Join(y)
  PROVE  IInv'
<1> USE DEF IInv, Structure
<1> DEFINE e == [block |-> None, generation |-> 0, needs |-> {Now(y)}]
<1>1. /\ TaskStream \in Streams /\ y \in setup.taskStreams \ {TaskStream}
      /\ UNCHANGED <<setup, lease, queue, owed, pending, generation, thread, scope, moved>>
  BY LaneAssumption DEF Join
<1>2. e \in Entry /\ Submits(TaskStream, e) /\ e.block = None /\ e.generation = 0
  BY <1>1, NowTyped DEF Join, Submits, Entry
<1> HIDE DEF e
<1>3. \A s \in Streams : done[s] <= Len(work'[s]) /\ done[s] \in Nat
  <2>1. \A s \in Streams : done[s] <= Len(work[s]) /\ done[s] \in Nat /\ Len(work[s]) \in Nat
    BY NowTyped DEF Typed
  <2> QED BY <1>1, <1>2, <2>1, Appended
<1>4. Structure'
  <2>1. work' \in [Streams -> Seq(Entry)] /\ done' = done /\ done \in [Streams -> Nat]
    BY <1>1, <1>2, Appended DEF Typed
  <2> QED BY <1>1, <1>3, <2>1, LeasesStay
<1>5. Aged'
  <2>1. ASSUME NEW m \in Leases, OwnsRange(m)'
        PROVE  /\ lease'[m].generation \in Nat
               /\ e.block = lease'[m].block => e.generation <= lease'[m].generation
               /\ \E q \in Leases : /\ OwnsRange(q) /\ lease[q].block = lease'[m].block
                                    /\ lease[q].generation <= lease'[m].generation
    <3>1. OwnsRange(m) /\ lease'[m] = lease[m] /\ lease[m].generation \in Nat
      BY <1>1, <2>1, Fields DEF OwnsRange
    <3>2. lease[m].block # None
      BY <3>1, SetupFacts DEF OwnsRange, Sound
    <3> QED BY <1>2, <3>1, <3>2
  <2>2. generation \in Nat /\ generation > 0
    BY DEF Typed
  <2> QED BY <1>1, <1>2, <2>1, <2>2, AppendAged
<1>6. ~ OneTaskStream(setup)
  BY <1>1 DEF OneTaskStream
<1> QED BY <1>1, <1>4, <1>5, <1>6 DEF OneTaskStream

\* The device completes a piece of work: what it waited for is complete.
LEMMA CompleteKeeps ==
  ASSUME IInv, NEW z \in Streams, Complete(z)
  PROVE  IInv'
<1> USE DEF IInv, Structure
<1> DEFINE k == done[z] + 1
<1>1. /\ UNCHANGED <<setup, lease, queue, owed, pending, generation, thread, scope, moved, work>>
      /\ done' = [done EXCEPT ![z] = k] /\ k \in Left(z) /\ Reached(work[z][k].needs)
      /\ \A s \in Streams : done[s] \in Nat /\ Len(work[s]) \in Nat /\ done[s] <= Len(work[s])
  BY NowTyped DEF Complete, Typed, Left
<1>2. /\ done'[z] = k /\ \A s \in Streams : s # z => done'[s] = done[s]
      /\ done' \in [Streams -> Nat] /\ \A s \in Streams : done'[s] <= Len(work'[s])
  BY <1>1 DEF Typed, Left
<1>3. \A s \in Streams : /\ Left(s)' \subseteq Left(s) /\ Left(s) \subseteq 1..Len(work[s])
                         /\ \A i \in Left(s) : i \in Left(s)' \/ (s = z /\ i = k)
                         /\ \A i \in Left(s)' : s = z => i > k
  BY <1>1, <1>2 DEF Left
<1>4. Structure'
  BY <1>1, <1>2, LeasesStay DEF Typed
<1>5. Aged'
  BY <1>1 DEF Aged, OwnsRange
<1>6. ASSUME NEW s \in Streams, NEW i \in Left(s) PROVE ~ After(work[z][k].needs, s, i)
  <2> SUFFICES ASSUME NEW e \in work[z][k].needs, e.stream = s, i <= e.at PROVE FALSE
    BY DEF After
  <2>1. e \in Event
    <3>1. work[z][k] \in Entry
      BY <1>1, <1>3, NowTyped
    <3> QED BY <3>1 DEF Entry
  <2> QED BY <1>1, <2>1 DEF Reached, Left, Event
<1>7. ASSUME OneTaskStream(setup) PROVE Device'
  <2>1. Device
    BY <1>7
  <2>2. Backed'
    BY <1>1, <1>3, <2>1 DEF Device, Backed, OwnsRange
  <2>3. ASSUME NEW l \in Leases PROVE Covered(l)'
    <3> SUFFICES ASSUME OwnsRange(l)', NEW s \in Streams, NEW i \in Left(s)',
                        work[s][i].block = lease[l].block
                 PROVE  CoveredAt(lease[l], s, i)'
      BY <1>1 DEF Covered
    <3>1. i \in Left(s) /\ CoveredAt(lease[l], s, i)
      BY <1>1, <1>3, <2>1 DEF Device, Covered, OwnsRange
    <3>2. \A j \in Left(Lane) : After(work[Lane][j].needs, s, i) => j \in Left(Lane)'
      BY <1>3, <1>6, <3>1, LaneAssumption
    <3> QED BY <1>1, <3>1, <3>2 DEF CoveredAt, After
  <2>4. Ordered'
    BY <1>1, <1>3, <2>1 DEF Device, Ordered, After
  <2>5. OwnersOrdered'
    <3> SUFFICES ASSUME NEW s \in Streams, NEW y \in Streams, NEW i \in 1..done'[s],
                        NEW j \in done'[y] + 1 .. Len(work[y]),
                        work[s][i].block # None, work[s][i].block = work[y][j].block
                 PROVE  work[s][i].generation <= work[y][j].generation
      BY <1>1 DEF OwnersOrdered
    <3>1. j \in Left(y)' /\ j \in Left(y)
      BY <1>1, <1>3 DEF Left
    <3>2. CASE i \in 1..done[s]
      BY <2>1, <3>1, <3>2 DEF Device, OwnersOrdered, Left
    <3>3. CASE s = z /\ i = k
      <4>1. work[s][i] \in Entry /\ work[y][j] \in Entry
        BY <1>1, <1>3, <3>1, <3>3, NowTyped
      <4>2. ~ (s = y /\ j < i)
        BY <1>1, <1>3, <3>1, <3>3
      <4>3. ~ (work[y][j].generation < work[s][i].generation)
        BY <1>1, <1>6, <2>1, <3>1, <3>3, <4>2 DEF Device, Ordered
      <4> QED BY <4>1, <4>3 DEF Entry
    <3> QED BY <1>1, <1>2, <3>2, <3>3
  <2> QED BY <2>2, <2>3, <2>4, <2>5 DEF Device
<1> QED BY <1>1, <1>4, <1>5, <1>7 DEF OneTaskStream

-----------------------------------------------------------------------------
(* Transfer destinations. *)

\* The transfer into a reserved range: nothing is left on the range.
LEMMA AcquireReservedKeeps ==
  ASSUME IInv, NEW l \in Leases, AcquireReserved(l)
  PROVE  IInv'
<1> USE DEF IInv, Structure
<1> DEFINE r == [lease[l] EXCEPT !.state = "IN_USE"]
           e == [block |-> lease[l].block, generation |-> lease[l].generation, needs |-> {}]
<1>0. PICK k \in Nat : k = Len(work[Lane]) + 1
  BY NowTyped, LaneAssumption
<1>1. /\ lease[l] \in LeaseRecord /\ lease \in [Leases -> LeaseRecord] /\ Lane \in Streams
      /\ lease[l].state = "RESERVED" /\ lease[l].planned /\ lease[l].phase = "none"
      /\ lease[l].generation \in Nat /\ lease[l].generation < generation
      /\ lease[l].block \in setup.blocks /\ lease[l].block # None
      /\ lease[l].block \in Nat \cup {None} /\ lease[l].successor = None
      /\ lease' = [lease EXCEPT ![l] = r]
      /\ UNCHANGED <<setup, queue, owed, pending, generation, thread, scope, moved>>
  BY SetupFacts, Fields, LaneAssumption DEF AcquireReserved, Sound, Typed
<1>2. e \in Entry /\ Submits(Lane, e)
  BY <1>1 DEF AcquireReserved, Submitted, Submits, Entry
<1>3. e.block = lease[l].block /\ e.generation = lease[l].generation /\ e.needs = {}
  OBVIOUS
<1>4. /\ r \in LeaseRecord /\ r.state = "IN_USE" /\ r.phase = "none" /\ r.planned
      /\ r.block = lease[l].block /\ r.generation = lease[l].generation
      /\ r.successor = None /\ r.predecessor = lease[l].predecessor /\ r.home = lease[l].home
      /\ r.uses = lease[l].uses /\ r.enqueued = lease[l].enqueued
      /\ r.planned = lease[l].planned
  BY <1>1 DEF LeaseRecord, States
<1> HIDE DEF e, r
<1>5. /\ lease' \in [Leases -> LeaseRecord] /\ lease'[l] = r
      /\ \A m \in Leases : m # l => lease'[m] = lease[m]
  BY <1>1, <1>4
<1>6. \A m \in Leases : Holds(m) /\ Speaks(m) /\ Covers(m)
  BY <1>1, <1>4, <1>5 DEF Holds, Speaks, Covers, OwnsRange, Queueable
<1>7. \A s \in Streams : done[s] <= Len(work'[s]) /\ done[s] \in Nat
  <2>1. \A s \in Streams : done[s] <= Len(work[s]) /\ done[s] \in Nat /\ Len(work[s]) \in Nat
    BY NowTyped DEF Typed
  <2> QED BY <1>1, <1>2, <2>1, Appended
<1>8. Structure'
  <2>1. Typed'
    BY <1>1, <1>2, <1>5, <1>7, Appended DEF Typed
  <2>2. \A m \in Leases : Sound(lease[m])'
    BY <1>1, <1>4, <1>5 DEF Sound, Queueable
  <2>3. Promised' /\ Exclusive'
    BY <1>6, KeptRanges, NoneAssumption
  <2>4. Outstanding' = Outstanding
    BY <1>1, <1>4, <1>5 DEF Outstanding
  <2>5. QueueExact' /\ Handled' /\ Counted'
    BY <1>1, <1>4, <1>5, <1>6, <2>4, QueueKept, HandledKept, CountedKept
  <2> QED BY <2>1, <2>2, <2>3, <2>5
<1>9. OwnsRange(l) /\ \A m \in Leases : OwnsRange(m)' <=> OwnsRange(m)
  BY <1>1, <1>6 DEF OwnsRange, Holds
<1>10. \A m \in Leases : /\ lease'[m].generation = lease[m].generation
                         /\ lease'[m].block = lease[m].block
  BY <1>4, <1>5
<1>11. Aged'
  <2>1. \A m \in Leases : OwnsRange(m)' =>
          /\ lease'[m].generation \in Nat
          /\ e.block = lease'[m].block => e.generation <= lease'[m].generation
          /\ \E q \in Leases : /\ OwnsRange(q) /\ lease[q].block = lease'[m].block
                               /\ lease[q].generation <= lease'[m].generation
    BY <1>1, <1>3, <1>9, <1>10, Fields DEF Exclusive
  <2> QED BY <1>1, <1>2, <1>3, <2>1, AppendAged
<1>12. ASSUME OneTaskStream(setup) PROVE Device'
  <2>1. Device
    BY <1>12
  <2>2. Free(lease[l].block)
    BY <1>1, <1>9, <2>1 DEF Free, Device, Covered, CoveredAt
  <2>3. Ordered' /\ OwnersOrdered'
    <3>1. \A s \in Streams : \A i \in 1..Len(work[s]) :
            e.block # None /\ work[s][i].block = e.block => work[s][i].generation <= e.generation
      BY <1>3, <1>9 DEF Aged
    <3>2. \A s \in Streams : \A i \in Left(s) : work[s][i].block # e.block
      BY <1>3, <2>2 DEF Free
    <3> QED BY <1>1, <1>2, <2>1, <3>1, <3>2, AppendOrdered DEF Device
  <2>4. ASSUME NEW m \in Leases PROVE Covered(m)'
    <3>1. OwnsRange(m)' /\ e.block = lease'[m].block => CoveredAt(lease[m], Lane, k)'
      <4> SUFFICES ASSUME OwnsRange(m)', e.block = lease'[m].block
                   PROVE  CoveredAt(lease[m], Lane, k)'
        OBVIOUS
      <4>1. m = l /\ work'[Lane][k] = e
        BY <1>0, <1>1, <1>2, <1>3, <1>9, <1>10, Appended DEF Exclusive
      <4> QED BY <1>3, <1>4, <1>5, <4>1 DEF CoveredAt, Queueable
    <3> QED BY <1>0, <1>1, <1>2, <1>6, <2>1, <3>1, AppendCovered DEF Device
  <2>5. Backed'
    <3>1. e.block = lease'[l].block
      BY <1>3, <1>10
    <3> QED BY <1>1, <1>2, <1>9, <1>10, <2>1, <3>1, AppendBacked DEF Device
  <2> QED BY <2>3, <2>4, <2>5 DEF Device
<1> QED BY <1>1, <1>8, <1>11, <1>12 DEF OneTaskStream

\* Retirements may be counted on after they are over, where successors acquire.
LEMMA CountedLess ==
  ASSUME Typed, Counted, pending' = pending, owed' = owed, setup' = setup, setup.acquires,
         Outstanding' \subseteq Outstanding
  PROVE  Counted'
<1>1. /\ Cardinality(Outstanding') <= Cardinality(Outstanding)
      /\ Cardinality(Outstanding') \in Nat /\ Cardinality(Outstanding) \in Nat
  BY OutstandingFinite, FS_Subset, FS_CardinalityType
<1>2. Cardinality(owed) \in Nat /\ pending \in Int
  BY OwedOne DEF Counted, Typed
<1> QED BY <1>1, <1>2 DEF Counted

\* A range changes hands before its events: the transfer waits for them.
LEMMA AcquireSuccessorKeeps ==
  ASSUME IInv, NEW l \in Leases, AcquireSuccessor(l)
  PROVE  IInv'
<1> USE DEF IInv, Structure
<1> DEFINE p == lease[l].predecessor
<1>0. PICK k \in Nat : k = Len(work[Lane]) + 1
  BY NowTyped, LaneAssumption
<1>1. /\ setup.acquires /\ lease[l].state = "SUCCESSOR_RESERVED" /\ lease[p].phase = "event"
      /\ lease[l].planned /\ lease[l].phase = "none" /\ lease[l].successor = None
      /\ p \in Leases /\ lease[p].successor = l /\ p # l
      /\ lease[p].state = "RETIRE_PENDING"
  BY NoneAssumption DEF AcquireSuccessor, Sound, Promised
<1>2. PICK b \in Leases : b = p
  BY <1>1
<1>3. /\ lease[l] \in LeaseRecord /\ lease[b] \in LeaseRecord
      /\ lease \in [Leases -> LeaseRecord] /\ Lane \in Streams
      /\ lease[l].generation \in Nat /\ lease[l].generation < generation
      /\ lease[b].generation \in Nat
      /\ lease[l].block \in setup.blocks /\ lease[l].block # None
      /\ lease[l].block \in Nat \cup {None} /\ lease[b].events \in SUBSET Event
      /\ UNCHANGED <<setup, queue, owed, pending, generation, thread, scope>>
      /\ moved' \subseteq Threads
  BY <1>1, <1>2, SetupFacts, Fields, LaneAssumption DEF AcquireSuccessor, Sound, Typed, Announce
<1>4. lease[b].block = lease[l].block /\ lease[b].generation < lease[l].generation
  BY <1>1, <1>2 DEF Promised
<1> DEFINE r == [lease[l] EXCEPT !.state = "IN_USE", !.predecessor = None]
           q == [lease[b] EXCEPT !.state = "TRANSFERRED", !.successor = None]
           e == [block |-> lease[l].block, generation |-> lease[l].generation,
                 needs |-> lease[b].events]
<1>5. lease' = [lease EXCEPT ![l] = r, ![b] = q]
  BY <1>1, <1>2, <1>3 DEF AcquireSuccessor
<1>6. e \in Entry /\ Submits(Lane, e)
  BY <1>1, <1>2, <1>3 DEF AcquireSuccessor, Submitted, Submits, Entry
<1>7. e.block = lease[l].block /\ e.generation = lease[l].generation /\ e.needs = lease[b].events
  OBVIOUS
<1>8. /\ lease[b].state = "RETIRE_PENDING"
       /\ lease[b].phase = "event" /\ lease[b].successor = l /\ b # l
  BY <1>1, <1>2
<1> HIDE DEF p
<1>9. /\ r \in LeaseRecord /\ r.state = "IN_USE" /\ r.phase = "none" /\ r.planned
      /\ r.block = lease[l].block /\ r.generation = lease[l].generation
      /\ r.successor = None /\ r.enqueued = lease[l].enqueued
  <2>1. lease[l].planned /\ lease[l].phase = "none" /\ lease[l].successor = None
    BY <1>1
  <2>2. r \in LeaseRecord
    BY <1>3 DEF LeaseRecord, States
  <2>3. /\ r.state = "IN_USE" /\ r.phase = lease[l].phase /\ r.planned = lease[l].planned
        /\ r.block = lease[l].block /\ r.generation = lease[l].generation
        /\ r.successor = lease[l].successor /\ r.enqueued = lease[l].enqueued
    BY <1>3 DEF LeaseRecord
  <2> QED BY <2>1, <2>2, <2>3
<1>10. /\ q \in LeaseRecord /\ q.state = "TRANSFERRED" /\ q.phase = "event"
      /\ q.planned = lease[b].planned /\ q.home = lease[b].home /\ q.uses = lease[b].uses
      /\ q.block = lease[b].block /\ q.generation = lease[b].generation
      /\ q.successor = None /\ q.enqueued = lease[b].enqueued /\ q.events = lease[b].events
  BY <1>3, <1>8 DEF LeaseRecord, States
<1> HIDE DEF e, r, q
<1>11. /\ lease' \in [Leases -> LeaseRecord] /\ lease'[l] = r /\ lease'[b] = q
       /\ \A m \in Leases : m # l /\ m # b => lease'[m] = lease[m]
  BY <1>3, <1>5, <1>9, <1>10, <1>8
<1>12. /\ OwnsRange(b) /\ ~ OwnsRange(l) /\ OwnsRange(l)' /\ ~ OwnsRange(b)'
       /\ \A m \in Leases : m # l /\ m # b => (OwnsRange(m)' <=> OwnsRange(m))
  BY <1>1, <1>9, <1>10, <1>8, <1>11 DEF OwnsRange
<1>13. \A m \in Leases : Speaks(m) /\ (m # l => Covers(m))
  BY <1>1, <1>9, <1>10, <1>8, <1>11, <1>12 DEF Speaks, Covers, Queueable
<1>14. \A s \in Streams : done[s] <= Len(work'[s]) /\ done[s] \in Nat
  <2>1. \A s \in Streams : done[s] <= Len(work[s]) /\ done[s] \in Nat /\ Len(work[s]) \in Nat
    BY NowTyped DEF Typed
  <2> QED BY <1>3, <1>6, <2>1, Appended
<1>15. Exclusive'
  BY <1>4, <1>9, <1>11, <1>12 DEF Exclusive
<1>16. Promised'
  <2>1. ASSUME NEW m \in Leases, lease'[m].successor \in Leases
        PROVE  LET n == lease'[lease'[m].successor] IN
               /\ n.state = "SUCCESSOR_RESERVED" /\ n.predecessor = m
               /\ n.block = lease'[m].block /\ lease'[m].generation < n.generation
    <3>1. m # l /\ m # b /\ lease'[m] = lease[m]
      BY <1>9, <1>10, <1>11, <2>1, NoneAssumption
    <3>2. lease[m].successor # l /\ lease[m].successor # b
      BY <1>2, <1>8, <2>1, <3>1 DEF Promised
    <3> QED BY <1>11, <2>1, <3>1, <3>2 DEF Promised
  <2>2. ASSUME NEW n \in Leases, lease'[n].state = "SUCCESSOR_RESERVED"
        PROVE  lease'[n].predecessor \in Leases /\ lease'[lease'[n].predecessor].successor = n
    <3>1. n # l /\ n # b /\ lease'[n] = lease[n]
      BY <1>9, <1>10, <1>11, <2>2
    <3>2. lease[n].predecessor \in Leases /\ lease[lease[n].predecessor].successor = n
      BY <2>2, <3>1 DEF Promised
    <3>3. lease[n].predecessor # l /\ lease[n].predecessor # b
      BY <1>1, <1>8, <3>1, <3>2, NoneAssumption
    <3> QED BY <1>11, <3>1, <3>2, <3>3
  <2> QED BY <2>1, <2>2 DEF Promised
<1>17. Structure'
  <2>1. Typed'
    BY <1>3, <1>6, <1>11, <1>14, Appended DEF Typed
  <2>2. \A m \in Leases : Sound(lease[m])'
    <3>1. Sound(lease[l]) /\ Sound(lease[b])
      OBVIOUS
    <3>2. Sound(lease[l])'
      BY <1>1, <1>3, <1>9, <1>11, <3>1 DEF Sound, Queueable
    <3>3. Sound(lease[b])'
      BY <1>1, <1>3, <1>10, <1>8, <1>11, <3>1 DEF Sound, Queueable
    <3>4. ASSUME NEW m \in Leases, m # l, m # b PROVE Sound(lease[m])'
      BY <1>3, <1>11, <3>4 DEF Sound
    <3> QED BY <3>2, <3>3, <3>4
  <2>3. Outstanding' \subseteq Outstanding
    BY <1>3, <1>9, <1>8, <1>11 DEF Outstanding
  <2>4. \A m \in Leases : lease[m].phase = "preparing" => lease'[m].phase = "preparing"
    BY <1>1, <1>8, <1>11
  <2>5. QueueExact' /\ Handled' /\ Counted'
    BY <1>1, <1>3, <1>13, <2>3, <2>4, QueueKept, HandledKept, CountedLess
  <2> QED BY <1>15, <1>16, <2>1, <2>2, <2>5
<1>18. Aged'
  <2>1. ASSUME NEW m \in Leases, OwnsRange(m)'
        PROVE  /\ lease'[m].generation \in Nat
               /\ e.block = lease'[m].block => e.generation <= lease'[m].generation
               /\ \E o \in Leases : /\ OwnsRange(o) /\ lease[o].block = lease'[m].block
                                    /\ lease[o].generation <= lease'[m].generation
    <3>1. CASE m = l
      BY <1>3, <1>4, <1>7, <1>9, <1>11, <1>12, <3>1
    <3>2. CASE m # l
      <4>1. m # b /\ lease'[m] = lease[m] /\ OwnsRange(m) /\ lease[m].generation \in Nat
        BY <1>11, <1>12, <2>1, <3>2, Fields
      <4>2. e.block # lease[m].block
        BY <1>4, <1>7, <1>12, <4>1 DEF Exclusive
      <4> QED BY <4>1, <4>2
    <3> QED BY <3>1, <3>2
  <2> QED BY <1>3, <1>6, <1>7, <2>1, AppendAged
<1>19. ASSUME OneTaskStream(setup) PROVE Device'
  <2>1. Device
    BY <1>19
  <2>2. ASSUME NEW s \in Streams, NEW i \in Left(s), work[s][i].block = lease[b].block
        PROVE  After(lease[b].events, s, i)
    BY <1>8, <1>12, <2>1, <2>2 DEF Device, Covered, CoveredAt, Queueable
  <2>3. Ordered' /\ OwnersOrdered'
    <3>1. ASSUME NEW s \in Streams, NEW i \in 1..Len(work[s]), work[s][i].block = e.block
          PROVE  work[s][i].generation <= e.generation
      <4>1. work[s][i] \in Entry
        BY <1>3, <1>6, Appended
      <4>2. work[s][i].generation <= lease[b].generation
        BY <1>4, <1>7, <1>12, <3>1 DEF Aged
      <4> QED BY <1>3, <1>4, <1>7, <4>1, <4>2 DEF Entry
    <3>2. \A s \in Streams : \A i \in Left(s) :
            work[s][i].block = e.block => After(e.needs, s, i)
      BY <1>4, <1>7, <2>2
    <3> QED BY <1>3, <1>6, <2>1, <3>1, <3>2, AppendOrdered DEF Device
  <2>4. ASSUME NEW m \in Leases PROVE Covered(m)'
    <3>1. CASE m # l
      <4>1. ~ (OwnsRange(m)' /\ e.block = lease'[m].block)
        BY <1>7, <1>9, <1>11, <1>12, <1>15, <3>1 DEF Exclusive
      <4> QED BY <1>0, <1>3, <1>6, <1>13, <2>1, <3>1, <4>1, AppendCovered DEF Device
    <3>2. CASE m = l
      <4> SUFFICES ASSUME NEW s \in Streams, NEW i \in Left(s)', work'[s][i].block = r.block
                   PROVE  CoveredAt(lease[l], s, i)'
        BY <1>11, <3>2 DEF Covered
      <4>1. k \in Left(Lane)' /\ work'[Lane][k] = e
        BY <1>0, <1>3, <1>6, Appended
      <4>2. CASE i \in Left(s)
        <5>1. work'[s][i] = work[s][i]
          BY <1>3, <1>6, <4>2, Appended
        <5>2. After(work'[Lane][k].needs, s, i)
          BY <1>4, <1>7, <1>9, <2>2, <4>1, <4>2, <5>1
        <5>3. work'[Lane][k].generation = lease'[l].generation
          BY <1>7, <1>9, <1>11, <4>1
        <5> QED BY <1>9, <1>11, <4>1, <5>2, <5>3 DEF CoveredAt, Queueable, After
      <4>3. CASE s = Lane /\ i = k
        BY <1>7, <1>9, <1>11, <4>1, <4>3 DEF CoveredAt, Queueable
      <4> QED BY <1>0, <1>3, <1>6, <4>2, <4>3, Appended
    <3> QED BY <3>1, <3>2
  <2>5. Backed'
    <3>1. e.block = lease'[l].block
      BY <1>7, <1>9, <1>11
    <3>2. ASSUME NEW m \in Leases, OwnsRange(m)
          PROVE  \E o \in Leases : OwnsRange(o)' /\ lease'[o].block = lease[m].block
      <4>1. CASE m = b
        BY <1>4, <1>9, <1>11, <1>12, <4>1
      <4>2. CASE m # b
        BY <1>11, <1>12, <3>2, <4>2
      <4> QED BY <4>1, <4>2
    <3> QED BY <1>3, <1>6, <1>12, <2>1, <3>1, <3>2, AppendBacked DEF Device
  <2> QED BY <2>3, <2>4, <2>5 DEF Device
<1> QED BY <1>3, <1>17, <1>18, <1>19 DEF OneTaskStream

\* Promises come and go while every range keeps its owner.
LEMMA OwnersStay ==
  ASSUME IInv, Typed', \A l \in Leases : Sound(lease[l])', Promised',
         QueueExact', Handled', Counted', setup' = setup, work' = work, done' = done,
         generation' \in {generation, generation + 1},
         \A l \in Leases : Covers(l) /\ (OwnsRange(l) => OwnsRange(l)')
  PROVE  IInv'
<1>1. Exclusive'
  BY DEF IInv, Structure, Covers, Exclusive
<1>2. Aged'
  BY AgedKept DEF IInv, Structure, Covers
<1>3. ASSUME OneTaskStream(setup) PROVE Device'
  <2>1. Device
    BY <1>3 DEF IInv
  <2>2. Backed'
    BY <2>1, BackedKept DEF Device, Covers
  <2>3. \A l \in Leases : Covered(l)'
    BY <2>1, SameCovered DEF Device
  <2> QED BY <2>1, <2>2, <2>3, DeviceKept
<1> QED BY <1>1, <1>2, <1>3 DEF IInv, Structure, OneTaskStream

\* A range without unfinished work is given back.
LEMMA GiveUpStep ==
  ASSUME IInv, NEW l \in Leases, OwnsRange(l), lease[l].successor = None,
         lease[l].phase # "preparing", NEW r \in LeaseRecord, lease' = [lease EXCEPT ![l] = r],
         r.state = "FREE", r.generation = 0, r.block = None, r.phase = "none",
         r.successor = None,
         OneTaskStream(setup) => Free(lease[l].block),
         queue' \subseteq queue, owed' \subseteq QueueRecord, moved' \subseteq Threads, Counted',
         UNCHANGED <<pending, generation, thread, scope, work, done, setup>>
  PROVE  IInv'
<1> USE DEF IInv, Structure
<1>1. lease \in [Leases -> LeaseRecord]
  BY DEF Typed
<1>2. /\ lease' \in [Leases -> LeaseRecord] /\ lease'[l] = r
      /\ \A m \in Leases : m # l => lease'[m] = lease[m]
  BY <1>1
<1>3. Typed'
  BY <1>2 DEF Typed
<1>4. \A m \in Leases : Sound(lease[m])'
  BY <1>2 DEF Sound, Queueable
<1>5. Promised'
  <2>1. ASSUME NEW m \in Leases, lease'[m].successor \in Leases
        PROVE  LET n == lease'[lease'[m].successor] IN
               /\ n.state = "SUCCESSOR_RESERVED" /\ n.predecessor = m
               /\ n.block = lease'[m].block /\ lease'[m].generation < n.generation
    <3>1. m # l /\ lease'[m] = lease[m]
      BY <1>2, <2>1, NoneAssumption
    <3>2. lease[m].successor # l
      BY <2>1, <3>1 DEF Promised, OwnsRange
    <3> QED BY <1>2, <2>1, <3>1, <3>2 DEF Promised
  <2>2. ASSUME NEW n \in Leases, lease'[n].state = "SUCCESSOR_RESERVED"
        PROVE  lease'[n].predecessor \in Leases /\ lease'[lease'[n].predecessor].successor = n
    <3>1. n # l /\ lease'[n] = lease[n]
      BY <1>2, <2>2
    <3>2. lease[n].predecessor \in Leases /\ lease[lease[n].predecessor].successor = n
      BY <2>2, <3>1 DEF Promised
    <3>3. lease[n].predecessor # l
      BY <3>2, NoneAssumption
    <3> QED BY <1>2, <3>1, <3>2, <3>3
  <2> QED BY <2>1, <2>2 DEF Promised
<1>6. \A m \in Leases : (OwnsRange(m)' <=> OwnsRange(m) /\ m # l) /\ Covers(m) /\ Speaks(m)
  BY <1>2 DEF OwnsRange, Covers, Speaks
<1>7. Exclusive'
  BY <1>6 DEF Exclusive, Covers
<1>8. QueueExact' /\ Handled'
  <2>1. \A m \in Leases : lease[m].phase = "preparing" => lease'[m].phase = "preparing"
    BY <1>2
  <2> QED BY <1>6, <2>1, QueueKept, HandledKept
<1>9. Aged'
  BY <1>6, AgedKept DEF Covers
<1>10. ASSUME OneTaskStream(setup) PROVE Device'
  <2>1. Device /\ Free(lease[l].block)
    BY <1>10
  <2>2. Backed'
    BY <1>2, <1>6, <2>1, BackedKept DEF Device
  <2>3. \A m \in Leases : Covered(m)'
    BY <1>6, <2>1, SameCovered DEF Device
  <2> QED BY <2>1, <2>2, <2>3, DeviceKept
<1> QED BY <1>3, <1>4, <1>5, <1>7, <1>8, <1>9, <1>10 DEF OneTaskStream

\* A range without unfinished work passes to the successor it was promised to.
LEMMA HandOffStep ==
  ASSUME IInv, NEW l \in Leases, NEW n \in Leases, OwnsRange(l), lease[l].successor = n,
         lease[l].phase # "preparing", lease' = Released(l),
         OneTaskStream(setup) => Free(lease[l].block),
         queue' \subseteq queue, owed' \subseteq QueueRecord, moved' \subseteq Threads, Counted',
         UNCHANGED <<pending, generation, thread, scope, work, done, setup>>
  PROVE  IInv'
<1> USE DEF IInv, Structure
<1> DEFINE r == Emptied(l)
           q == [lease[n] EXCEPT !.state = "RESERVED", !.predecessor = None]
<1>1. /\ lease \in [Leases -> LeaseRecord] /\ lease[n] \in LeaseRecord
      /\ lease[n].state = "SUCCESSOR_RESERVED" /\ lease[n].predecessor = l
      /\ lease[n].block = lease[l].block /\ lease[l].generation < lease[n].generation
      /\ lease[n].successor = None /\ lease[n].phase = "none" /\ n # l
      /\ lease[n].planned /\ ~ OwnsRange(n)
  BY DEF Typed, Promised, Sound, OwnsRange
<1>r. /\ r \in LeaseRecord /\ r.state = "FREE" /\ r.generation = 0 /\ r.block = None
      /\ r.phase = "none" /\ r.successor = None
  BY Fields, FreeRecordTyped DEF Emptied, FreeRecord
<1>l. lease' = [lease EXCEPT ![l] = r, ![n] = q]
  BY <1>1, NoneAssumption DEF Released
<1>q. q \in LeaseRecord
  <2>1. lease[n] \in LeaseRecord
    BY <1>1
  <2> QED BY <2>1 DEF LeaseRecord, States
<1>2. /\ q.state = "RESERVED" /\ q.block = lease[n].block /\ q.planned = lease[n].planned
      /\ q.generation = lease[n].generation /\ q.phase = lease[n].phase
      /\ q.successor = lease[n].successor /\ q.enqueued = lease[n].enqueued
      /\ q.home = lease[n].home /\ q.uses = lease[n].uses /\ q.events = lease[n].events
  BY <1>1 DEF LeaseRecord
<1> HIDE DEF q, r
<1>3. /\ lease' \in [Leases -> LeaseRecord] /\ lease'[l] = r /\ lease'[n] = q
      /\ \A m \in Leases : m # l /\ m # n => lease'[m] = lease[m]
  BY <1>1, <1>l, <1>q, <1>r
<1>4. Typed'
  BY <1>3 DEF Typed
<1>5. \A m \in Leases : Sound(lease[m])'
  <2>1. Sound(lease[l])'
    BY <1>3, <1>r DEF Sound, Queueable
  <2>2. Sound(lease[n])'
    <3>1. Sound(lease[n])
      OBVIOUS
    <3> QED BY <1>1, <1>2, <1>3, <3>1 DEF Sound, Queueable
  <2>3. ASSUME NEW m \in Leases, m # l, m # n PROVE Sound(lease[m])'
    BY <1>3, <2>3 DEF Sound
  <2> QED BY <2>1, <2>2, <2>3
<1>6. Promised'
  <2>1. ASSUME NEW m \in Leases, lease'[m].successor \in Leases
        PROVE  LET x == lease'[lease'[m].successor] IN
               /\ x.state = "SUCCESSOR_RESERVED" /\ x.predecessor = m
               /\ x.block = lease'[m].block /\ lease'[m].generation < x.generation
    <3>1. m # l /\ m # n /\ lease'[m] = lease[m]
      BY <1>1, <1>2, <1>3, <1>r, <2>1, NoneAssumption
    <3>2. lease[m].successor # l /\ lease[m].successor # n
      BY <1>1, <2>1, <3>1 DEF Promised, OwnsRange
    <3> QED BY <1>3, <2>1, <3>1, <3>2 DEF Promised
  <2>2. ASSUME NEW x \in Leases, lease'[x].state = "SUCCESSOR_RESERVED"
        PROVE  lease'[x].predecessor \in Leases /\ lease'[lease'[x].predecessor].successor = x
    <3>1. x # l /\ x # n /\ lease'[x] = lease[x]
      BY <1>2, <1>3, <1>r, <2>2
    <3>2. lease[x].predecessor \in Leases /\ lease[lease[x].predecessor].successor = x
      BY <2>2, <3>1 DEF Promised
    <3>3. lease[x].predecessor # l /\ lease[x].predecessor # n
      BY <1>1, <3>1, <3>2, NoneAssumption
    <3> QED BY <1>3, <3>1, <3>2, <3>3
  <2> QED BY <2>1, <2>2 DEF Promised
<1>7. /\ OwnsRange(n)' /\ ~ OwnsRange(l)'
      /\ \A m \in Leases : m # l /\ m # n => (OwnsRange(m)' <=> OwnsRange(m))
      /\ \A m \in Leases : (m # n => Covers(m)) /\ Speaks(m)
  BY <1>1, <1>2, <1>3, <1>r DEF OwnsRange, Covers, Speaks, Queueable
<1>8. Exclusive'
  BY <1>1, <1>2, <1>3, <1>7 DEF Exclusive
<1>9. QueueExact' /\ Handled'
  <2>1. \A m \in Leases : lease[m].phase = "preparing" => lease'[m].phase = "preparing"
    BY <1>1, <1>3
  <2> QED BY <1>7, <2>1, QueueKept, HandledKept
<1>10. Aged'
  <2> SUFFICES ASSUME NEW s \in Streams, NEW i \in 1..Len(work[s])
               PROVE  /\ work[s][i].generation < generation
                      /\ \A m \in Leases : OwnsRange(m)' /\ work[s][i].block = lease'[m].block =>
                           work[s][i].generation <= lease'[m].generation
    BY DEF Aged
  <2>1. work[s][i] \in Entry /\ lease[l].generation \in Nat /\ lease[n].generation \in Nat
    BY NowTyped, Fields
  <2>2. ASSUME NEW m \in Leases, OwnsRange(m)', work[s][i].block = lease'[m].block
        PROVE  work[s][i].generation <= lease'[m].generation
    <3>1. CASE m = n
      <4>1. work[s][i].generation <= lease[l].generation
        BY <1>1, <1>2, <1>3, <2>2, <3>1 DEF Aged
      <4> QED BY <1>1, <1>2, <1>3, <2>1, <3>1, <4>1 DEF Entry
    <3>2. CASE m # n
      BY <1>3, <1>7, <2>2, <3>2 DEF Aged
    <3> QED BY <3>1, <3>2
  <2> QED BY <2>2 DEF Aged
<1>11. ASSUME OneTaskStream(setup) PROVE Device'
  <2>1. Device /\ Free(lease[l].block)
    BY <1>11
  <2>2. Backed'
    <3>1. ASSUME NEW m \in Leases, OwnsRange(m)
          PROVE  (OwnsRange(m)' /\ lease'[m].block = lease[m].block) \/ Free(lease[m].block)
      BY <1>1, <1>3, <1>7, <2>1, <3>1
    <3> QED BY <2>1, <3>1, BackedKept DEF Device
  <2>3. ASSUME NEW m \in Leases PROVE Covered(m)'
    <3>1. CASE m = n
      BY <1>1, <1>2, <1>3, <2>1, <3>1 DEF Covered, Free, Left
    <3>2. CASE m # n
      BY <1>7, <2>1, <3>2, SameCovered DEF Device
    <3> QED BY <3>1, <3>2
  <2> QED BY <2>1, <2>2, <2>3, DeviceKept
<1> QED BY <1>4, <1>5, <1>6, <1>8, <1>9, <1>10, <1>11 DEF OneTaskStream

\* release_reserved_destination, and the release of a filled one.
LEMMA GivenBack ==
  ASSUME IInv, NEW l \in Leases, lease[l].state \in {"RESERVED", "IN_USE"}, lease[l].planned,
         lease' = [lease EXCEPT ![l] = FreeRecord], Announce,
         OneTaskStream(setup) => Free(lease[l].block),
         UNCHANGED <<queue, owed, pending, generation, thread, scope, device>>
  PROVE  IInv'
<1> USE DEF IInv, Structure
<1>1. /\ FreeRecord \in LeaseRecord /\ FreeRecord.state = "FREE" /\ FreeRecord.generation = 0
      /\ FreeRecord.block = None /\ FreeRecord.phase = "none" /\ FreeRecord.successor = None
  BY FreeRecordTyped DEF FreeRecord
<1>2. /\ OwnsRange(l) /\ lease[l].successor = None /\ lease[l].phase = "none"
      /\ lease \in [Leases -> LeaseRecord] /\ owed \subseteq QueueRecord
  BY DEF OwnsRange, Sound, Typed
<1>3. Counted'
  <2>1. Outstanding' = Outstanding
    BY <1>1, <1>2 DEF Outstanding
  <2> QED BY <2>1, CountedKept DEF device
<1> QED BY <1>1, <1>2, <1>3, GiveUpStep DEF Announce, device

\* The owner of a filled destination gives it back once its transfer is complete,
\* and with the transfer all that the transfer waited for.
LEMMA ReleaseOwnedKeeps ==
  ASSUME IInv, NEW l \in Leases, ReleaseOwned(l)
  PROVE  IInv'
<1>1. ASSUME OneTaskStream(setup) PROVE Free(lease[l].block)
  <2> SUFFICES ASSUME NEW s \in Streams, NEW i \in Left(s), work[s][i].block = lease[l].block
               PROVE  FALSE
    BY DEF Free
  <2>1. CoveredAt(lease[l], s, i)
    BY <1>1 DEF IInv, Device, Covered, OwnsRange, ReleaseOwned
  <2>2. ASSUME NEW y \in Streams, NEW j \in Left(y)
        PROVE  work[y][j].generation # lease[l].generation
    <3>1. /\ done[y] \in Nat /\ Len(work[y]) \in Nat /\ DOMAIN work[y] = 1..Len(work[y])
      BY NowTyped DEF IInv, Structure, Typed
    <3> QED BY <3>1 DEF ReleaseOwned, Left
  <2> QED BY <2>1, <2>2, LaneAssumption DEF CoveredAt, ReleaseOwned
<1> QED BY <1>1, GivenBack DEF ReleaseOwned

\* A destination that is not needed: its range, or the promise of one.
LEMMA CancelDestinationKeeps ==
  ASSUME IInv, NEW l \in Leases, CancelDestination(l)
  PROVE  IInv'
<1> USE DEF IInv, Structure
<1>1. UNCHANGED <<queue, owed, pending, generation, thread, scope, work, done, setup>>
  BY DEF CancelDestination, device
<1>2. CASE lease[l].state = "RESERVED"
  <2>1. ASSUME OneTaskStream(setup) PROVE Free(lease[l].block)
    BY <1>2, <2>1 DEF Free, Device, Covered, CoveredAt, OwnsRange
  <2>2. lease[l].planned
    BY <1>2 DEF Sound
  <2> QED BY <1>2, <2>1, <2>2, GivenBack DEF CancelDestination
<1>3. CASE lease[l].state = "SUCCESSOR_RESERVED"
  <2>1. PICK p \in Leases : p = lease[l].predecessor /\ lease[p].successor = l
    BY <1>3 DEF Promised
  <2> DEFINE q == [lease[p] EXCEPT !.successor = None]
  <2>2. /\ lease \in [Leases -> LeaseRecord] /\ lease[p] \in LeaseRecord
        /\ lease[p].state = "RETIRE_PENDING" /\ p # l
        /\ lease[l].successor = None /\ lease[l].phase = "none"
        /\ moved' = moved
    BY <1>3, <2>1, NoneAssumption DEF Typed, Sound, CancelDestination
  <2>3. lease' = [lease EXCEPT ![l] = FreeRecord, ![p] = q]
    BY <1>3, <2>1, <2>2 DEF CancelDestination
  <2>4. /\ FreeRecord \in LeaseRecord /\ FreeRecord.state = "FREE" /\ FreeRecord.generation = 0
        /\ FreeRecord.block = None /\ FreeRecord.phase = "none" /\ FreeRecord.successor = None
    BY FreeRecordTyped DEF FreeRecord
  <2>5. q \in LeaseRecord
    BY <2>2 DEF LeaseRecord
  <2>6. /\ q.state = lease[p].state /\ q.block = lease[p].block /\ q.home = lease[p].home
        /\ q.generation = lease[p].generation /\ q.phase = lease[p].phase
        /\ q.uses = lease[p].uses /\ q.events = lease[p].events /\ q.planned = lease[p].planned
        /\ q.enqueued = lease[p].enqueued /\ q.predecessor = lease[p].predecessor
        /\ q.successor = None
    BY <2>2 DEF LeaseRecord
  <2> HIDE DEF q
  <2>7. /\ lease' \in [Leases -> LeaseRecord] /\ lease'[l] = FreeRecord /\ lease'[p] = q
        /\ \A m \in Leases : m # l /\ m # p => lease'[m] = lease[m]
    BY <2>2, <2>3, <2>4, <2>5
  <2>8. Typed'
    BY <1>1, <2>2, <2>7 DEF Typed
  <2>9. \A m \in Leases : Sound(lease[m])'
    <3>1. Sound(lease[l])'
      BY <2>4, <2>7 DEF Sound, Queueable
    <3>2. Sound(lease[p])'
      <4>1. Sound(lease[p])
        OBVIOUS
      <4> QED BY <1>1, <2>2, <2>6, <2>7, <4>1 DEF Sound
    <3>3. ASSUME NEW m \in Leases, m # l, m # p PROVE Sound(lease[m])'
      BY <1>1, <2>7, <3>3 DEF Sound
    <3> QED BY <3>1, <3>2, <3>3
  <2>10. Promised'
    <3>1. ASSUME NEW m \in Leases, lease'[m].successor \in Leases
          PROVE  LET x == lease'[lease'[m].successor] IN
                 /\ x.state = "SUCCESSOR_RESERVED" /\ x.predecessor = m
                 /\ x.block = lease'[m].block /\ lease'[m].generation < x.generation
      <4>1. m # l /\ m # p /\ lease'[m] = lease[m]
        BY <2>4, <2>6, <2>7, <3>1, NoneAssumption
      <4>2. lease[m].successor # l /\ lease[m].successor # p
        BY <2>1, <2>2, <3>1, <4>1 DEF Promised
      <4> QED BY <2>7, <3>1, <4>1, <4>2 DEF Promised
    <3>2. ASSUME NEW x \in Leases, lease'[x].state = "SUCCESSOR_RESERVED"
          PROVE  lease'[x].predecessor \in Leases /\ lease'[lease'[x].predecessor].successor = x
      <4>1. x # l /\ x # p /\ lease'[x] = lease[x]
        BY <2>2, <2>4, <2>6, <2>7, <3>2
      <4>2. lease[x].predecessor \in Leases /\ lease[lease[x].predecessor].successor = x
        BY <3>2, <4>1 DEF Promised
      <4>3. lease[x].predecessor # l /\ lease[x].predecessor # p
        BY <2>1, <2>2, <4>1, <4>2, NoneAssumption
      <4> QED BY <2>7, <4>1, <4>2, <4>3
    <3> QED BY <3>1, <3>2 DEF Promised
  <2>11. \A m \in Leases : Covers(m) /\ Speaks(m) /\ (OwnsRange(m) => OwnsRange(m)')
    BY <1>3, <2>2, <2>4, <2>6, <2>7 DEF Covers, Speaks, OwnsRange
  <2>12. QueueExact' /\ Handled' /\ Counted'
    <3>1. \A m \in Leases : lease[m].phase = "preparing" => lease'[m].phase = "preparing"
      BY <2>2, <2>6, <2>7
    <3>2. Outstanding' = Outstanding
      BY <1>1, <1>3, <2>2, <2>4, <2>6, <2>7 DEF Outstanding
    <3> QED BY <1>1, <2>11, <3>1, <3>2, QueueKept, HandledKept, CountedKept
  <2> QED BY <1>1, <2>8, <2>9, <2>10, <2>11, <2>12, OwnersStay
<1> QED BY <1>2, <1>3 DEF CancelDestination

\* A boundary reserves a destination: a free range, or the promise of one.
LEMMA ReserveDestinationKeeps ==
  ASSUME IInv, ReserveDestination
  PROVE  IInv'
<1> USE DEF IInv, Structure
<1>1. /\ UNCHANGED <<queue, owed, pending, thread, scope, moved, work, done, setup>>
      /\ generation' = generation + 1 /\ generation \in Nat /\ generation > 0
      /\ lease \in [Leases -> LeaseRecord] /\ thread \in [Threads -> ThreadState]
  BY DEF ReserveDestination, device, Typed
<1>2. PICK n \in Recyclable :
        \/ \E b \in FreeBlocks : lease' = Created(n, b, "RESERVED", TRUE)
        \/ \E l \in Candidates :
             lease' = [Created(n, lease[l].block, "SUCCESSOR_RESERVED", TRUE)
                         EXCEPT ![l].successor = n, ![n].predecessor = l]
  BY DEF ReserveDestination, Lowest, Preferred
<1>3. /\ n \in Leases /\ lease[n].state = "FREE" /\ lease[n].phase = "none"
      /\ lease[n].successor = None
  BY DEF Recyclable, Sound
<1>4. CASE \E b \in FreeBlocks : lease' = Created(n, b, "RESERVED", TRUE)
  <2>1. PICK b \in FreeBlocks : lease' = Created(n, b, "RESERVED", TRUE)
    BY <1>4
  <2> DEFINE r == [FreeRecord EXCEPT !.state = "RESERVED", !.block = b,
                     !.generation = generation, !.planned = TRUE]
  <2>2. lease' = [lease EXCEPT ![n] = r] /\ b \in Nat
    BY <2>1, SetupFacts DEF Created, FreeBlocks
  <2>3. /\ r \in LeaseRecord /\ r.block = b /\ r.generation = generation /\ r.phase = "none"
        /\ r.successor = None /\ r.enqueued = 0 /\ r.state = "RESERVED" /\ r.planned
    BY <1>1, <2>2 DEF FreeRecord, LeaseRecord, States, Phases
  <2> HIDE DEF r
  <2>4. Handled'
    <3>1. \A m \in Leases : lease[m].phase = "preparing" => lease'[m].phase = "preparing"
      BY <1>1, <1>3, <2>2
    <3> QED BY <1>1, <3>1, HandledKept
  <2> QED BY <1>1, <2>2, <2>3, <2>4, CreateStep
<1>5. CASE \E l \in Candidates :
             lease' = [Created(n, lease[l].block, "SUCCESSOR_RESERVED", TRUE)
                         EXCEPT ![l].successor = n, ![n].predecessor = l]
  <2>1. PICK l \in Candidates :
             lease' = [Created(n, lease[l].block, "SUCCESSOR_RESERVED", TRUE)
                         EXCEPT ![l].successor = n, ![n].predecessor = l]
    BY <1>5
  <2>2. /\ l \in Leases /\ lease[l].state = "RETIRE_PENDING" /\ lease[l].successor = None
        /\ l # n /\ lease[l] \in LeaseRecord /\ lease[l].block \in setup.blocks
        /\ lease[l].block \in Nat /\ lease[l].generation \in Nat
        /\ lease[l].generation < generation
    BY <1>3, SetupFacts, Fields DEF Candidates, Sound
  <2> DEFINE f == [FreeRecord EXCEPT !.state = "SUCCESSOR_RESERVED", !.block = lease[l].block,
                     !.generation = generation, !.planned = TRUE]
             c == [lease EXCEPT ![n] = f]
             r == [f EXCEPT !.predecessor = l]
             q == [lease[l] EXCEPT !.successor = n]
  <2>b. lease[l].block \in Nat /\ generation \in Nat
    BY <1>1, <2>2
  <2>f. /\ f \in LeaseRecord /\ f.block = lease[l].block /\ f.generation = generation
        /\ f.phase = "none" /\ f.successor = None /\ f.enqueued = 0
        /\ f.state = "SUCCESSOR_RESERVED" /\ f.planned = TRUE
    BY <2>b DEF FreeRecord, LeaseRecord, States, Phases
  <2>c. lease' = [c EXCEPT ![l].successor = n, ![n].predecessor = l]
    BY <2>1 DEF Created
  <2> HIDE DEF f
  <2>3. lease' = [lease EXCEPT ![n] = r, ![l] = q]
    <3>1. c[l] = lease[l] /\ c[n] = f /\ DOMAIN c = Leases
      BY <1>1, <1>3, <2>2
    <3> QED BY <1>1, <1>3, <2>2, <2>c, <3>1
  <2>4. /\ r \in LeaseRecord /\ r.block = lease[l].block /\ r.generation = generation
        /\ r.phase = "none" /\ r.successor = None /\ r.enqueued = 0
        /\ r.state = "SUCCESSOR_RESERVED" /\ r.planned = TRUE /\ r.predecessor = l
    BY <1>1, <2>2, <2>f DEF LeaseRecord
  <2>5. q \in LeaseRecord
    BY <1>3, <2>2 DEF LeaseRecord
  <2>6. /\ q.state = lease[l].state /\ q.block = lease[l].block /\ q.home = lease[l].home
        /\ q.generation = lease[l].generation /\ q.phase = lease[l].phase
        /\ q.uses = lease[l].uses /\ q.events = lease[l].events /\ q.planned = lease[l].planned
        /\ q.enqueued = lease[l].enqueued /\ q.predecessor = lease[l].predecessor
        /\ q.successor = n
    BY <2>2 DEF LeaseRecord
  <2> HIDE DEF q, r
  <2>7. /\ lease' \in [Leases -> LeaseRecord] /\ lease'[n] = r /\ lease'[l] = q
        /\ \A m \in Leases : m # l /\ m # n => lease'[m] = lease[m]
    BY <1>1, <1>3, <2>2, <2>3, <2>4, <2>5
  <2>8. Typed'
    BY <1>1, <2>7 DEF Typed
  <2>9. \A m \in Leases : Sound(lease[m])'
    <3>1. Sound(lease[n])'
      BY <1>1, <2>2, <2>4, <2>7 DEF Sound, Queueable
    <3>2. ASSUME NEW m \in Leases, m # n PROVE Sound(lease[m])'
      <4>1. Sound(lease[m]) /\ lease[m].generation \in Nat
        BY Fields
      <4>2. CASE m = l
        BY <1>1, <2>2, <2>6, <2>7, <4>1, <4>2 DEF Sound
      <4>3. CASE m # l
        BY <1>1, <2>7, <3>2, <4>1, <4>3 DEF Sound
      <4> QED BY <4>2, <4>3
    <3> QED BY <3>1, <3>2
  <2>10. Promised'
    <3>1. ASSUME NEW m \in Leases, lease'[m].successor \in Leases
          PROVE  LET x == lease'[lease'[m].successor] IN
                 /\ x.state = "SUCCESSOR_RESERVED" /\ x.predecessor = m
                 /\ x.block = lease'[m].block /\ lease'[m].generation < x.generation
      <4>1. CASE m = l
        BY <1>3, <2>2, <2>4, <2>6, <2>7, <4>1
      <4>2. CASE m # l
        <5>1. m # n /\ lease'[m] = lease[m]
          BY <2>4, <2>7, <3>1, <4>2, NoneAssumption
        <5>2. lease[m].successor # n /\ lease[m].successor # l
          BY <1>3, <2>2, <3>1, <5>1 DEF Promised
        <5> QED BY <2>7, <3>1, <5>1, <5>2 DEF Promised
      <4> QED BY <4>1, <4>2
    <3>2. ASSUME NEW x \in Leases, lease'[x].state = "SUCCESSOR_RESERVED"
          PROVE  lease'[x].predecessor \in Leases /\ lease'[lease'[x].predecessor].successor = x
      <4>1. CASE x = n
        BY <2>2, <2>4, <2>6, <2>7, <4>1
      <4>2. CASE x # n
        <5>1. x # l /\ lease'[x] = lease[x]
          BY <2>2, <2>6, <2>7, <3>2, <4>2
        <5>2. lease[x].predecessor \in Leases /\ lease[lease[x].predecessor].successor = x
          BY <3>2, <5>1 DEF Promised
        <5>3. lease[x].predecessor # n /\ lease[x].predecessor # l
          BY <1>3, <2>2, <5>2, NoneAssumption
        <5> QED BY <2>7, <5>1, <5>2, <5>3
      <4> QED BY <4>1, <4>2
    <3> QED BY <3>1, <3>2 DEF Promised
  <2>11. \A m \in Leases : Covers(m) /\ Speaks(m) /\ (OwnsRange(m) => OwnsRange(m)')
    BY <1>3, <2>2, <2>4, <2>6, <2>7 DEF Covers, Speaks, OwnsRange
  <2>12. QueueExact' /\ Handled' /\ Counted'
    <3>1. \A m \in Leases : lease[m].phase = "preparing" => lease'[m].phase = "preparing"
      BY <1>3, <2>6, <2>7
    <3>2. Outstanding' = Outstanding
      BY <1>1, <1>3, <2>2, <2>4, <2>6, <2>7 DEF Outstanding
    <3> QED BY <1>1, <2>11, <3>1, <3>2, QueueKept, HandledKept, CountedKept
  <2> QED BY <1>1, <2>8, <2>9, <2>10, <2>11, <2>12, OwnersStay
<1> QED BY <1>2, <1>4, <1>5

-----------------------------------------------------------------------------
(* The worker. *)

\* A reclaimed retirement is owed until it is counted down.
LEMMA CountedOwed ==
  ASSUME Typed, Counted, owed = {}, NEW r, owed' = {r}, pending' = pending, setup' = setup,
         NEW l, l \in Outstanding, Outstanding' = Outstanding \ {l}
  PROVE  Counted'
<1>1. /\ Cardinality(Outstanding \ {l}) = Cardinality(Outstanding) - 1
      /\ Cardinality(Outstanding) \in Nat
  BY OutstandingFinite, FS_RemoveElement
<1>2. Cardinality(owed) = 0 /\ Cardinality({r}) = 1 /\ pending \in Int
  BY FS_EmptySet, FS_Singleton DEF Typed
<1> QED BY <1>1, <1>2 DEF Counted, PendingExact

\* pending_retirements is counted down without the lock.
LEMMA CountDownKeeps ==
  ASSUME IInv, CountDown
  PROVE  IInv'
<1> USE DEF IInv, Structure
<1>1. /\ UNCHANGED <<setup, lease, queue, generation, thread, scope, moved, work, done>>
      /\ pending' = pending - 1 /\ owed # {} /\ owed' = {} /\ pending \in Int
  BY DEF CountDown, device, Typed
<1>2. Counted'
  <2>1. Outstanding' = Outstanding
    BY <1>1 DEF Outstanding
  <2>2. Cardinality(owed) = 1 /\ Cardinality({}) = 0 /\ Cardinality(Outstanding) \in Nat
    BY <1>1, OwedOne, FS_EmptySet, OutstandingFinite DEF Counted
  <2> QED BY <1>1, <2>1, <2>2 DEF Counted, PendingExact
<1>3. Typed' /\ Promised'
  BY <1>1 DEF Typed, Promised
<1>4. (\A l \in Leases : Sound(lease[l])') /\ QueueExact' /\ Handled'
  BY <1>1 DEF Sound, QueueExact, Handled
<1>5. \A l \in Leases : Covers(l) /\ (OwnsRange(l) => OwnsRange(l)')
  BY <1>1 DEF Covers, OwnsRange
<1> QED BY <1>1, <1>2, <1>3, <1>4, <1>5, OwnersStay

\* A range goes back, or to its successor, when its events are reached; a record
\* that no longer speaks for its lease is dropped.
LEMMA ReclaimKeeps ==
  ASSUME IInv, NEW r \in queue, Reclaim(r)
  PROVE  IInv'
<1> USE DEF IInv, Structure
<1> DEFINE l == r.lease
<1>1. /\ UNCHANGED <<setup, pending, generation, thread, scope, work, done>>
      /\ queue' = queue \ {r} /\ owed = {} /\ Reached(r.events)
      /\ r \in QueueRecord /\ l \in Leases /\ lease \in [Leases -> LeaseRecord]
      /\ lease[l] \in LeaseRecord
  BY DEF Reclaim, device, Typed, QueueRecord
<1>2. CASE ~ Current(r)
  <2>1. lease' = lease /\ moved' = moved /\ owed' = owed
    BY <1>2 DEF Reclaim
  <2>2. Counted'
    <3>1. Outstanding' \subseteq Outstanding
      BY <1>1, <2>1 DEF Outstanding
    <3>2. CASE setup.acquires
      BY <1>1, <2>1, <3>1, <3>2, CountedLess
    <3>3. CASE ~ setup.acquires
      <4>1. Outstanding' = Outstanding
        BY <1>1, <2>1, <3>3 DEF Outstanding, Sound
      <4> QED BY <1>1, <2>1, <4>1, CountedKept
    <3> QED BY <3>2, <3>3
  <2>3. Typed' /\ Promised' /\ Handled'
    BY <1>1, <2>1 DEF Typed, Promised, Handled
  <2>4. (\A m \in Leases : Sound(lease[m])') /\ QueueExact'
    BY <1>1, <2>1 DEF Sound, QueueExact
  <2>5. \A m \in Leases : Covers(m) /\ (OwnsRange(m) => OwnsRange(m)')
    BY <2>1 DEF Covers, OwnsRange
  <2> QED BY <1>1, <2>2, <2>3, <2>4, <2>5, OwnersStay
<1>3. CASE Current(r)
  <2>1. /\ lease' = Released(l) /\ moved' \subseteq Threads /\ owed' = {r}
    BY <1>3 DEF Reclaim, Announce
  <2>2. /\ lease[l].phase \in Queueable /\ lease[l].events = r.events
        /\ lease[l].state = "RETIRE_PENDING" /\ OwnsRange(l) /\ lease[l].phase # "preparing"
    BY <1>1, <1>3 DEF Current, QueueExact, Sound, OwnsRange, Queueable
  <2>3. ASSUME OneTaskStream(setup) PROVE Free(lease[l].block)
    <3> SUFFICES ASSUME NEW s \in Streams, NEW i \in Left(s), work[s][i].block = lease[l].block
                 PROVE  FALSE
      BY DEF Free
    <3>1. After(r.events, s, i)
      BY <1>1, <2>2, <2>3 DEF Device, Covered, CoveredAt
    <3>2. PICK e \in r.events : e.stream = s /\ i <= e.at
      BY <3>1 DEF After
    <3>3. e \in Event /\ done[s] >= e.at /\ done[s] \in Nat
      BY <1>1, <3>2 DEF Reached, QueueRecord, Typed
    <3>4. i \in Int /\ i > done[s]
      BY <3>3, NowTyped DEF Left
    <3> QED BY <3>2, <3>3, <3>4 DEF Event
  <2> DEFINE x == Emptied(l)
  <2>4. /\ x \in LeaseRecord /\ x.state = "FREE" /\ x.generation = 0 /\ x.block = None
        /\ x.phase = "none" /\ x.successor = None
    BY <1>1, Fields, FreeRecordTyped DEF Emptied, FreeRecord
  <2> HIDE DEF x
  <2>5. CASE lease[l].successor = None
    <3>1. lease' = [lease EXCEPT ![l] = x]
      BY <2>1, <2>5 DEF Released, x
    <3>2. Counted'
      <4>1. l \in Outstanding /\ Outstanding' = Outstanding \ {l}
        BY <1>1, <2>2, <2>4, <3>1 DEF Outstanding
      <4> QED BY <1>1, <2>1, <4>1, CountedOwed
    <3> QED BY <1>1, <2>1, <2>2, <2>3, <2>4, <2>5, <3>1, <3>2, GiveUpStep
  <2>6. CASE lease[l].successor # None
    <3>1. PICK n \in Leases : n = lease[l].successor
      BY <1>1, <2>6, Fields
    <3> DEFINE q == [lease[n] EXCEPT !.state = "RESERVED", !.predecessor = None]
    <3>2. lease[n] \in LeaseRecord /\ lease[n].state = "SUCCESSOR_RESERVED" /\ n # l
      BY <1>1, <2>2, <3>1, Fields DEF Promised
    <3>3. lease' = [lease EXCEPT ![l] = x, ![n] = q]
      BY <1>1, <2>1, <2>6, <3>1, <3>2 DEF Released, x
    <3>4. q \in LeaseRecord
      BY <3>2 DEF LeaseRecord, States
    <3>5. q.state = "RESERVED"
      BY <3>2 DEF LeaseRecord
    <3> HIDE DEF q
    <3>6. Counted'
      <4>1. l \in Outstanding
        BY <1>1, <2>2 DEF Outstanding
      <4>2. Outstanding' = Outstanding \ {l}
        <5>1. /\ lease'[l] = x /\ lease'[n] = q
              /\ \A m \in Leases : m # l /\ m # n => lease'[m] = lease[m]
          BY <1>1, <3>2, <3>3
        <5> QED BY <1>1, <2>2, <2>4, <3>2, <3>5, <5>1 DEF Outstanding
      <4> QED BY <1>1, <2>1, <4>1, <4>2, CountedOwed
    <3>7. lease[l].successor = n /\ queue' \subseteq queue /\ owed' \subseteq QueueRecord
      BY <1>1, <2>1, <3>1
    <3> QED BY <1>1, <2>1, <2>2, <2>3, <3>6, <3>7, HandOffStep
  <2> QED BY <2>5, <2>6
<1> QED BY <1>2, <1>3

-----------------------------------------------------------------------------
(***************************************************************************)
(* Every step preserves the invariant, and what follows from it.           *)
(***************************************************************************)

\* One lemma for each action, or for the actions that change the same things.
LEMMA NextHolds == IInv /\ [Next]_vars => IInv'
<1> SUFFICES ASSUME IInv, [Next]_vars PROVE IInv'
  OBVIOUS
<1>1. setup.threads \subseteq Threads
  BY SetupFacts DEF IInv, Structure
<1>2. CASE UNCHANGED vars
  <2>1. /\ UNCHANGED <<setup, lease, queue, owed, pending, generation, work, done>>
        /\ UNCHANGED <<thread, scope, moved>>
    BY <1>2 DEF vars
  <2>2. Handled' /\ thread' \in [Threads -> ThreadState] /\ scope' \subseteq Threads
        /\ moved' \subseteq Threads
    BY <2>1 DEF Handled, IInv, Structure, Typed
  <2> QED BY <2>1, <2>2, ThreadStep
<1>3. ASSUME NEW t \in setup.threads, Calls(t) PROVE IInv'
  BY <1>1, <1>3, ThreadSteps, FreeLocalKeeps, FreeBeginKeeps, RecordStreamKeeps DEF Calls
<1>4. ASSUME NEW t \in setup.threads, Runs(t) PROVE IInv'
  BY <1>1, <1>4, TakeLeaseKeeps, ThreadSteps, PublishSteps, PreparedKeeps, PhaseSteps DEF Runs
<1>5. ASSUME NEW t \in setup.threads, EndTask(t) PROVE IInv'
  BY <1>5, PublishSteps
<1>6. CASE Work
  BY <1>6, ReclaimKeeps, CountDownKeeps DEF Work
<1>7. CASE Boundary
  BY <1>7, ReserveDestinationKeeps, AcquireReservedKeeps, AcquireSuccessorKeeps,
     CancelDestinationKeeps, ReleaseOwnedKeeps DEF Boundary
<1>8. ASSUME NEW l \in Leases, NEW s \in Streams, Use(l, s) PROVE IInv'
  BY <1>8, UseKeeps
<1>9. ASSUME NEW s \in Streams, Join(s) \/ Complete(s) PROVE IInv'
  BY <1>9, JoinKeeps, CompleteKeeps
<1> QED BY <1>2, <1>3, <1>4, <1>5, <1>6, <1>7, <1>8, <1>9 DEF Next

\* The invariant holds in every reachable state, of every instance.
THEOREM RetirementInvariant == Spec => []IInv
BY InitHolds, NextHolds, PTL DEF Spec

\* The record between its reclamation and the count was a record of the queue.
Owed == \A r \in owed : r.generation \in 1..generation

\* It was in the queue when the worker reclaimed its lease.
LEMMA OwedHolds == IInv /\ Owed /\ [Next]_vars => Owed'
<1> SUFFICES ASSUME IInv, Owed, [Next]_vars PROVE Owed'
  OBVIOUS
<1>1. generation \in Nat
  BY DEF IInv, Structure, Typed
<1>2. CASE owed' = owed /\ generation' \in {generation, generation + 1}
  BY <1>1, <1>2 DEF Owed
<1>3. CASE owed' = {}
  BY <1>3 DEF Owed
<1>4. CASE generation' = generation /\ \E r \in queue : owed' = {r}
  <2>1. \A r \in queue : r.generation \in Nat /\ r.generation > 0 /\ r.generation < generation
    BY DEF IInv, Structure, Typed, QueueExact, QueueRecord
  <2> QED BY <1>1, <1>4, <2>1 DEF Owed
<1>5. ASSUME NEW t \in setup.threads, Calls(t) \/ EndTask(t) \/ Runs(t)
      PROVE  owed' = owed /\ generation' \in {generation, generation + 1}
  <2>1. CASE Calls(t) \/ EndTask(t)
    BY <2>1 DEF Calls, Request, FreeLocal, FreeBegin, RecordStream, EnterTask, AbortTask, EndTask
  <2>2. CASE TakeLease(t)
    BY <2>2 DEF TakeLease, Reuse
  <2>3. CASE Runs(t) /\ ~ TakeLease(t)
    BY <2>3 DEF Runs, RefuseAllocation, BeginWait, PublishForWait, EndWait, FailRequest,
       FreeFinish, FreeFail, AbortPrepare, AbortFinish, AbortLeave
  <2> QED BY <1>5, <2>1, <2>2, <2>3
<1>6. CASE Work
  <2>1. CASE CountDown
    BY <1>3, <2>1 DEF CountDown
  <2>2. ASSUME NEW r \in queue, Reclaim(r) PROVE Owed'
    BY <1>2, <1>4, <2>2 DEF Reclaim
  <2> QED BY <1>6, <2>1, <2>2 DEF Work
<1>7. ASSUME Boundary PROVE owed' = owed /\ generation' \in {generation, generation + 1}
  BY <1>7 DEF Boundary, ReserveDestination, AcquireReserved, AcquireSuccessor,
     CancelDestination, ReleaseOwned
<1>8. ASSUME \/ \E l \in Leases, s \in Streams : Use(l, s)
             \/ \E s \in Streams : Join(s) \/ Complete(s)
             \/ UNCHANGED vars
      PROVE  owed' = owed /\ generation' = generation
  BY <1>8 DEF Use, Join, Complete, vars
<1> QED BY <1>2, <1>5, <1>6, <1>7, <1>8 DEF Next

\* The records keep their shapes, and pending_retirements never goes below zero.
THEOREM RetirementTypeCorrect == Spec => []TypeOK
<1>1. Init => Owed
  BY DEF Init, Owed
<1>2. IInv /\ Owed => TypeOK
  <2> SUFFICES ASSUME IInv, Owed PROVE TypeOK
    OBVIOUS
  <2> USE DEF IInv, Structure
  <2>1. ASSUME NEW l \in Leases
        PROVE  /\ lease[l].state \in States /\ lease[l].phase \in Phases
               /\ lease[l].block \in setup.blocks \cup {None}
               /\ lease[l].generation \in 0..generation
               /\ lease[l].uses \subseteq Streams
               /\ lease[l].successor \in Leases \cup {None}
               /\ lease[l].predecessor \in Leases \cup {None}
    <3>1. Sound(lease[l]) /\ generation \in Nat
      BY DEF Typed
    <3> QED BY <3>1, Fields DEF Sound
  <2>2. \A r \in queue \cup owed : r.lease \in Leases /\ r.generation \in 1..generation
    <3>1. queue \subseteq QueueRecord /\ owed \subseteq QueueRecord /\ generation \in Nat
      BY DEF Typed
    <3>2. \A r \in QueueRecord : r.lease \in Leases /\ r.generation \in Nat
      BY DEF QueueRecord
    <3> QED BY <3>1, <3>2 DEF QueueExact, Owed
  <2>3. pending \in Nat
    BY OutstandingFinite, OwedOne DEF Counted, Typed
  <2>4. \A t \in Threads : thread[t].at \in Places
    BY DEF Typed, ThreadState
  <2>5. \A s \in Streams : done[s] \in 0..Len(work[s])
    BY NowTyped DEF Typed
  <2>6. setup \in Setups /\ scope \subseteq Threads /\ moved \subseteq Threads
    BY DEF Typed
  <2> QED BY <2>1, <2>2, <2>3, <2>4, <2>5, <2>6 DEF TypeOK
<1> QED BY <1>1, <1>2, InitHolds, NextHolds, OwedHolds, PTL DEF Spec

\* pending_retirements is the number of retirements somebody will still complete,
\* where no successor acquires its range before its predecessor was reclaimed.
THEOREM RetirementPendingExact == Spec => [](~ setup.acquires => PendingExact)
<1>1. IInv => (~ setup.acquires => PendingExact)
  BY DEF IInv, Structure, Counted
<1> QED BY <1>1, RetirementInvariant, PTL

\* Everywhere, the count never misses one: no waiter gives up, and no runtime
\* closes, over a retirement that is still to come.
THEOREM RetirementPendingCovers ==
  Spec => [](pending = 0 => Outstanding = {} /\ owed = {})
<1>1. IInv => (pending = 0 => Outstanding = {} /\ owed = {})
  <2> SUFFICES ASSUME IInv, pending = 0 PROVE Outstanding = {} /\ owed = {}
    OBVIOUS
  <2>1. /\ Cardinality(Outstanding) \in Nat /\ Cardinality(owed) \in Nat
        /\ IsFiniteSet(Outstanding)
        /\ Cardinality(owed) = IF owed = {} THEN 0 ELSE 1
        /\ pending >= Cardinality(Outstanding) + Cardinality(owed)
    BY OutstandingFinite, OwedOne DEF IInv, Structure, Counted
  <2>2. Cardinality(Outstanding) = 0 /\ Cardinality(owed) = 0
    BY <2>1
  <2> QED BY <2>1, <2>2, FS_EmptySet
<1> QED BY <1>1, RetirementInvariant, PTL

\* A range the pool counts as free has no work outstanding, where a task uses one
\* stream.
THEOREM RetirementFreeRangesIdle == Spec => [](OneTaskStream(setup) => FreeRangesIdle)
<1>1. IInv => (OneTaskStream(setup) => FreeRangesIdle)
  <2> SUFFICES ASSUME IInv, OneTaskStream(setup), NEW s \in Streams, NEW i \in DOMAIN work[s],
                      work[s][i].block \in FreeBlocks
               PROVE  i <= done[s]
    BY DEF FreeRangesIdle
  <2>1. /\ done[s] \in Nat /\ Len(work[s]) \in Nat /\ DOMAIN work[s] = 1..Len(work[s])
        /\ None \notin setup.blocks
    BY NowTyped, SetupFacts DEF IInv, Structure, Typed
  <2>2. i \notin Left(s)
    BY <2>1 DEF IInv, Device, Backed, FreeBlocks
  <2> QED BY <2>1, <2>2 DEF Left
<1> QED BY <1>1, RetirementInvariant, PTL

\* Work of two owners of a range is done in the order of ownership, where a task
\* uses one stream.
THEOREM RetirementOwnersOrdered == Spec => [](OneTaskStream(setup) => OwnersOrdered)
<1>1. IInv => (OneTaskStream(setup) => OwnersOrdered)
  BY DEF IInv, Device
<1> QED BY <1>1, RetirementInvariant, PTL
=============================================================================
