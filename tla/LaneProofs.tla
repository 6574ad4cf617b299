----------------------------- MODULE LaneProofs -----------------------------
(***************************************************************************)
(* The discipline of the lanes, for any number of objects, actions and     *)
(* tasks.  Nothing is asked of the plans here: copies may be background or *)
(* collective, lanes may ask for retries, and whatever fails may fail.     *)
(*                                                                         *)
(* A batch is published in the order it was scheduled in, so each queue    *)
(* rises, and what is on the lane or in the worker's hand comes before     *)
(* what is queued behind it (Batched, Rows, Hand): a claim that is handed  *)
(* back is still before everything in its queue.  What is in flight is the *)
(* end of the lane (Tracks), the numbered copies on the lanes are the      *)
(* first of their numbering (Numbers), and what a route is charged is the  *)
(* weight of what is in flight (Window).                                   *)
(*                                                                         *)
(* A submission refused at the last moment leaves a copy on the lane that  *)
(* is not in flight.  The failure it latches stops the boundaries and the  *)
(* worker, so the lanes stay as they are (Stopped).                        *)
(***************************************************************************)
EXTENDS Transfers, OperatorLemmas, SequenceTheorems

\* The queue a published action of a route joins, whether its copy has been submitted,
\* and the background copies in flight on a route.
Queue(r, b) == IF b THEN waiting[r] ELSE planned[r]
On(a) == \E i \in DOMAIN lane[Route(a)] : lane[Route(a)][i] = a
Loads(r) == {a \in Range(inflight[r]) : acts[a].background}
Weights == [a \in DOMAIN acts |-> Bytes(a)]
Done(a) == worker.at = "done" /\ worker.action = a
Stopped == failed /\ worker.at = "idle"

Fields ==
  {"kind", "obj", "background", "task", "state", "version", "exec", "spill", "skips", "late",
   "destination", "lease", "pred", "waits", "sequence"}
QueueTypes ==
  /\ plan \in Plans
  /\ acts \in Seq(Range(acts))
  /\ \A a \in DOMAIN acts :
       /\ DOMAIN acts[a] = Fields
       /\ acts[a].obj \in Objects /\ acts[a].background \in BOOLEAN /\ acts[a].sequence \in Nat
  /\ planned \in [Routes -> Seq(Nat)] /\ waiting \in [Routes -> Seq(Nat)]
  /\ inflight \in [Routes -> Seq(Nat)] /\ lane \in [Routes -> Seq(Nat)]
  /\ charged \in [Routes -> Nat] /\ submitted \in Nat /\ sequences \in Nat
  /\ published \in 0 .. Len(acts)
  /\ boundary \in [at : {"idle", "task", "batch", "await"}, background : BOOLEAN,
                   update : Objects \cup {None}, batch : Seq(Nat)]

\* A boundary's batch is what was scheduled and not published yet.
Batched ==
  /\ boundary.at # "batch" => published = Len(acts)
  /\ boundary.at = "task" => boundary.batch = << >>
  /\ boundary.at = "batch" => Range(boundary.batch) = published + 1 .. Len(acts)
  /\ \A a \in published + 1 .. Len(acts) : acts[a].state = "QUEUED" /\ acts[a].sequence = 0

\* A queue rises, and whatever of its kind is on the lane or in the worker's hand
\* was scheduled before it.
Rows ==
  \A r \in Routes, b \in BOOLEAN : \A i \in DOMAIN Queue(r, b) :
    LET a == Queue(r, b)[i] IN
    /\ a \in 1 .. published /\ Queued(a) /\ Route(a) = r /\ acts[a].background = b
    /\ acts[a].state = "QUEUED"
    /\ \A j \in DOMAIN Queue(r, b) : i < j => a < Queue(r, b)[j]
    /\ \A j \in DOMAIN lane[r] : acts[lane[r][j]].background = b => lane[r][j] < a
    /\ /\ worker.at = "lane" /\ Route(worker.action) = r /\ acts[worker.action].background = b
       => worker.action < a

\* The action in the worker's hand has its turn: of its kind it follows what is on
\* the lane, its number is the next, and the window admits it.
Hand ==
  LET a == worker.action IN
  /\ worker.at # "idle" => a \in 1 .. published
  /\ worker.at = "done" /\ Queued(a) => acts[a].state = "IN_FLIGHT"
  /\ worker.at = "lane" =>
       /\ Queued(a) /\ acts[a].state = "QUEUED"
       /\ acts[a].sequence \in {0, submitted + 1}
       /\ acts[a].background => Admits(Route(a), Bytes(a))
       /\ \A j \in DOMAIN lane[Route(a)] :
            acts[lane[Route(a)][j]].background = acts[a].background => lane[Route(a)][j] < a

\* What is in flight is the end of the lane, and all before it is finished but for
\* the copy that has landed and is still on its object's list.
Landing(r) == Len(lane[r]) - Len(inflight[r])
Tracks ==
  /\ \A r \in Routes :
       /\ Landing(r) >= 0
       /\ \A i \in DOMAIN inflight[r] : inflight[r][i] = lane[r][Landing(r) + i]
       /\ \A i \in DOMAIN lane[r] :
            LET a == lane[r][i] IN
            /\ a \in 1 .. published /\ Queued(a) /\ Route(a) = r
            /\ Done(a) => i = Landing(r)
            /\ acts[a].state = IF i <= Landing(r) /\ ~Done(a) THEN "FINISHED" ELSE "IN_FLIGHT"
            /\ \A j \in DOMAIN lane[r] :
                 i < j /\ acts[a].background = acts[lane[r][j]].background => a < lane[r][j]
  /\ \A a \in DOMAIN acts : acts[a].state = "IN_FLIGHT" => Queued(a) /\ On(a)

\* The collective copies on the lanes are those numbered so far.
Numbers ==
  /\ submitted <= sequences
  /\ \A a \in DOMAIN acts : 0 < acts[a].sequence =>
       acts[a].sequence <= sequences /\ (acts[a].sequence <= submitted <=> On(a))
  /\ \A a, b \in DOMAIN acts : 0 < acts[a].sequence /\ acts[a].sequence = acts[b].sequence => a = b

\* What a route is charged is what the background copies in flight weigh.
Window ==
  \A r \in Routes :
    /\ charged[r] = Total(Weights, Loads(r))
    /\ plan.window # 0 => Cardinality(Loads(r)) <= 1 \/ charged[r] <= plan.window

Discipline == QueueTypes /\ Batched /\ Rows /\ Hand /\ Tracks /\ Numbers /\ Window
QInv == LanesInOrder /\ (Stopped \/ Discipline)

\* A step that leaves what the actions are as it was.
Keeps ==
  /\ plan' = plan /\ DOMAIN acts \subseteq DOMAIN acts'
  /\ \A a \in DOMAIN acts :
       /\ acts'[a].kind = acts[a].kind /\ acts'[a].obj = acts[a].obj
       /\ acts'[a].background = acts[a].background /\ acts'[a].skips = acts[a].skips

LEMMA KeptCopies ==
  ASSUME Keeps, NEW a \in DOMAIN acts
  PROVE  /\ a \in DOMAIN acts' /\ Queued(a)' = Queued(a) /\ Route(a)' = Route(a)
         /\ Bytes(a)' = Bytes(a) /\ acts'[a].background = acts[a].background
BY DEF Keeps, Queued, Route, Bytes

\* The actions are a list, and a list with an element replaced is one.
LEMMA ActsListed ==
  ASSUME QueueTypes
  PROVE  /\ Len(acts) \in Nat /\ DOMAIN acts = 1 .. Len(acts) /\ published \in 0 .. Len(acts)
         /\ acts = [a \in 1 .. Len(acts) |-> acts[a]]
BY DEF QueueTypes

LEMMA ListOf ==
  ASSUME NEW n \in Nat, NEW list, list = [i \in 1 .. n |-> list[i]]
  PROVE  list \in Seq(Range(list)) /\ Len(list) = n /\ DOMAIN list = 1 .. n
<1>1. DOMAIN list = 1 .. n
  OBVIOUS
<1>2. \A i \in 1 .. n : list[i] \in Range(list)
  BY <1>1 DEF Range
<1>3. list \in [1 .. n -> Range(list)]
  BY <1>2
<1> QED BY <1>1, <1>3

\* A position of the end of a list of n is one of the list.
LEMMA Shifted ==
  ASSUME NEW n \in Nat, NEW m \in Nat, n - m >= 0, NEW i \in 1 .. m
  PROVE  n - m + i \in 1 .. n
OBVIOUS

\* What is in flight on a route is on its lane.
LEMMA AloftOnLane ==
  ASSUME QueueTypes, Tracks, NEW r \in Routes, NEW i \in DOMAIN inflight[r]
  PROVE  /\ Landing(r) + i \in DOMAIN lane[r]
         /\ inflight[r][i] = lane[r][Landing(r) + i]
         /\ inflight[r][i] \in 1 .. published
<1>1. /\ Len(lane[r]) \in Nat /\ DOMAIN lane[r] = 1 .. Len(lane[r])
      /\ Len(inflight[r]) \in Nat /\ i \in 1 .. Len(inflight[r])
  BY DEF QueueTypes
<1>2. /\ Len(lane[r]) - Len(inflight[r]) >= 0
      /\ inflight[r][i] = lane[r][Landing(r) + i]
  BY DEF Tracks, Landing
<1>3. Len(lane[r]) - Len(inflight[r]) + i \in 1 .. Len(lane[r])
  BY <1>1, <1>2, Shifted
<1>4. Landing(r) + i \in DOMAIN lane[r]
  BY <1>1, <1>3 DEF Landing
<1>5. lane[r][Landing(r) + i] \in 1 .. published
  BY <1>4 DEF Tracks
<1> QED BY <1>2, <1>4, <1>5

\* The background copies in flight on a route are finitely many, and weigh something.
LEMMA LoadsFinite ==
  ASSUME QueueTypes, Tracks, NEW r \in Routes
  PROVE  /\ Loads(r) \subseteq DOMAIN acts /\ IsFiniteSet(Loads(r))
         /\ \A a \in Loads(r) : Weights[a] \in Nat \ {0}
<1>1. \A i \in DOMAIN inflight[r] : inflight[r][i] \in DOMAIN acts
  BY AloftOnLane, ActsListed
<1>2. Loads(r) \subseteq DOMAIN acts
  BY <1>1 DEF Loads, Range
<1>3. IsFiniteSet(DOMAIN acts)
  BY ActsListed, FS_Interval
<1>4. IsFiniteSet(Loads(r))
  BY <1>2, <1>3, FS_Subset
<1>5. ASSUME NEW a \in Loads(r)
      PROVE  Weights[a] \in Nat \ {0}
  <2>1. a \in DOMAIN acts /\ acts[a].background /\ acts[a].obj \in Objects
    BY <1>2 DEF Loads, QueueTypes
  <2>2. plan.size \in [Objects -> Nat \ {0}]
    BY PlansAssumption DEF QueueTypes, Plan
  <2> QED BY <2>1, <2>2 DEF Weights, Bytes
<1> QED BY <1>2, <1>4, <1>5

\* What is charged does not depend on the actions that are not in flight.
LEMMA SameCharge ==
  ASSUME QueueTypes, Tracks, Keeps, NEW r \in Routes, NEW S, S \subseteq Loads(r)
  PROVE  Total(Weights', S) = Total(Weights, S)
<1>1. IsFiniteSet(S) /\ S \subseteq DOMAIN acts
  BY LoadsFinite, FS_Subset
<1>2. ASSUME NEW a \in S
      PROVE  Weights'[a] = Weights[a]
  BY <1>1, KeptCopies DEF Weights
<1> QED BY <1>1, <1>2, TotalAgree

\* A step that moves nothing onto or off a lane, and finishes nothing.
LEMMA TracksStay ==
  ASSUME QueueTypes, Tracks, Keeps, lane' = lane, inflight' = inflight,
         published' \in Nat, published <= published',
         \A a \in DOMAIN acts :
           acts'[a].state = acts[a].state /\ (Queued(a) => (Done(a)' <=> Done(a))),
         \A a \in DOMAIN acts' \ DOMAIN acts : acts'[a].state = "QUEUED"
  PROVE  Tracks'
<1>1. \A r \in Routes : Landing(r)' = Landing(r)
  BY DEF Landing
<1>2. ASSUME NEW r \in Routes, NEW i \in DOMAIN lane[r]
      PROVE  /\ lane[r][i] \in DOMAIN acts /\ lane[r][i] \in 1 .. published'
             /\ lane[r][i] \in 1 .. published
  BY ActsListed DEF Tracks
<1>3. ASSUME NEW r \in Routes
      PROVE  (/\ Landing(r) >= 0
              /\ \A i \in DOMAIN inflight[r] : inflight[r][i] = lane[r][Landing(r) + i])'
  BY <1>1 DEF Tracks
<1>4. ASSUME NEW r \in Routes, NEW i \in DOMAIN lane[r]
      PROVE  (LET a == lane[r][i] IN
              /\ a \in 1 .. published /\ Queued(a) /\ Route(a) = r
              /\ Done(a) => i = Landing(r)
              /\ acts[a].state = IF i <= Landing(r) /\ ~Done(a) THEN "FINISHED" ELSE "IN_FLIGHT")'
  <2>0. PICK a : a = lane[r][i]
    OBVIOUS
  <2>1. a \in DOMAIN acts /\ a \in 1 .. published'
    BY <1>2, <2>0
  <2>2. /\ Queued(a) /\ Route(a) = r
        /\ Done(a) => i = Landing(r)
        /\ acts[a].state = IF i <= Landing(r) /\ ~Done(a) THEN "FINISHED" ELSE "IN_FLIGHT"
    BY <2>0 DEF Tracks
  <2>3. Queued(a)' = Queued(a) /\ Route(a)' = Route(a)
    BY <2>1, KeptCopies
  <2>4. acts'[a].state = acts[a].state /\ (Done(a)' <=> Done(a))
    BY <2>1, <2>2
  <2>5. lane'[r][i] = a /\ Landing(r)' = Landing(r)
    BY <1>1, <2>0
  <2>6. acts'[a].state = IF i <= Landing(r) /\ ~Done(a)' THEN "FINISHED" ELSE "IN_FLIGHT"
    BY <2>2, <2>4
  <2>7. Done(a)' => i = Landing(r)
    BY <2>2, <2>4 DEF Done
  <2>8. Queued(a)' /\ Route(a)' = r
    BY <2>2, <2>3 DEF Queued, Route
  <2> QED BY <2>1, <2>5, <2>6, <2>7, <2>8 DEF Queued, Route, Done
<1>5. ASSUME NEW r \in Routes, NEW i \in DOMAIN lane[r], NEW j \in DOMAIN lane[r], i < j,
             acts'[lane[r][i]].background = acts'[lane[r][j]].background
      PROVE  lane[r][i] < lane[r][j]
  <2>1. acts[lane[r][i]].background = acts[lane[r][j]].background
    BY <1>2, <1>5, KeptCopies
  <2> QED BY <1>5, <2>1 DEF Tracks
<1>6. ASSUME NEW a \in DOMAIN acts', acts'[a].state = "IN_FLIGHT"
      PROVE  Queued(a)' /\ On(a)'
  <2>1. a \in DOMAIN acts /\ acts[a].state = "IN_FLIGHT"
    BY <1>6
  <2>2. Queued(a) /\ On(a)
    BY <2>1 DEF Tracks
  <2> QED BY <2>1, <2>2, KeptCopies DEF On
<1> QED BY <1>3, <1>4, <1>5, <1>6 DEF Tracks

\* A step that numbers nothing and moves nothing onto a lane.
LEMMA NumbersStay ==
  ASSUME Numbers, Keeps, lane' = lane, submitted' = submitted, sequences' = sequences,
         \A a \in DOMAIN acts : acts'[a].sequence = acts[a].sequence,
         \A a \in DOMAIN acts' \ DOMAIN acts : acts'[a].sequence = 0
  PROVE  Numbers'
<1>1. ASSUME NEW a \in DOMAIN acts
      PROVE  On(a)' = On(a)
  BY KeptCopies DEF On
<1>2. ASSUME NEW a \in DOMAIN acts', 0 < acts'[a].sequence
      PROVE  a \in DOMAIN acts /\ acts'[a].sequence = acts[a].sequence
  BY <1>2
<1> QED BY <1>1, <1>2 DEF Numbers

\* A step that takes no copy up or down.
LEMMA WindowStays ==
  ASSUME QueueTypes, Tracks, Window, Keeps, inflight' = inflight, charged' = charged
  PROVE  Window'
<1> SUFFICES ASSUME NEW r \in Routes
             PROVE  /\ charged'[r] = Total(Weights', Loads(r)')
                    /\ plan'.window # 0 =>
                         Cardinality(Loads(r)') <= 1 \/ charged'[r] <= plan'.window
  BY DEF Window
<1>1. \A i \in DOMAIN inflight[r] : inflight[r][i] \in DOMAIN acts
  BY AloftOnLane, ActsListed
<1>2. Loads(r)' = Loads(r)
  BY <1>1, KeptCopies DEF Loads, Range
<1>3. Total(Weights', Loads(r)) = Total(Weights, Loads(r))
  BY SameCharge
<1> QED BY <1>2, <1>3 DEF Window, Keeps

\* A step after which the worker has nothing in hand, or what it had.
LEMMA RowsStay ==
  ASSUME QueueTypes, Rows, Tracks, Keeps, lane' = lane, planned' = planned, waiting' = waiting,
         worker'.at = "lane" => worker' = worker /\ worker.action \in DOMAIN acts,
         published' \in Nat, published <= published',
         \A a \in DOMAIN acts : Queued(a) /\ acts[a].state = "QUEUED" => acts'[a].state = "QUEUED"
  PROVE  Rows'
<1> SUFFICES ASSUME NEW r \in Routes, NEW b \in BOOLEAN, NEW i \in DOMAIN Queue(r, b)
             PROVE  (LET a == Queue(r, b)[i] IN
                     /\ a \in 1 .. published /\ Queued(a) /\ Route(a) = r
                     /\ acts[a].background = b /\ acts[a].state = "QUEUED"
                     /\ \A j \in DOMAIN Queue(r, b) : i < j => a < Queue(r, b)[j]
                     /\ \A j \in DOMAIN lane[r] :
                          acts[lane[r][j]].background = b => lane[r][j] < a
                     /\ /\ worker.at = "lane" /\ Route(worker.action) = r
                        /\ acts[worker.action].background = b
                        => worker.action < a)'
  BY DEF Rows, Queue
<1>0. PICK a : a = Queue(r, b)[i]
  OBVIOUS
<1>1. /\ a \in 1 .. published /\ Queued(a) /\ Route(a) = r
      /\ acts[a].background = b /\ acts[a].state = "QUEUED"
      /\ \A j \in DOMAIN Queue(r, b) : i < j => a < Queue(r, b)[j]
      /\ \A j \in DOMAIN lane[r] : acts[lane[r][j]].background = b => lane[r][j] < a
      /\ /\ worker.at = "lane" /\ Route(worker.action) = r /\ acts[worker.action].background = b
         => worker.action < a
  BY <1>0 DEF Rows
<1>2. Queue(r, b)' = Queue(r, b)
  BY DEF Queue
<1>3. a \in DOMAIN acts /\ a \in 1 .. published'
  BY <1>1, ActsListed
<1>4. \A j \in DOMAIN lane[r] : lane[r][j] \in DOMAIN acts
  BY ActsListed DEF Tracks
<1>5. Queued(a)' = Queued(a) /\ Route(a)' = Route(a) /\ acts'[a].background = acts[a].background
  BY <1>3, KeptCopies
<1>8. acts'[a].state = "QUEUED"
  BY <1>1, <1>3
<1>6. \A j \in DOMAIN lane[r] : acts'[lane[r][j]].background = b => lane[r][j] < a
  BY <1>1, <1>4, KeptCopies
<1>7. ASSUME (worker.at = "lane" /\ Route(worker.action) = r /\ acts[worker.action].background = b)'
      PROVE  worker'.action < a
  <2>1. worker' = worker /\ worker.action \in DOMAIN acts
    BY <1>7
  <2>2. Route(worker.action) = r /\ acts[worker.action].background = b
    BY <1>7, <2>1, KeptCopies
  <2> QED BY <1>1, <1>7, <2>1, <2>2
<1> QED BY <1>0, <1>1, <1>2, <1>3, <1>5, <1>6, <1>7, <1>8 DEF Queued, Route

\* The worker goes on with what it has in hand.
LEMMA HandStays ==
  ASSUME QueueTypes, Hand, Tracks, Keeps, worker' = worker, lane' = lane, charged' = charged,
         submitted' = submitted, published' \in Nat, published <= published',
         \A a \in DOMAIN acts : /\ acts'[a].state = acts[a].state
                                /\ a <= published => acts'[a].sequence = acts[a].sequence
  PROVE  Hand'
<1>0. PICK a : a = worker.action
  OBVIOUS
<1>1. CASE worker.at = "idle"
  BY <1>1 DEF Hand
<1>2. CASE worker.at # "idle"
  <2>1. a \in 1 .. published /\ a \in DOMAIN acts /\ a \in 1 .. published' /\ a <= published
    BY <1>0, <1>2, ActsListed DEF Hand
  <2>2. /\ Queued(a)' = Queued(a) /\ Route(a)' = Route(a) /\ Bytes(a)' = Bytes(a)
        /\ acts'[a].background = acts[a].background
    BY <2>1, KeptCopies
  <2>3. acts'[a].state = acts[a].state /\ acts'[a].sequence = acts[a].sequence
    BY <2>1
  <2>4. Admits(Route(a), Bytes(a))' = Admits(Route(a), Bytes(a))
    BY <2>2 DEF Admits, Keeps
  <2>5. Route(a) \in Routes
    BY DEF Route, Routes
  <2>6. \A j \in DOMAIN lane[Route(a)] :
          acts'[lane[Route(a)][j]].background = acts[lane[Route(a)][j]].background
    <3>1. \A j \in DOMAIN lane[Route(a)] : lane[Route(a)][j] \in DOMAIN acts
      BY <2>5, ActsListed DEF Tracks
    <3> QED BY <3>1, KeptCopies
  <2>7. worker.at = "done" /\ Queued(a) => acts[a].state = "IN_FLIGHT"
    BY <1>0 DEF Hand
  <2>8. worker.at = "lane" =>
          /\ Queued(a) /\ acts[a].state = "QUEUED"
          /\ acts[a].sequence \in {0, submitted + 1}
          /\ acts[a].background => Admits(Route(a), Bytes(a))
          /\ \A j \in DOMAIN lane[Route(a)] :
               acts[lane[Route(a)][j]].background = acts[a].background => lane[Route(a)][j] < a
    BY <1>0 DEF Hand
  <2>9. (worker.at = "done" /\ Queued(a) => acts[a].state = "IN_FLIGHT")'
    BY <2>2, <2>3, <2>7 DEF Queued
  <2>10. (worker.at = "lane" =>
            /\ Queued(a) /\ acts[a].state = "QUEUED"
            /\ acts[a].sequence \in {0, submitted + 1}
            /\ acts[a].background => Admits(Route(a), Bytes(a))
            /\ \A j \in DOMAIN lane[Route(a)] :
                 acts[lane[Route(a)][j]].background = acts[a].background => lane[Route(a)][j] < a)'
    BY <2>2, <2>3, <2>4, <2>6, <2>8
  <2> QED BY <1>0, <2>1, <2>9, <2>10 DEF Hand, Queued, Route, Admits, Bytes
<1> QED BY <1>1, <1>2

\* What the discipline says of the lanes.
LEMMA DisciplineOrders ==
  ASSUME Discipline
  PROVE  LanesInOrder
<1> USE DEF Discipline
<1>1. ASSUME NEW r \in Routes, NEW i \in DOMAIN lane[r], NEW j \in DOMAIN lane[r], i < j,
             acts[lane[r][i]].background = acts[lane[r][j]].background
      PROVE  lane[r][i] < lane[r][j]
  BY <1>1 DEF Tracks
<1>2. ASSUME NEW r \in Routes, NEW i \in DOMAIN lane[r], NEW j \in DOMAIN lane[r], i < j,
             acts[lane[r][j]].state = "FINISHED"
      PROVE  acts[lane[r][i]].state = "FINISHED"
  <2>1. i \in Int /\ j \in Int /\ Landing(r) \in Int
    BY DEF QueueTypes, Landing
  <2>2. j <= Landing(r)
    BY <1>2 DEF Tracks
  <2>3. i # Landing(r) /\ i <= Landing(r)
    BY <1>2, <2>1, <2>2
  <2> QED BY <2>3 DEF Tracks
<1>3. ASSUME NEW a \in DOMAIN acts, NEW b \in DOMAIN acts,
             0 < acts[a].sequence, acts[a].sequence < acts[b].sequence,
             b \in Range(lane["evict"]) \cup Range(lane["fetch"])
      PROVE  a \in Range(lane["evict"]) \cup Range(lane["fetch"])
  <2>1. acts[a].sequence \in Nat /\ acts[b].sequence \in Nat /\ submitted \in Nat
    BY DEF QueueTypes
  <2>2. On(b)
    <3>1. PICK r \in Routes : b \in Range(lane[r])
      BY <1>3 DEF Routes
    <3>2. PICK i \in DOMAIN lane[r] : lane[r][i] = b
      BY <3>1 DEF Range
    <3>3. Route(b) = r
      BY <3>2 DEF Tracks
    <3> QED BY <3>2, <3>3 DEF On
  <2>3. acts[b].sequence <= submitted
    BY <1>3, <2>1, <2>2 DEF Numbers
  <2>4. On(a)
    BY <1>3, <2>1, <2>3 DEF Numbers
  <2>5. Route(a) \in Routes
    BY DEF Route, Routes
  <2> QED BY <2>4, <2>5 DEF On, Range, Routes
<1>4. ASSUME NEW r \in Routes, plan.window # 0
      PROVE  LET background == {a \in Range(inflight[r]) : acts[a].background} IN
             \/ Cardinality(background) <= 1
             \/ Total([a \in background |-> Bytes(a)], background) <= plan.window
  <2>1. Cardinality(Loads(r)) <= 1 \/ Total(Weights, Loads(r)) <= plan.window
    BY <1>4 DEF Window
  <2>2. IsFiniteSet(Loads(r)) /\ Loads(r) \subseteq DOMAIN acts
    BY LoadsFinite
  <2>3. Total([a \in Loads(r) |-> Bytes(a)], Loads(r)) = Total(Weights, Loads(r))
    <3>1. \A a \in Loads(r) : [c \in Loads(r) |-> Bytes(c)][a] = Weights[a]
      BY <2>2 DEF Weights
    <3> QED BY <2>2, <3>1, TotalAgree
  <2> QED BY <2>1, <2>3 DEF Loads
<1> QED BY <1>1, <1>2, <1>3, <1>4 DEF LanesInOrder

\* A list with one more element.
LEMMA Lengthened ==
  ASSUME NEW list, list \in Seq(Range(list)), NEW e, NEW longer, longer = Append(list, e)
  PROVE  /\ Len(list) \in Nat /\ DOMAIN list = 1 .. Len(list)
         /\ longer \in Seq(Range(longer)) /\ Len(longer) = Len(list) + 1
         /\ DOMAIN longer = 1 .. Len(list) + 1
         /\ longer[Len(list) + 1] = e /\ \A i \in 1 .. Len(list) : longer[i] = list[i]
<1>0. PICK S : S = Range(list) \cup {e}
  OBVIOUS
<1>1. list \in Seq(S) /\ e \in S
  BY <1>0
<1>2. Len(list) \in Nat /\ DOMAIN list = 1 .. Len(list)
  OBVIOUS
<1>3. longer \in Seq(S) /\ Len(longer) = Len(list) + 1
      /\ longer[Len(list) + 1] = e /\ \A i \in 1 .. Len(list) : longer[i] = list[i]
  BY <1>1, AppendProperties
<1>4. longer = [i \in 1 .. Len(list) + 1 |-> longer[i]]
  <2>0. longer \in Seq(S)
    BY <1>3
  <2>1. longer = [i \in 1 .. Len(longer) |-> longer[i]]
    BY ONLY <2>0
  <2> QED BY <1>3, <2>1
<1> QED BY <1>2, <1>3, <1>4, ListOf

\* A boundary schedules one more action.
LEMMA ScheduledInOrder ==
  ASSUME Discipline, NEW kind, NEW o \in Objects, NEW pred, InstantiateAction(kind, o, pred)
  PROVE  Discipline'
<1> USE DEF Discipline
<1> DEFINE n == Len(acts)
<1>0. PICK new : new = Scheduled(kind, o, pred)
  OBVIOUS
<1>1. /\ boundary.at = "batch" /\ acts' = Append(acts, new)
      /\ boundary' = [boundary EXCEPT !.batch = Append(@, n + 1)]
      /\ UNCHANGED << planned, waiting, inflight, charged, submitted, sequences, worker,
                      published, lane, plan >>
  BY <1>0 DEF InstantiateAction, device
<1>2. /\ n \in Nat /\ DOMAIN acts = 1 .. n /\ DOMAIN acts' = 1 .. n + 1 /\ Len(acts') = n + 1
      /\ acts'[n + 1] = new /\ \A a \in 1 .. n : acts'[a] = acts[a]
      /\ acts' \in Seq(Range(acts'))
  <2>1. acts \in Seq(Range(acts))
    BY DEF QueueTypes
  <2>2. acts' = Append(acts, new)
    BY <1>1
  <2>3. n \in Nat /\ DOMAIN acts = 1 .. n /\ DOMAIN acts' = 1 .. n + 1
    BY ONLY <2>1, <2>2, Lengthened
  <2>4. Len(acts') = n + 1 /\ acts'[n + 1] = new
    BY ONLY <2>1, <2>2, Lengthened
  <2>5. \A a \in 1 .. n : acts'[a] = acts[a]
    BY ONLY <2>1, <2>2, Lengthened
  <2>6. acts' \in Seq(Range(acts'))
    BY ONLY <2>1, <2>2, Lengthened
  <2> QED BY <2>3, <2>4, <2>5, <2>6
<1>3. /\ DOMAIN new = Fields /\ new.obj = o /\ new.background = boundary.background
      /\ new.state = "QUEUED" /\ new.sequence = 0
  BY <1>0 DEF Scheduled, Fields
<1>4. /\ boundary.background \in BOOLEAN /\ boundary.batch \in Seq(Nat)
      /\ boundary'.at = "batch" /\ boundary'.batch = Append(boundary.batch, n + 1)
      /\ boundary' \in [at : {"idle", "task", "batch", "await"}, background : BOOLEAN,
                        update : Objects \cup {None}, batch : Seq(Nat)]
  <2>1. Append(boundary.batch, n + 1) \in Seq(Nat)
    BY <1>2 DEF QueueTypes
  <2> HIDE DEF n
  <2> QED BY <1>1, <2>1 DEF QueueTypes
<1> HIDE DEF n
<1>5. Keeps
  BY <1>1, <1>2 DEF Keeps
<1>6. published \in Nat /\ published <= n /\ published' = published
  BY <1>1, <1>2 DEF QueueTypes, n
<1>7. QueueTypes'
  <2>1. ASSUME NEW a \in DOMAIN acts'
        PROVE  /\ DOMAIN acts'[a] = Fields /\ acts'[a].obj \in Objects
               /\ acts'[a].background \in BOOLEAN /\ acts'[a].sequence \in Nat
    <3>1. a = n + 1 \/ (a \in DOMAIN acts /\ acts'[a] = acts[a])
      BY <1>2
    <3> QED BY <1>2, <1>3, <1>4, <3>1 DEF QueueTypes
  <2>2. published' \in 0 .. Len(acts')
    BY <1>2, <1>6
  <2> QED BY <1>1, <1>2, <1>4, <2>1, <2>2 DEF QueueTypes
<1>8. Batched'
  <2>1. Range(boundary'.batch) = published' + 1 .. Len(acts')
    <3>1. Range(boundary.batch) = published + 1 .. n
      BY <1>1 DEF Batched, n
    <3>2. Range(boundary'.batch) = Range(boundary.batch) \cup {n + 1}
      <4>1. boundary.batch \in Seq(Nat) /\ n + 1 \in Nat
        BY <1>2, <1>4
      <4>2. /\ Len(boundary'.batch) = Len(boundary.batch) + 1
            /\ \A i \in 1 .. Len(boundary.batch) : boundary'.batch[i] = boundary.batch[i]
            /\ boundary'.batch[Len(boundary.batch) + 1] = n + 1
            /\ DOMAIN boundary'.batch = 1 .. Len(boundary.batch) + 1
            /\ DOMAIN boundary.batch = 1 .. Len(boundary.batch) /\ Len(boundary.batch) \in Nat
        BY <1>4, <4>1, AppendProperties
      <4> QED BY <4>2 DEF Range
    <3> QED BY <1>2, <1>6, <3>1, <3>2
  <2>2. ASSUME NEW a \in published' + 1 .. Len(acts')
        PROVE  acts'[a].state = "QUEUED" /\ acts'[a].sequence = 0
    <3>1. a = n + 1 \/ (a \in published + 1 .. n /\ a \in 1 .. n)
      BY <1>2, <1>6
    <3> QED BY <1>2, <1>3, <3>1 DEF Batched, n
  <2> QED BY <1>4, <2>1, <2>2 DEF Batched
<1>9. \A a \in DOMAIN acts' \ DOMAIN acts : acts'[a] = new
  BY <1>2
<1>10. \A a \in DOMAIN acts : acts'[a] = acts[a] /\ (Done(a)' <=> Done(a))
  BY <1>1, <1>2 DEF Done
<1>11. Rows'
  <2>1. worker.at = "lane" => worker.action \in DOMAIN acts
    BY <1>2, <1>6 DEF Hand
  <2> QED BY <1>1, <1>5, <1>6, <1>10, <2>1, RowsStay
<1>12. Tracks'
  BY <1>1, <1>3, <1>5, <1>6, <1>9, <1>10, TracksStay
<1>13. Numbers' /\ Window'
  BY <1>1, <1>3, <1>5, <1>9, <1>10, NumbersStay, WindowStays
<1>14. Hand'
  BY <1>1, <1>5, <1>6, <1>10, HandStays
<1> QED BY <1>7, <1>8, <1>11, <1>12, <1>13, <1>14

\* The collective copies of a batch are numbered apart, from one upwards.
LEMMA PlacesDistinct ==
  ASSUME Batched, QueueTypes, boundary.at = "batch"
  PROVE  /\ Collectives \subseteq published + 1 .. Len(acts)
         /\ Cardinality(Collectives) \in Nat
         /\ \A a \in Collectives : Place(a, "evict") \in 1 .. Cardinality(Collectives)
         /\ \A a, b \in Collectives : Place(a, "evict") = Place(b, "evict") => a = b
<1> DEFINE C == Collectives
           Upto(a) == {b \in C : IF Route(b) = Route(a) THEN b <= a ELSE Route(b) = "evict"}
<1>1. published \in Int /\ Len(acts) \in Int /\ published \in Nat
  BY ActsListed
<1>2. C \subseteq published + 1 .. Len(acts)
  BY DEF Batched, Collectives
<1>3. IsFiniteSet(C)
  <2>1. IsFiniteSet(published + 1 .. Len(acts))
    BY <1>1, FS_Interval
  <2> HIDE DEF C
  <2> QED BY <1>2, <2>1, FS_Subset
<1>4. \A a \in C : a \in Int /\ Route(a) \in {"fetch", "evict"}
  BY <1>1, <1>2 DEF Route
<1>5. \A a \in C : Place(a, "evict") = Cardinality(Upto(a))
  BY DEF Place
<1> HIDE DEF C
<1>6. Cardinality(C) \in Nat
  BY <1>3, FS_CardinalityType
<1>7. ASSUME NEW a \in C
      PROVE  IsFiniteSet(Upto(a)) /\ Cardinality(Upto(a)) \in 1 .. Cardinality(C)
  <2>1. Upto(a) \in SUBSET C /\ a \in Upto(a)
    BY <1>4
  <2> HIDE DEF Upto
  <2>2. IsFiniteSet(Upto(a)) /\ Cardinality(Upto(a)) <= Cardinality(C)
    BY <1>3, <2>1, FS_Subset
  <2>3. Cardinality(Upto(a)) \in Nat /\ Cardinality(Upto(a)) # 0
    BY <2>1, <2>2, FS_CardinalityType, FS_EmptySet
  <2> QED BY <1>6, <2>2, <2>3
<1>8. ASSUME NEW a \in C, NEW b \in C, Upto(a) \subseteq Upto(b), b \notin Upto(a)
      PROVE  Cardinality(Upto(a)) # Cardinality(Upto(b))
  <2>1. b \in Upto(b) /\ IsFiniteSet(Upto(b))
    BY <1>4, <1>7
  <2> HIDE DEF Upto
  <2> QED BY <1>8, <2>1, FS_Subset
<1>9. ASSUME NEW a \in C, NEW b \in C, a # b
      PROVE  Cardinality(Upto(a)) # Cardinality(Upto(b))
  <2>1. \/ Upto(a) \subseteq Upto(b) /\ b \notin Upto(a)
        \/ Upto(b) \subseteq Upto(a) /\ a \notin Upto(b)
    <3>1. CASE Route(a) = Route(b)
      <4>1. CASE a < b
        BY <1>4, <3>1, <4>1
      <4>2. CASE b < a
        BY <1>4, <3>1, <4>2
      <4>3. a < b \/ b < a
        BY <1>4, <1>9
      <4> QED BY <4>1, <4>2, <4>3
    <3>2. CASE Route(a) = "evict" /\ Route(b) = "fetch"
      BY <1>4, <3>2
    <3>3. CASE Route(a) = "fetch" /\ Route(b) = "evict"
      BY <1>4, <3>3
    <3> QED BY <1>4, <3>1, <3>2, <3>3
  <2> HIDE DEF Upto
  <2> QED BY <1>8, <2>1
<1> QED
  <2> HIDE DEF Upto
  <2> QED BY <1>2, <1>5, <1>6, <1>7, <1>9 DEF C

\* A queue and what joins it.
LEMMA Joined ==
  ASSUME NEW front \in Seq(Nat), NEW rear \in Seq(Nat), NEW all, all = front \o rear
  PROVE  /\ all \in Seq(Nat)
         /\ \A i \in DOMAIN all :
              \/ i \in DOMAIN front /\ all[i] = front[i]
              \/ /\ i > Len(front) /\ i - Len(front) \in DOMAIN rear
                 /\ all[i] = rear[i - Len(front)]
<1>1. all \in Seq(Nat) /\ Len(all) = Len(front) + Len(rear)
  BY ConcatProperties
<1>2. \A i \in 1 .. Len(all) :
        all[i] = IF i <= Len(front) THEN front[i] ELSE rear[i - Len(front)]
  BY ConcatProperties
<1>3. Len(front) \in Nat /\ Len(rear) \in Nat
  OBVIOUS
<1>4. DOMAIN all = 1 .. Len(all) /\ DOMAIN front = 1 .. Len(front) /\ DOMAIN rear = 1 .. Len(rear)
  BY <1>1
<1> QED BY <1>1, <1>2, <1>3, <1>4

\* What of a batch joins a queue, in the order it joins.
Joining(r, b) ==
  {a \in Range(boundary.batch) : Queued(a) /\ Route(a) = r /\ acts[a].background = b}
LEMMA JoiningRises ==
  ASSUME QueueTypes, Batched, boundary.at = "batch", NEW r, NEW b
  PROVE  /\ Ascending(Joining(r, b)) \in Seq(Nat)
         /\ \A i \in DOMAIN Ascending(Joining(r, b)) :
              /\ Ascending(Joining(r, b))[i] \in Joining(r, b)
              /\ Ascending(Joining(r, b))[i] \in published + 1 .. Len(acts)
         /\ \A i, j \in DOMAIN Ascending(Joining(r, b)) :
              i < j => Ascending(Joining(r, b))[i] < Ascending(Joining(r, b))[j]
<1>0. PICK S : S = Joining(r, b)
  OBVIOUS
<1>1. published \in Nat /\ Len(acts) \in Nat
  BY ActsListed
<1>2. S \subseteq published + 1 .. Len(acts)
  BY <1>0 DEF Batched, Joining
<1>3. IsFiniteSet(S)
  <2>1. IsFiniteSet(published + 1 .. Len(acts))
    BY <1>1, FS_Interval
  <2> QED BY <1>2, <2>1, FS_Subset
<1>4. S \subseteq Nat
  BY <1>1, <1>2
<1>5. /\ Ascending(S) \in Seq(S)
      /\ \A i, j \in DOMAIN Ascending(S) : i < j => Ascending(S)[i] < Ascending(S)[j]
  BY <1>3, <1>4, AscendingRises
<1>6. \A i \in DOMAIN Ascending(S) : Ascending(S)[i] \in S
  BY <1>5
<1>7. Ascending(S) \in Seq(Nat)
  <2>1. PICK q : q = Ascending(S)
    OBVIOUS
  <2>2. q \in Seq(S)
    BY <1>5, <2>1
  <2>3. q = [i \in 1 .. Len(q) |-> q[i]] /\ Len(q) \in Nat /\ \A i \in 1 .. Len(q) : q[i] \in S
    BY ONLY <2>2
  <2>4. q \in [1 .. Len(q) -> Nat]
    BY <1>4, <2>3
  <2>5. q \in Seq(Nat)
    BY <2>3, <2>4
  <2> QED BY <2>1, <2>5
<1> QED BY <1>0, <1>2, <1>5, <1>6, <1>7

\* A boundary publishes its batch: its collective copies get their numbers, and its
\* copies join the queues.
LEMMA PublishedInOrder ==
  ASSUME Discipline, PublishBatch
  PROVE  Discipline'
<1> USE DEF Discipline
<1>1. /\ boundary.at = "batch" /\ acts' = Numbered /\ published' = Len(acts)
      /\ sequences' = sequences + Cardinality(Collectives)
      /\ UNCHANGED << inflight, charged, submitted, worker, lane, plan >>
      /\ boundary' = IF boundary.batch = << >> THEN Outside ELSE [boundary EXCEPT !.at = "await"]
  BY DEF PublishBatch, device
<1>2. /\ Len(acts) \in Nat /\ DOMAIN acts = 1 .. Len(acts) /\ published \in 0 .. Len(acts)
  BY ActsListed
<1>3. /\ Collectives \subseteq published + 1 .. Len(acts)
      /\ Cardinality(Collectives) \in Nat
      /\ \A a \in Collectives : Place(a, "evict") \in 1 .. Cardinality(Collectives)
      /\ \A a, b \in Collectives : Place(a, "evict") = Place(b, "evict") => a = b
  BY <1>1, PlacesDistinct
<1>4. /\ acts' \in Seq(Range(acts')) /\ Len(acts') = Len(acts) /\ DOMAIN acts' = DOMAIN acts
  <2>1. acts' = [a \in 1 .. Len(acts) |-> acts'[a]]
    BY <1>1, <1>2 DEF Numbered
  <2> QED BY <1>2, <2>1, ListOf
<1>5. ASSUME NEW a \in DOMAIN acts
      PROVE  acts'[a] = IF a \in Collectives
                        THEN [acts[a] EXCEPT !.sequence = sequences + Place(a, "evict")]
                        ELSE acts[a]
  BY <1>1 DEF Numbered
<1>6. ASSUME NEW a \in DOMAIN acts
      PROVE  /\ DOMAIN acts'[a] = Fields /\ acts'[a].obj = acts[a].obj
             /\ acts'[a].kind = acts[a].kind /\ acts'[a].background = acts[a].background
             /\ acts'[a].skips = acts[a].skips /\ acts'[a].state = acts[a].state
             /\ acts'[a].sequence = IF a \in Collectives THEN sequences + Place(a, "evict")
                                    ELSE acts[a].sequence
  <2>1. DOMAIN acts[a] = Fields
    BY DEF QueueTypes
  <2> QED BY <1>5, <2>1 DEF Fields
<1>7. Keeps
  BY <1>1, <1>4, <1>6 DEF Keeps
<1>8. published' \in Nat /\ published <= published' /\ published \in Nat
  BY <1>1, <1>2
<1>9. \A a \in DOMAIN acts : /\ acts'[a].state = acts[a].state /\ (Done(a)' <=> Done(a))
                             /\ a <= published => acts'[a].sequence = acts[a].sequence
  <2>1. \A a \in DOMAIN acts : a <= published => a \notin Collectives
    BY <1>2, <1>3
  <2> QED BY <1>1, <1>6, <2>1 DEF Done
<1>10. Tracks'
  BY <1>1, <1>4, <1>7, <1>8, <1>9, TracksStay
<1>11. Window' /\ Hand'
  BY <1>1, <1>4, <1>7, <1>8, <1>9, WindowStays, HandStays
<1>12. \A r \in Routes, b \in BOOLEAN :
         /\ Queue(r, b)' = Queue(r, b) \o Ascending(Joining(r, b))
         /\ Queue(r, b) \in Seq(Nat)
  BY DEF PublishBatch, Enqueued, Joining, Queue, QueueTypes
<1>13. QueueTypes'
  <2>1. ASSUME NEW a \in DOMAIN acts'
        PROVE  /\ DOMAIN acts'[a] = Fields /\ acts'[a].obj \in Objects
               /\ acts'[a].background \in BOOLEAN /\ acts'[a].sequence \in Nat
    <3>1. a \in DOMAIN acts /\ acts[a].obj \in Objects /\ acts[a].background \in BOOLEAN
          /\ acts[a].sequence \in Nat /\ sequences \in Nat
      BY <1>4 DEF QueueTypes
    <3>2. a \in Collectives => sequences + Place(a, "evict") \in Nat
      BY <1>3, <3>1
    <3> QED BY <1>6, <3>1, <3>2
  <2>2. planned' \in [Routes -> Seq(Nat)] /\ waiting' \in [Routes -> Seq(Nat)]
    <3>1. \A r \in Routes, b \in BOOLEAN : Queue(r, b)' \in Seq(Nat)
      BY <1>1, <1>12, JoiningRises, Joined
    <3>2. \A r \in Routes : planned'[r] \in Seq(Nat) /\ waiting'[r] \in Seq(Nat)
      BY <3>1 DEF Queue
    <3>3. /\ planned' = [r \in Routes |-> planned'[r]] /\ waiting' = [r \in Routes |-> waiting'[r]]
      BY DEF PublishBatch, Enqueued
    <3> QED BY <3>2, <3>3
  <2>3. boundary' \in [at : {"idle", "task", "batch", "await"}, background : BOOLEAN,
                       update : Objects \cup {None}, batch : Seq(Nat)]
    BY <1>1 DEF QueueTypes, Outside
  <2>4. sequences' \in Nat /\ published' \in 0 .. Len(acts')
    BY <1>1, <1>2, <1>3, <1>4 DEF QueueTypes
  <2> QED BY <1>1, <1>4, <2>1, <2>2, <2>3, <2>4 DEF QueueTypes
<1>14. Batched'
  <2>1. boundary'.at \in {"idle", "await"}
    BY <1>1 DEF QueueTypes, Outside
  <2> QED BY <1>1, <1>2, <1>4, <2>1 DEF Batched
<1>15. Rows'
  <2> SUFFICES ASSUME NEW r \in Routes, NEW b \in BOOLEAN, NEW i \in DOMAIN Queue(r, b)'
               PROVE  (LET a == Queue(r, b)[i] IN
                       /\ a \in 1 .. published /\ Queued(a) /\ Route(a) = r
                       /\ acts[a].background = b /\ acts[a].state = "QUEUED"
                       /\ \A j \in DOMAIN Queue(r, b) : i < j => a < Queue(r, b)[j]
                       /\ \A j \in DOMAIN lane[r] :
                            acts[lane[r][j]].background = b => lane[r][j] < a
                       /\ /\ worker.at = "lane" /\ Route(worker.action) = r
                          /\ acts[worker.action].background = b
                          => worker.action < a)'
    BY DEF Rows, Queue
  <2>1. PICK front \in Seq(Nat) : front = Queue(r, b)
    BY <1>12
  <2>2. PICK rear \in Seq(Nat) : rear = Ascending(Joining(r, b))
    BY <1>1, JoiningRises
  <2>3. PICK all : all = Queue(r, b)'
    OBVIOUS
  <2>4. \A k \in DOMAIN all :
          \/ k \in DOMAIN front /\ all[k] = front[k]
          \/ k > Len(front) /\ k - Len(front) \in DOMAIN rear /\ all[k] = rear[k - Len(front)]
    <3>1. all = front \o rear /\ front \in Seq(Nat) /\ rear \in Seq(Nat)
      BY <1>12, <2>1, <2>2, <2>3
    <3> QED BY ONLY <3>1, Joined
  <2>5. /\ Len(front) \in Nat /\ DOMAIN front = 1 .. Len(front)
        /\ DOMAIN rear \subseteq Nat /\ DOMAIN all \subseteq Nat
    <3>1. all \in Seq(Nat)
      BY <1>12, <2>1, <2>2, <2>3, Joined
    <3>2. DOMAIN all = 1 .. Len(all) /\ Len(all) \in Nat
      BY ONLY <3>1
    <3> QED BY <2>1, <2>2, <3>2
  <2>6. ASSUME NEW k \in DOMAIN front
        PROVE  /\ front[k] \in 1 .. published /\ Queued(front[k]) /\ Route(front[k]) = r
               /\ acts[front[k]].background = b /\ acts[front[k]].state = "QUEUED"
               /\ \A j \in DOMAIN front : k < j => front[k] < front[j]
               /\ \A j \in DOMAIN lane[r] : acts[lane[r][j]].background = b => lane[r][j] < front[k]
               /\ /\ worker.at = "lane" /\ Route(worker.action) = r
                  /\ acts[worker.action].background = b
                  => worker.action < front[k]
    BY <2>1, <2>6 DEF Rows
  <2>7. ASSUME NEW k \in DOMAIN rear
        PROVE  /\ rear[k] \in published + 1 .. Len(acts) /\ rear[k] \in DOMAIN acts
               /\ Queued(rear[k]) /\ Route(rear[k]) = r
               /\ acts[rear[k]].background = b /\ acts[rear[k]].state = "QUEUED"
               /\ \A j \in DOMAIN rear : k < j => rear[k] < rear[j]
    <3>1. rear[k] \in Joining(r, b) /\ rear[k] \in published + 1 .. Len(acts)
      BY <1>1, <2>2, JoiningRises
    <3>2. \A j \in DOMAIN rear : k < j => rear[k] < rear[j]
      BY <1>1, <2>2, JoiningRises
    <3>3. rear[k] \in DOMAIN acts
      BY <1>2, <3>1
    <3> QED BY <3>1, <3>2, <3>3 DEF Joining, Batched
  <2>8. \A j \in DOMAIN lane[r] : lane[r][j] \in 1 .. published /\ lane[r][j] \in DOMAIN acts
    BY <1>2 DEF Tracks
  <2>9. worker.at = "lane" => worker.action \in 1 .. published /\ worker.action \in DOMAIN acts
    BY <1>2 DEF Hand
  <2>10. PICK a : a = all[i]
    OBVIOUS
  <2>11. /\ a \in 1 .. published' /\ Queued(a) /\ Route(a) = r /\ a \in DOMAIN acts
         /\ acts[a].background = b /\ acts[a].state = "QUEUED"
    BY <1>1, <1>2, <2>3, <2>4, <2>6, <2>7, <2>10
  <2>12. \A j \in DOMAIN all : i < j => a < all[j]
    <3> SUFFICES ASSUME NEW j \in DOMAIN all, i < j
                 PROVE  a < all[j]
      OBVIOUS
    <3>1. CASE j \in DOMAIN front /\ all[j] = front[j]
      <4>1. i \in DOMAIN front /\ all[i] = front[i]
        BY <2>3, <2>4, <2>5, <3>1
      <4> QED BY <2>6, <2>10, <3>1, <4>1
    <3>2. CASE j > Len(front) /\ j - Len(front) \in DOMAIN rear /\ all[j] = rear[j - Len(front)]
      <4>1. CASE i \in DOMAIN front /\ all[i] = front[i]
        <5>1. a \in 1 .. published /\ all[j] \in published + 1 .. Len(acts)
          BY <2>6, <2>7, <2>10, <3>2, <4>1
        <5> QED BY <1>2, <5>1
      <4>2. CASE i > Len(front) /\ i - Len(front) \in DOMAIN rear /\ all[i] = rear[i - Len(front)]
        <5>1. i - Len(front) < j - Len(front)
          BY <2>3, <2>5
        <5> QED BY <2>7, <2>10, <3>2, <4>2, <5>1
      <4> QED BY <2>3, <2>4, <4>1, <4>2
    <3> QED BY <2>4, <3>1, <3>2
  <2>13. \A j \in DOMAIN lane[r] : acts[lane[r][j]].background = b => lane[r][j] < a
    <3>1. a \in published + 1 .. Len(acts) => \A c \in 1 .. published : c < a
      BY <1>2
    <3> QED BY <2>3, <2>4, <2>6, <2>7, <2>8, <2>10, <3>1
  <2>14. /\ worker.at = "lane" /\ Route(worker.action) = r /\ acts[worker.action].background = b
         => worker.action < a
    <3>1. a \in published + 1 .. Len(acts) => \A c \in 1 .. published : c < a
      BY <1>2
    <3> QED BY <2>3, <2>4, <2>6, <2>7, <2>9, <2>10, <3>1
  <2>15. \A j \in DOMAIN lane[r] : acts'[lane[r][j]].background = b => lane[r][j] < a
    BY <1>6, <2>8, <2>13
  <2>16. (worker.at = "lane" /\ Route(worker.action) = r /\ acts[worker.action].background = b)'
         => worker.action < a
    BY <1>1, <1>6, <1>7, <2>9, <2>14, KeptCopies
  <2>17. Queued(a)' /\ Route(a)' = r /\ acts'[a].background = b /\ acts'[a].state = "QUEUED"
    BY <1>6, <2>11 DEF Queued, Route
  <2> QED BY <1>1, <2>3, <2>10, <2>11, <2>12, <2>15, <2>16, <2>17 DEF Queued, Route
<1>16. Numbers'
  <2>1. submitted \in Nat /\ sequences \in Nat /\ submitted <= sequences
    BY DEF QueueTypes, Numbers
  <2>2. ASSUME NEW a \in DOMAIN acts
        PROVE  On(a)' = On(a)
    BY <1>1, <1>7, KeptCopies DEF On
  <2>3. ASSUME NEW a \in Collectives
        PROVE  a \in DOMAIN acts /\ ~On(a) /\ acts'[a].sequence = sequences + Place(a, "evict")
    <3>1. a \in published + 1 .. Len(acts)
      BY <1>3
    <3>2. a \in DOMAIN acts /\ a \notin 1 .. published
      BY <1>2, <3>1
    <3>3. Route(a) \in Routes
      BY DEF Route, Routes
    <3>4. ~On(a)
      BY <3>2, <3>3 DEF On, Tracks
    <3> QED BY <1>6, <3>2, <3>4
  <2>4. ASSUME NEW a \in DOMAIN acts, a \notin Collectives
        PROVE  acts'[a].sequence = acts[a].sequence
    BY <1>6, <2>4
  <2>5. ASSUME NEW a \in DOMAIN acts', 0 < acts'[a].sequence
        PROVE  /\ acts'[a].sequence <= sequences' /\ (acts'[a].sequence <= submitted' <=> On(a)')
    <3>1. CASE a \in Collectives
      <4>1. Place(a, "evict") \in 1 .. Cardinality(Collectives)
        BY <1>3, <3>1
      <4> QED BY <1>1, <1>3, <2>1, <2>2, <2>3, <3>1, <4>1
    <3>2. CASE a \notin Collectives
      <4>1. a \in DOMAIN acts /\ acts'[a].sequence = acts[a].sequence /\ acts[a].sequence \in Nat
        BY <1>4, <2>4, <3>2 DEF QueueTypes
      <4>2. acts[a].sequence <= sequences /\ (acts[a].sequence <= submitted <=> On(a))
        BY <2>5, <4>1 DEF Numbers
      <4>3. sequences <= sequences' /\ sequences' \in Nat
        BY <1>1, <1>3, <2>1
      <4>4. acts[a].sequence <= sequences'
        BY <2>1, <4>1, <4>2, <4>3
      <4> QED BY <1>1, <2>2, <4>1, <4>2, <4>4
    <3> QED BY <3>1, <3>2
  <2>6. ASSUME NEW a \in DOMAIN acts', NEW b \in DOMAIN acts', 0 < acts'[a].sequence,
               acts'[a].sequence = acts'[b].sequence
        PROVE  a = b
    <3>1. a \in DOMAIN acts /\ b \in DOMAIN acts
      BY <1>4
    <3>2. ASSUME NEW c \in DOMAIN acts, c \notin Collectives, 0 < acts'[c].sequence
          PROVE  acts'[c].sequence = acts[c].sequence /\ acts'[c].sequence <= sequences
      BY <2>4, <3>2 DEF Numbers
    <3>3. ASSUME NEW c \in Collectives
          PROVE  /\ acts'[c].sequence = sequences + Place(c, "evict")
                 /\ Place(c, "evict") \in Nat /\ 0 < Place(c, "evict")
      BY <1>3, <2>3
    <3>4. CASE a \in Collectives /\ b \in Collectives
      <4>1. Place(a, "evict") = Place(b, "evict")
        BY <2>1, <2>6, <3>3, <3>4
      <4> QED BY <1>3, <3>4, <4>1
    <3>5. CASE a \notin Collectives /\ b \notin Collectives
      <4>1. acts[a].sequence = acts[b].sequence /\ 0 < acts[a].sequence
        BY <2>6, <3>1, <3>2, <3>5
      <4> QED BY <3>1, <4>1 DEF Numbers
    <3>6. CASE a \in Collectives /\ b \notin Collectives
      BY <2>1, <2>6, <3>1, <3>2, <3>3, <3>6
    <3>7. CASE a \notin Collectives /\ b \in Collectives
      BY <2>1, <2>6, <3>1, <3>2, <3>3, <3>7
    <3> QED BY <3>4, <3>5, <3>6, <3>7
  <2>7. submitted' <= sequences'
    BY <1>1, <1>3, <2>1
  <2> QED BY <2>5, <2>6, <2>7 DEF Numbers
<1> QED BY <1>10, <1>11, <1>13, <1>14, <1>15, <1>16

\* The worker's turn at a queue: the head goes into its hand.
LEMMA ClaimedInOrder ==
  ASSUME Discipline, NEW c \in DOMAIN acts, Handles(c), Queued(c), acts[c].state = "QUEUED", Claim(c)
  PROVE  Discipline'
<1> USE DEF Discipline
<1>0. PICK bg, rt : bg = acts[c].background /\ rt = Route(c)
  OBVIOUS
<1>1. /\ Len(acts) \in Nat /\ DOMAIN acts = 1 .. Len(acts) /\ published \in 0 .. Len(acts)
      /\ worker.at = "idle" /\ c \in 1 .. published /\ rt \in Routes /\ bg \in BOOLEAN
  BY <1>0, ActsListed DEF Handles, Route, Routes, QueueTypes
<1>2. /\ worker'.at = "lane" /\ worker'.action = c
      /\ UNCHANGED << inflight, charged, submitted, sequences, boundary, published, lane, plan >>
  BY DEF Claim, device
<1>3. /\ Queue(rt, bg) # << >> /\ Head(Queue(rt, bg)) = c
      /\ bg => Admits(rt, Bytes(c))
      /\ acts[c].sequence \in {0, submitted + 1}
  BY <1>0 DEF Claim, Claimable, Queue, Turn
<1>4. /\ Queue(rt, bg)' = Tail(Queue(rt, bg))
      /\ \A r \in Routes, b \in BOOLEAN : r # rt \/ b # bg => Queue(r, b)' = Queue(r, b)
      /\ planned' \in [Routes -> Seq(Nat)] /\ waiting' \in [Routes -> Seq(Nat)]
  <2>1. planned \in [Routes -> Seq(Nat)] /\ waiting \in [Routes -> Seq(Nat)]
    BY DEF QueueTypes
  <2>2. CASE bg
    <3>1. waiting' = [waiting EXCEPT ![rt] = Tail(@)] /\ planned' = planned
      BY <1>0, <2>2 DEF Claim
    <3>2. waiting[rt] \in Seq(Nat)
      BY <1>1, <2>1
    <3>3. waiting[rt] # << >>
      BY <1>3, <2>2 DEF Queue
    <3>4. Tail(waiting[rt]) \in Seq(Nat)
      BY ONLY <3>2, <3>3
    <3> QED BY <1>1, <2>1, <2>2, <3>1, <3>4 DEF Queue
  <2>3. CASE ~bg
    <3>1. planned' = [planned EXCEPT ![rt] = Tail(@)] /\ waiting' = waiting
      BY <1>0, <2>3 DEF Claim
    <3>2. planned[rt] \in Seq(Nat)
      BY <1>1, <2>1
    <3>3. planned[rt] # << >>
      BY <1>3, <2>3 DEF Queue
    <3>4. Tail(planned[rt]) \in Seq(Nat)
      BY ONLY <3>2, <3>3
    <3> QED BY <1>1, <2>1, <2>3, <3>1, <3>4 DEF Queue
  <2> QED BY <2>2, <2>3
<1>5. /\ acts' \in Seq(Range(acts')) /\ Len(acts') = Len(acts) /\ DOMAIN acts' = DOMAIN acts
      /\ \A a \in DOMAIN acts : a # c => acts'[a] = acts[a]
      /\ DOMAIN acts'[c] = Fields /\ acts'[c].obj = acts[c].obj /\ acts'[c].kind = acts[c].kind
      /\ acts'[c].background = acts[c].background /\ acts'[c].skips = acts[c].skips
      /\ acts'[c].state = acts[c].state /\ acts'[c].sequence = acts[c].sequence
  <2>1. DOMAIN acts[c] = Fields
    BY DEF QueueTypes
  <2>2. \E d, l, w : acts' = [acts EXCEPT ![c].destination = d, ![c].lease = l, ![c].waits = w]
                     \/ acts' = [acts EXCEPT ![c].destination = d, ![c].lease = l]
    <3>1. CASE acts[c].kind = "FETCH"
      <4>1. acts' = [acts EXCEPT ![c].destination = FALSE, ![c].lease = Len(leases[acts[c].obj]) + 1,
                                 ![c].waits = Dependency(acts[c].pred)]
        BY <3>1 DEF Claim
      <4> QED BY <4>1
    <3>2. CASE acts[c].kind # "FETCH"
      <4>1. acts' = [acts EXCEPT ![c].destination = @ /\ obj[acts[c].obj].spill,
                                 ![c].lease = obj[acts[c].obj].lease]
        BY <3>2 DEF Claim
      <4>2. acts' = [acts EXCEPT ![c].destination = acts[c].destination /\ obj[acts[c].obj].spill,
                                 ![c].lease = obj[acts[c].obj].lease]
        BY <4>1
      <4> QED BY <4>2
    <3> QED BY <3>1, <3>2
  <2>3. PICK d, l, w : acts' = [acts EXCEPT ![c].destination = d, ![c].lease = l, ![c].waits = w]
                       \/ acts' = [acts EXCEPT ![c].destination = d, ![c].lease = l]
    BY <2>2
  <2>4. acts' = [a \in 1 .. Len(acts) |-> acts'[a]]
    BY <1>1, <2>3
  <2>5. acts' \in Seq(Range(acts')) /\ Len(acts') = Len(acts) /\ DOMAIN acts' = DOMAIN acts
    BY <1>1, <2>4, ListOf
  <2> QED BY <2>1, <2>3, <2>5 DEF Fields
<1>6. Keeps
  BY <1>2, <1>5 DEF Keeps
<1>7. \A a \in DOMAIN acts : /\ acts'[a].state = acts[a].state
                             /\ acts'[a].sequence = acts[a].sequence
                             /\ (Done(a)' <=> Done(a))
  BY <1>1, <1>2, <1>5 DEF Done
<1>8. published' \in Nat /\ published <= published'
  BY <1>1, <1>2
<1>9. Tracks' /\ Numbers' /\ Window'
  BY <1>2, <1>5, <1>6, <1>7, <1>8, TracksStay, NumbersStay, WindowStays
<1>10. QueueTypes'
  <2>1. \A a \in DOMAIN acts' : /\ DOMAIN acts'[a] = Fields /\ acts'[a].obj \in Objects
                                /\ acts'[a].background \in BOOLEAN /\ acts'[a].sequence \in Nat
    BY <1>5 DEF QueueTypes
  <2> QED BY <1>2, <1>4, <1>5, <2>1 DEF QueueTypes
<1>11. Batched'
  <2>1. \A a \in published' + 1 .. Len(acts') : a \in DOMAIN acts /\ a \in published + 1 .. Len(acts)
    BY <1>1, <1>2, <1>5
  <2> QED BY <1>2, <1>5, <1>7, <2>1 DEF Batched
<1>12. /\ Len(Queue(rt, bg)) \in Nat /\ 1 \in DOMAIN Queue(rt, bg) /\ Queue(rt, bg)[1] = c
       /\ DOMAIN Queue(rt, bg)' \subseteq Nat \ {0}
       /\ \A i \in DOMAIN Queue(rt, bg)' :
            i + 1 \in DOMAIN Queue(rt, bg) /\ Queue(rt, bg)'[i] = Queue(rt, bg)[i + 1]
  <2>1. PICK q : q = Queue(rt, bg)
    OBVIOUS
  <2>2. q \in Seq(Nat)
    BY <1>1, <2>1 DEF QueueTypes, Queue
  <2>3. q # << >> /\ Head(q) = c /\ Queue(rt, bg)' = Tail(q)
    BY <1>3, <1>4, <2>1
  <2>4. /\ Len(q) \in Nat /\ 1 \in DOMAIN q /\ q[1] = c /\ DOMAIN Tail(q) \subseteq Nat \ {0}
        /\ \A i \in DOMAIN Tail(q) : i + 1 \in DOMAIN q /\ Tail(q)[i] = q[i + 1]
    BY ONLY <2>2, <2>3
  <2> QED BY <2>1, <2>3, <2>4
<1>13. \A j \in DOMAIN lane[rt] : acts[lane[rt][j]].background = bg => lane[rt][j] < c
  BY <1>1, <1>12 DEF Rows
<1>14. ASSUME NEW r \in Routes, NEW j \in DOMAIN lane[r]
       PROVE  acts'[lane[r][j]].background = acts[lane[r][j]].background
  <2>1. lane[r][j] \in DOMAIN acts
    BY <1>1 DEF Tracks
  <2> QED BY <1>6, <2>1, KeptCopies
<1>15. /\ Queued(c)' /\ Route(c)' = rt /\ Bytes(c)' = Bytes(c) /\ acts'[c].background = bg
       /\ acts'[c].state = "QUEUED"
  BY <1>0, <1>6, <1>7, KeptCopies DEF Queued
<1>16. Hand'
  <2>1. (acts[c].background => Admits(Route(c), Bytes(c)))'
    BY <1>2, <1>3, <1>15 DEF Admits
  <2>2. (\A j \in DOMAIN lane[Route(c)] :
           acts[lane[Route(c)][j]].background = acts[c].background => lane[Route(c)][j] < c)'
    BY <1>1, <1>2, <1>13, <1>14, <1>15
  <2> QED BY <1>1, <1>2, <1>3, <1>5, <1>15, <2>1, <2>2 DEF Hand, Queued, Route, Bytes
<1>17. Rows'
  <2> SUFFICES ASSUME NEW r \in Routes, NEW b \in BOOLEAN, NEW i \in DOMAIN Queue(r, b)'
               PROVE  (LET a == Queue(r, b)[i] IN
                       /\ a \in 1 .. published /\ Queued(a) /\ Route(a) = r
                       /\ acts[a].background = b /\ acts[a].state = "QUEUED"
                       /\ \A j \in DOMAIN Queue(r, b) : i < j => a < Queue(r, b)[j]
                       /\ \A j \in DOMAIN lane[r] :
                            acts[lane[r][j]].background = b => lane[r][j] < a
                       /\ /\ worker.at = "lane" /\ Route(worker.action) = r
                          /\ acts[worker.action].background = b
                          => worker.action < a)'
    BY DEF Rows, Queue
  <2>1. PICK s \in Nat : /\ s = IF r = rt /\ b = bg THEN 1 ELSE 0
                         /\ \A j \in DOMAIN Queue(r, b)' :
                              /\ j + s \in DOMAIN Queue(r, b)
                              /\ Queue(r, b)'[j] = Queue(r, b)[j + s]
                         /\ DOMAIN Queue(r, b)' \subseteq Nat \ {0}
    <3>1. CASE r = rt /\ b = bg
      BY <1>12, <3>1
    <3>2. CASE ~(r = rt /\ b = bg)
      <4>1. Queue(r, b)' = Queue(r, b)
        BY <1>4, <3>2
      <4>2. Queue(r, b) \in Seq(Nat)
        BY DEF Queue, QueueTypes
      <4>3. \A j \in DOMAIN Queue(r, b) : j \in Nat \ {0} /\ j + 0 = j
        BY <4>2
      <4> QED BY <3>2, <4>1, <4>3
    <3> QED BY <3>1, <3>2
  <2>2. PICK a : a = Queue(r, b)'[i]
    OBVIOUS
  <2>3. i + s \in DOMAIN Queue(r, b) /\ a = Queue(r, b)[i + s]
    BY <2>1, <2>2
  <2>4. /\ a \in 1 .. published /\ Queued(a) /\ Route(a) = r
        /\ acts[a].background = b /\ acts[a].state = "QUEUED"
        /\ \A j \in DOMAIN Queue(r, b) : i + s < j => a < Queue(r, b)[j]
        /\ \A j \in DOMAIN lane[r] : acts[lane[r][j]].background = b => lane[r][j] < a
    BY <2>3 DEF Rows
  <2>5. \A j \in DOMAIN Queue(r, b)' : i < j => a < Queue(r, b)'[j]
    <3> SUFFICES ASSUME NEW j \in DOMAIN Queue(r, b)', i < j PROVE a < Queue(r, b)'[j]
      OBVIOUS
    <3>1. i + s < j + s
      BY <2>1
    <3> QED BY <2>1, <2>4, <3>1
  <2>6. r = rt /\ b = bg => c < a
    <3>1. r = rt /\ b = bg => 1 < i + s
      BY <1>12, <2>1
    <3> QED BY <1>12, <2>1, <2>3, <3>1 DEF Rows
  <2>7. a \in DOMAIN acts /\ a \in 1 .. published'
    BY <1>1, <1>2, <2>4
  <2>8. Queued(a)' /\ Route(a)' = r /\ acts'[a].background = b /\ acts'[a].state = "QUEUED"
    BY <1>6, <1>7, <2>4, <2>7, KeptCopies DEF Queued
  <2>9. \A j \in DOMAIN lane[r] : acts'[lane[r][j]].background = b => lane[r][j] < a
    BY <1>14, <2>4
  <2>10. (Route(c) = r /\ acts[c].background = b)' => c < a
    BY <1>15, <2>6
  <2> QED BY <1>2, <2>2, <2>5, <2>7, <2>8, <2>9, <2>10 DEF Queued, Route
<1> QED BY <1>9, <1>10, <1>11, <1>16, <1>17

\* A copy the lane cannot take yet goes back to the head of its queue.
LEMMA ReturnedInOrder ==
  ASSUME Discipline, ReturnClaim
  PROVE  Discipline'
<1> USE DEF Discipline
<1>0. PICK c, bg, rt : c = worker.action /\ bg = acts[c].background /\ rt = Route(c)
  OBVIOUS
<1>1. /\ worker.at = "lane" /\ worker'.at = "idle"
      /\ UNCHANGED << acts, inflight, charged, submitted, sequences, boundary, published, lane, plan >>
  BY DEF ReturnClaim, device, Idle
<1>2. /\ Len(acts) \in Nat /\ DOMAIN acts = 1 .. Len(acts) /\ published \in 0 .. Len(acts)
      /\ c \in 1 .. published /\ c \in DOMAIN acts /\ c \in Nat /\ rt \in Routes /\ bg \in BOOLEAN
      /\ Queued(c) /\ acts[c].state = "QUEUED"
      /\ \A j \in DOMAIN lane[rt] : acts[lane[rt][j]].background = bg => lane[rt][j] < c
  <2>1. Len(acts) \in Nat /\ DOMAIN acts = 1 .. Len(acts) /\ published \in 0 .. Len(acts)
    BY ActsListed
  <2>2. /\ c \in 1 .. published /\ Queued(c) /\ acts[c].state = "QUEUED"
        /\ \A j \in DOMAIN lane[rt] : acts[lane[rt][j]].background = bg => lane[rt][j] < c
    BY <1>0, <1>1 DEF Hand
  <2>3. rt \in Routes
    BY <1>0 DEF Route, Routes
  <2>4. c \in DOMAIN acts
    BY <2>1, <2>2
  <2>5. bg \in BOOLEAN
    BY <1>0, <2>4 DEF QueueTypes
  <2> QED BY <2>1, <2>2, <2>3, <2>4, <2>5
<1>3. /\ Queue(rt, bg)' = << c >> \o Queue(rt, bg)
      /\ \A r \in Routes, b \in BOOLEAN : r # rt \/ b # bg => Queue(r, b)' = Queue(r, b)
      /\ planned' \in [Routes -> Seq(Nat)] /\ waiting' \in [Routes -> Seq(Nat)]
  <2>1. planned \in [Routes -> Seq(Nat)] /\ waiting \in [Routes -> Seq(Nat)]
    BY DEF QueueTypes
  <2>2. CASE bg
    <3>1. waiting' = [waiting EXCEPT ![rt] = << c >> \o @] /\ planned' = planned
      BY <1>0, <2>2 DEF ReturnClaim
    <3>2. waiting[rt] \in Seq(Nat) /\ << c >> \in Seq(Nat)
      BY <1>2, <2>1
    <3>3. << c >> \o waiting[rt] \in Seq(Nat)
      BY ONLY <3>2
    <3> QED BY <1>2, <2>1, <2>2, <3>1, <3>3 DEF Queue
  <2>3. CASE ~bg
    <3>1. planned' = [planned EXCEPT ![rt] = << c >> \o @] /\ waiting' = waiting
      BY <1>0, <2>3 DEF ReturnClaim
    <3>2. planned[rt] \in Seq(Nat) /\ << c >> \in Seq(Nat)
      BY <1>2, <2>1
    <3>3. << c >> \o planned[rt] \in Seq(Nat)
      BY ONLY <3>2
    <3> QED BY <1>2, <2>1, <2>3, <3>1, <3>3 DEF Queue
  <2> QED BY <2>2, <2>3
<1>4. Keeps
  BY <1>1 DEF Keeps
<1>5. \A a \in DOMAIN acts : /\ acts'[a].state = acts[a].state
                             /\ acts'[a].sequence = acts[a].sequence
                             /\ (Done(a)' <=> Done(a))
  BY <1>1 DEF Done
<1>6. published' \in Nat /\ published <= published'
  BY <1>1, <1>2
<1>7. Tracks' /\ Numbers' /\ Window'
  BY <1>1, <1>4, <1>5, <1>6, TracksStay, NumbersStay, WindowStays
<1>8. QueueTypes'
  BY <1>1, <1>3 DEF QueueTypes
<1>9. Batched' /\ Hand'
  BY <1>1 DEF Batched, Hand
<1>10. DOMAIN Queue(rt, bg)' \subseteq Int /\ \A i \in DOMAIN Queue(rt, bg)' :
         \/ i = 1 /\ Queue(rt, bg)'[i] = c
         \/ i > 1 /\ i - 1 \in DOMAIN Queue(rt, bg) /\ Queue(rt, bg)'[i] = Queue(rt, bg)[i - 1]
  <2>1. PICK q : q = Queue(rt, bg)
    OBVIOUS
  <2>2. q \in Seq(Nat) /\ << c >> \in Seq(Nat) /\ Len(<< c >>) = 1
    BY <1>2, <2>1 DEF QueueTypes, Queue
  <2>3. PICK all : all = << c >> \o q
    OBVIOUS
  <2>4. PICK one : one = << c >>
    OBVIOUS
  <2>7. Len(one) = 1 /\ one[1] = c /\ \A i \in DOMAIN one : i = 1
    BY <2>4
  <2>5. \A i \in DOMAIN all :
          \/ i \in DOMAIN one /\ all[i] = one[i]
          \/ i > Len(one) /\ i - Len(one) \in DOMAIN q /\ all[i] = q[i - Len(one)]
    <3>1. one \in Seq(Nat) /\ q \in Seq(Nat) /\ all = one \o q
      BY <2>2, <2>3, <2>4
    <3> QED BY ONLY <3>1, Joined
  <2>6. Queue(rt, bg)' = all
    BY <1>3, <2>1, <2>3
  <2>8. all \in Seq(Nat)
    BY <2>2, <2>3, Joined
  <2>9. DOMAIN all \subseteq Int
    BY ONLY <2>8
  <2> QED BY <2>1, <2>5, <2>6, <2>7, <2>9
<1>11. Rows'
  <2> SUFFICES ASSUME NEW r \in Routes, NEW b \in BOOLEAN, NEW i \in DOMAIN Queue(r, b)'
               PROVE  (LET a == Queue(r, b)[i] IN
                       /\ a \in 1 .. published /\ Queued(a) /\ Route(a) = r
                       /\ acts[a].background = b /\ acts[a].state = "QUEUED"
                       /\ \A j \in DOMAIN Queue(r, b) : i < j => a < Queue(r, b)[j]
                       /\ \A j \in DOMAIN lane[r] :
                            acts[lane[r][j]].background = b => lane[r][j] < a)'
    BY <1>1 DEF Rows, Queue
  <2>1. PICK a : a = Queue(r, b)'[i]
    OBVIOUS
  <2>2. ASSUME NEW k \in DOMAIN Queue(r, b)
        PROVE  /\ Queue(r, b)[k] \in 1 .. published /\ Queued(Queue(r, b)[k])
               /\ Route(Queue(r, b)[k]) = r
               /\ acts[Queue(r, b)[k]].background = b /\ acts[Queue(r, b)[k]].state = "QUEUED"
               /\ \A j \in DOMAIN Queue(r, b) : k < j => Queue(r, b)[k] < Queue(r, b)[j]
               /\ \A j \in DOMAIN lane[r] :
                    acts[lane[r][j]].background = b => lane[r][j] < Queue(r, b)[k]
               /\ r = rt /\ b = bg => c < Queue(r, b)[k]
    BY <1>0, <1>1 DEF Rows
  <2>3. /\ a \in 1 .. published /\ Queued(a) /\ Route(a) = r
        /\ acts[a].background = b /\ acts[a].state = "QUEUED"
        /\ \A j \in DOMAIN Queue(r, b)' : i < j => a < Queue(r, b)'[j]
        /\ \A j \in DOMAIN lane[r] : acts[lane[r][j]].background = b => lane[r][j] < a
    <3>1. CASE r = rt /\ b = bg
      <4>1. CASE i = 1 /\ a = c
        <5>1. \A j \in DOMAIN Queue(r, b)' : i < j => a < Queue(r, b)'[j]
          BY <1>10, <2>2, <3>1, <4>1
        <5> QED BY <1>0, <1>2, <3>1, <4>1, <5>1
      <4>2. CASE i > 1 /\ i - 1 \in DOMAIN Queue(r, b) /\ a = Queue(r, b)[i - 1]
        <5>1. ASSUME NEW j \in DOMAIN Queue(r, b)', i < j
              PROVE  a < Queue(r, b)'[j]
          <6>0. i \in Int /\ j \in Int
            BY <1>10, <3>1
          <6>1. j > 1 /\ j - 1 \in DOMAIN Queue(r, b) /\ Queue(r, b)'[j] = Queue(r, b)[j - 1]
            BY <1>10, <3>1, <4>2, <5>1, <6>0
          <6>2. i - 1 < j - 1
            BY <5>1, <6>0
          <6> QED BY <2>2, <4>2, <6>1, <6>2
        <5> QED BY <2>2, <4>2, <5>1
      <4> QED BY <1>10, <2>1, <3>1, <4>1, <4>2
    <3>2. CASE ~(r = rt /\ b = bg)
      <4>1. Queue(r, b)' = Queue(r, b)
        BY <1>3, <3>2
      <4> QED BY <2>1, <2>2, <4>1
    <3> QED BY <3>1, <3>2
  <2> QED BY <1>1, <2>1, <2>3 DEF Queued, Route
<1> QED BY <1>7, <1>8, <1>9, <1>11

\* A lane with one more copy.
LEMMA OnTheLane ==
  ASSUME NEW list \in Seq(Nat), NEW c \in Nat, NEW longer, longer = Append(list, c)
  PROVE  /\ longer \in Seq(Nat) /\ Len(list) \in Nat /\ Len(longer) = Len(list) + 1
         /\ DOMAIN list = 1 .. Len(list) /\ DOMAIN longer = 1 .. Len(list) + 1
         /\ longer[Len(list) + 1] = c /\ \A i \in DOMAIN list : longer[i] = list[i]
<1>1. /\ longer \in Seq(Nat) /\ Len(longer) = Len(list) + 1 /\ longer[Len(list) + 1] = c
      /\ \A i \in 1 .. Len(list) : longer[i] = list[i]
  BY AppendProperties
<1>2. Len(list) \in Nat /\ DOMAIN list = 1 .. Len(list)
  OBVIOUS
<1>3. DOMAIN longer = 1 .. Len(longer)
  BY ONLY <1>1
<1> QED BY <1>1, <1>2, <1>3

\* The action the worker has in hand, as it is submitted.
LEMMA InTheHand ==
  ASSUME Discipline, Submit, NEW c, NEW r, c = worker.action, r = Route(c)
  PROVE  /\ c \in DOMAIN acts /\ r \in Routes /\ c \in 1 .. published /\ c \in Nat
         /\ Queued(c) /\ acts[c].state = "QUEUED" /\ acts[c].sequence \in {0, submitted + 1}
         /\ acts[c].background => Admits(r, Bytes(c))
         /\ \A j \in DOMAIN lane[r] :
              lane[r][j] # c
              /\ (acts[lane[r][j]].background = acts[c].background => lane[r][j] < c)
         /\ ~On(c)
         /\ lane' = [lane EXCEPT ![r] = Append(@, c)] /\ lane'[r] = Append(lane[r], c)
         /\ \A q \in Routes : q # r => lane'[q] = lane[q]
         /\ lane' \in [Routes -> Seq(Nat)]
         /\ Len(lane[r]) \in Nat /\ DOMAIN lane[r] = 1 .. Len(lane[r])
         /\ Len(lane'[r]) = Len(lane[r]) + 1 /\ DOMAIN lane'[r] = 1 .. Len(lane[r]) + 1
         /\ lane'[r][Len(lane[r]) + 1] = c
         /\ \A i \in DOMAIN lane[r] : lane'[r][i] = lane[r][i]
<1> USE DEF Discipline
<1>0. c = worker.action /\ r = Route(c)
  OBVIOUS
<1>1. worker.at = "lane" /\ lane' = [lane EXCEPT ![r] = Append(@, c)]
  BY <1>0 DEF Submit
<1>2. /\ c \in 1 .. published /\ Queued(c) /\ acts[c].state = "QUEUED"
      /\ acts[c].sequence \in {0, submitted + 1}
      /\ acts[c].background => Admits(r, Bytes(c))
      /\ \A j \in DOMAIN lane[r] :
           acts[lane[r][j]].background = acts[c].background => lane[r][j] < c
  BY <1>0, <1>1 DEF Hand
<1>3. r \in Routes /\ c \in DOMAIN acts /\ c \in Nat
  BY <1>0, <1>2, ActsListed DEF Route, Routes
<1>4. \A j \in DOMAIN lane[r] : lane[r][j] # c
  BY <1>2, <1>3
<1>5. ~On(c)
  BY <1>0, <1>4 DEF On
<1>6. lane \in [Routes -> Seq(Nat)] /\ lane[r] \in Seq(Nat)
  BY <1>3 DEF QueueTypes
<1>7. lane'[r] = Append(lane[r], c) /\ \A q \in Routes : q # r => lane'[q] = lane[q]
  BY <1>1, <1>3, <1>6
<1>8. /\ lane'[r] \in Seq(Nat) /\ Len(lane[r]) \in Nat /\ Len(lane'[r]) = Len(lane[r]) + 1
      /\ DOMAIN lane[r] = 1 .. Len(lane[r]) /\ DOMAIN lane'[r] = 1 .. Len(lane[r]) + 1
      /\ lane'[r][Len(lane[r]) + 1] = c /\ \A i \in DOMAIN lane[r] : lane'[r][i] = lane[r][i]
  BY <1>3, <1>6, <1>7, OnTheLane
<1>9. lane' \in [Routes -> Seq(Nat)]
  BY <1>1, <1>3, <1>6, <1>7, <1>8
<1> QED BY <1>0, <1>1, <1>2, <1>3, <1>4, <1>5, <1>7, <1>8, <1>9

\* What is charged is nothing when no background copy is in flight, and only then.
LEMMA ChargedNothing ==
  ASSUME QueueTypes, Tracks, Window, NEW r \in Routes, charged[r] = 0
  PROVE  Loads(r) = {}
<1> SUFFICES ASSUME NEW a \in Loads(r) PROVE FALSE
  OBVIOUS
<1>1. PICK S, w : S = Loads(r) /\ w = Weights
  OBVIOUS
<1>2. IsFiniteSet(S) /\ a \in S /\ \A x \in S : w[x] \in Nat \ {0}
  BY <1>1, LoadsFinite
<1>3. Total(w, S) = 0
  BY <1>1 DEF Window
<1>4. Total(w, S) = w[a] + Total(w, S \ {a})
  BY <1>2, TotalRemove
<1>5. Total(w, S \ {a}) \in Nat
  <2>1. IsFiniteSet(S \ {a})
    BY <1>2, FS_Subset
  <2> QED BY <1>2, <2>1, TotalType
<1> QED BY <1>2, <1>3, <1>4, <1>5

\* An action whose state changes, and nothing else of it.
LEMMA Restated ==
  ASSUME QueueTypes, NEW c \in DOMAIN acts, NEW s, acts' = [acts EXCEPT ![c].state = s],
         plan' = plan
  PROVE  /\ acts' \in Seq(Range(acts')) /\ Len(acts') = Len(acts) /\ DOMAIN acts' = DOMAIN acts
         /\ \A a \in DOMAIN acts : a # c => acts'[a] = acts[a]
         /\ DOMAIN acts'[c] = Fields /\ acts'[c].obj = acts[c].obj
         /\ acts'[c].background = acts[c].background
         /\ acts'[c].state = s /\ acts'[c].sequence = acts[c].sequence
         /\ Keeps
<1>1. DOMAIN acts[c] = Fields
  BY DEF QueueTypes
<1>2. Len(acts) \in Nat /\ DOMAIN acts = 1 .. Len(acts)
  BY ActsListed
<1>3. acts' = [a \in 1 .. Len(acts) |-> acts'[a]]
  BY <1>2
<1>4. acts' \in Seq(Range(acts')) /\ Len(acts') = Len(acts) /\ DOMAIN acts' = DOMAIN acts
  <2>1. Len(acts) \in Nat
    BY <1>2
  <2>2. acts' \in Seq(Range(acts')) /\ Len(acts') = Len(acts) /\ DOMAIN acts' = 1 .. Len(acts)
    BY ONLY <1>3, <2>1, ListOf
  <2> QED BY <1>2, <2>2
<1>5. /\ DOMAIN acts'[c] = Fields /\ acts'[c].obj = acts[c].obj /\ acts'[c].kind = acts[c].kind
      /\ acts'[c].background = acts[c].background /\ acts'[c].skips = acts[c].skips
      /\ acts'[c].state = s /\ acts'[c].sequence = acts[c].sequence
  BY <1>1 DEF Fields
<1>6. \A a \in DOMAIN acts : a # c => acts'[a] = acts[a]
  OBVIOUS
<1>7. Keeps
  BY <1>4, <1>5, <1>6 DEF Keeps
<1> QED BY <1>4, <1>5, <1>6, <1>7

\* The worker submits a copy: it is the last of its lane and of what is in flight.
LEMMA SubmittedInOrder ==
  ASSUME Discipline, Submit, StillValid(worker.action)
  PROVE  Discipline'
<1> USE DEF Discipline
<1>0. PICK c, r, n : c = worker.action /\ r = Route(c) /\ n = Len(lane[r])
  OBVIOUS
<1>1. /\ c \in DOMAIN acts /\ r \in Routes /\ c \in 1 .. published /\ c \in Nat
      /\ Queued(c) /\ acts[c].state = "QUEUED" /\ acts[c].sequence \in {0, submitted + 1}
      /\ acts[c].background => Admits(r, Bytes(c))
      /\ \A j \in DOMAIN lane[r] :
           lane[r][j] # c
           /\ (acts[lane[r][j]].background = acts[c].background => lane[r][j] < c)
      /\ ~On(c)
  BY <1>0, InTheHand
<1>2. /\ lane'[r] = Append(lane[r], c) /\ lane' \in [Routes -> Seq(Nat)]
      /\ \A q \in Routes : q # r => lane'[q] = lane[q]
      /\ n \in Nat /\ DOMAIN lane[r] = 1 .. n
      /\ Len(lane'[r]) = n + 1 /\ DOMAIN lane'[r] = 1 .. n + 1
      /\ lane'[r][n + 1] = c /\ \A i \in DOMAIN lane[r] : lane'[r][i] = lane[r][i]
  BY <1>0, InTheHand
<1>3. /\ acts' = [acts EXCEPT ![c].state = "IN_FLIGHT"]
      /\ inflight' = [inflight EXCEPT ![r] = Append(@, c)]
      /\ charged' = [charged EXCEPT ![r] = @ + Bytes(c)]
      /\ submitted' = IF acts[c].sequence = 0 THEN submitted ELSE acts[c].sequence
      /\ worker'.at = "idle" /\ worker.at = "lane"
      /\ UNCHANGED << planned, waiting, sequences, boundary, published, plan >>
  BY <1>0 DEF Submit, Charge, Idle
<1>4. /\ Len(acts) \in Nat /\ DOMAIN acts = 1 .. Len(acts) /\ published \in 0 .. Len(acts)
  BY ActsListed
<1>5. /\ acts' \in Seq(Range(acts')) /\ Len(acts') = Len(acts) /\ DOMAIN acts' = DOMAIN acts
      /\ \A a \in DOMAIN acts : a # c => acts'[a] = acts[a]
      /\ acts'[c].obj = acts[c].obj /\ acts'[c].background = acts[c].background
      /\ acts'[c].state = "IN_FLIGHT" /\ acts'[c].sequence = acts[c].sequence
      /\ DOMAIN acts'[c] = Fields
  BY <1>1, <1>3, Restated
<1>6. Keeps
  BY <1>1, <1>3, Restated
<1>7. /\ \A a \in DOMAIN acts : acts'[a].sequence = acts[a].sequence
      /\ \A a \in DOMAIN acts : a # c => acts'[a].state = acts[a].state
  BY <1>5
<1>8. /\ inflight'[r] \in Seq(Nat) /\ inflight' \in [Routes -> Seq(Nat)]
      /\ inflight[r] \in Seq(Nat) /\ Len(inflight[r]) \in Nat
      /\ DOMAIN inflight[r] = 1 .. Len(inflight[r]) /\ DOMAIN inflight'[r] = 1 .. Len(inflight[r]) + 1
      /\ Len(inflight'[r]) = Len(inflight[r]) + 1 /\ inflight'[r][Len(inflight[r]) + 1] = c
      /\ \A i \in DOMAIN inflight[r] : inflight'[r][i] = inflight[r][i]
      /\ \A q \in Routes : q # r => inflight'[q] = inflight[q]
  <2>1. inflight \in [Routes -> Seq(Nat)] /\ inflight[r] \in Seq(Nat)
    BY <1>1 DEF QueueTypes
  <2>2. inflight'[r] = Append(inflight[r], c) /\ \A q \in Routes : q # r => inflight'[q] = inflight[q]
    BY <1>1, <1>3, <2>1
  <2>3. /\ inflight'[r] \in Seq(Nat) /\ Len(inflight[r]) \in Nat
        /\ DOMAIN inflight[r] = 1 .. Len(inflight[r])
        /\ DOMAIN inflight'[r] = 1 .. Len(inflight[r]) + 1
        /\ Len(inflight'[r]) = Len(inflight[r]) + 1 /\ inflight'[r][Len(inflight[r]) + 1] = c
        /\ \A i \in DOMAIN inflight[r] : inflight'[r][i] = inflight[r][i]
    BY <1>1, <2>1, <2>2, OnTheLane
  <2>4. inflight' \in [Routes -> Seq(Nat)]
    BY <1>1, <1>3, <2>1, <2>2, <2>3
  <2> QED BY <2>1, <2>2, <2>3, <2>4
<1>9. \A q \in Routes : \A j \in DOMAIN lane[q] : lane[q][j] \in DOMAIN acts /\ lane[q][j] # c
  <2>1. \A q \in Routes : \A j \in DOMAIN lane[q] : lane[q][j] \in 1 .. published /\ Route(lane[q][j]) = q
    BY DEF Tracks
  <2> QED BY <1>0, <1>1, <1>4, <2>1
<1>10. \A q \in Routes : \A j \in DOMAIN lane'[q] :
         \/ j \in DOMAIN lane[q] /\ lane'[q][j] = lane[q][j]
         \/ q = r /\ j = n + 1 /\ lane'[q][j] = c /\ j \notin DOMAIN lane[q]
  <2> SUFFICES ASSUME NEW q \in Routes, NEW j \in DOMAIN lane'[q]
               PROVE  \/ j \in DOMAIN lane[q] /\ lane'[q][j] = lane[q][j]
                      \/ q = r /\ j = n + 1 /\ lane'[q][j] = c /\ j \notin DOMAIN lane[q]
    OBVIOUS
  <2>1. CASE q # r
    BY <1>2, <2>1
  <2>2. CASE q = r
    <3>1. j \in 1 .. n + 1
      BY <1>2, <2>2
    <3>2. j = n + 1 \/ j \in 1 .. n
      BY <1>2, <3>1
    <3>3. n + 1 \notin 1 .. n
      BY <1>2
    <3> QED BY <1>2, <2>2, <3>2, <3>3
  <2> QED BY <2>1, <2>2
<1>11. Batched'
  <2>1. \A a \in published' + 1 .. Len(acts') :
          a \in DOMAIN acts /\ a \in published + 1 .. Len(acts) /\ a # c
    BY <1>1, <1>3, <1>4, <1>5
  <2> QED BY <1>3, <1>5, <2>1 DEF Batched
<1>12. Hand'
  BY <1>3 DEF Hand
<1>13. Bytes(c) \in Nat /\ charged \in [Routes -> Nat] /\ submitted \in Nat /\ acts[c].sequence \in Nat
  <2>1. plan.size \in [Objects -> Nat \ {0}] /\ acts[c].obj \in Objects
    BY <1>1, PlansAssumption DEF QueueTypes, Plan
  <2> QED BY <1>1, <2>1 DEF QueueTypes, Bytes
<1>14. charged' \in [Routes -> Nat] /\ charged'[r] = charged[r] + Bytes(c)
       /\ \A q \in Routes : q # r => charged'[q] = charged[q]
  BY <1>1, <1>3, <1>13
<1>15. QueueTypes'
  <2>1. ASSUME NEW a \in DOMAIN acts
        PROVE  /\ DOMAIN acts'[a] = Fields /\ acts'[a].obj \in Objects
               /\ acts'[a].background \in BOOLEAN /\ acts'[a].sequence \in Nat
    <3>1. /\ DOMAIN acts[a] = Fields /\ acts[a].obj \in Objects
          /\ acts[a].background \in BOOLEAN /\ acts[a].sequence \in Nat
      BY DEF QueueTypes
    <3> QED BY <1>5, <3>1
  <2>2. submitted' \in Nat
    BY <1>3, <1>13
  <2>3. /\ plan' \in Plans /\ planned' \in [Routes -> Seq(Nat)] /\ waiting' \in [Routes -> Seq(Nat)]
        /\ sequences' \in Nat /\ published' \in 0 .. Len(acts')
        /\ boundary' \in [at : {"idle", "task", "batch", "await"}, background : BOOLEAN,
                          update : Objects \cup {None}, batch : Seq(Nat)]
    BY <1>3, <1>5 DEF QueueTypes
  <2> QED BY <1>2, <1>5, <1>8, <1>14, <2>1, <2>2, <2>3 DEF QueueTypes
<1>16. \A q \in Routes : \A i \in DOMAIN lane[q] :
         acts'[lane[q][i]] = acts[lane[q][i]] /\ lane[q][i] \in DOMAIN acts
  BY <1>5, <1>9
<1>17. Rows'
  <2> SUFFICES ASSUME NEW q \in Routes, NEW b \in BOOLEAN, NEW i \in DOMAIN Queue(q, b)
               PROVE  (LET a == Queue(q, b)[i] IN
                       /\ a \in 1 .. published /\ Queued(a) /\ Route(a) = q
                       /\ acts[a].background = b /\ acts[a].state = "QUEUED"
                       /\ \A j \in DOMAIN Queue(q, b) : i < j => a < Queue(q, b)[j]
                       /\ \A j \in DOMAIN lane[q] :
                            acts[lane[q][j]].background = b => lane[q][j] < a)'
    BY <1>3 DEF Rows, Queue
  <2>0. PICK a : a = Queue(q, b)[i]
    OBVIOUS
  <2>1. /\ a \in 1 .. published /\ Queued(a) /\ Route(a) = q
        /\ acts[a].background = b /\ acts[a].state = "QUEUED"
        /\ \A j \in DOMAIN Queue(q, b) : i < j => a < Queue(q, b)[j]
        /\ \A j \in DOMAIN lane[q] : acts[lane[q][j]].background = b => lane[q][j] < a
        /\ Route(c) = q /\ acts[c].background = b => c < a
    BY <1>0, <1>3, <2>0 DEF Rows
  <2>2. a \in DOMAIN acts /\ a # c /\ a \in Int /\ Queue(q, b)' = Queue(q, b)
    BY <1>1, <1>3, <1>4, <2>1 DEF Queue
  <2>3. acts'[a] = acts[a] /\ (Queued(a)' <=> Queued(a)) /\ Route(a)' = Route(a)
    BY <1>5, <1>6, <2>2, KeptCopies
  <2>4. ASSUME NEW j \in DOMAIN lane'[q], acts'[lane'[q][j]].background = b
        PROVE  lane'[q][j] < a
    <3>1. CASE j \in DOMAIN lane[q] /\ lane'[q][j] = lane[q][j]
      BY <1>16, <2>1, <2>4, <3>1
    <3>2. CASE q = r /\ lane'[q][j] = c
      BY <1>0, <1>5, <2>1, <2>4, <3>2
    <3> QED BY <1>10, <3>1, <3>2
  <2> QED BY <1>3, <2>0, <2>1, <2>2, <2>3, <2>4 DEF Queued, Route
<1>18. Landing(r) \in Int /\ Landing(r) >= 0 /\ n = Landing(r) + Len(inflight[r])
       /\ \A q \in Routes : Landing(q)' = Landing(q)
  <2>1. PICK m, k : m = Len(inflight[r]) /\ k = Landing(r)
    OBVIOUS
  <2>2. k = n - m /\ m \in Nat /\ n \in Nat /\ k >= 0
    BY <1>0, <1>1, <1>2, <1>8, <2>1 DEF Landing, Tracks
  <2>3. \A q \in Routes : q # r => Landing(q)' = Landing(q)
    BY <1>2, <1>8 DEF Landing
  <2>4. Landing(r)' = Landing(r)
    <3>1. Landing(r)' = (n + 1) - (m + 1)
      BY <1>2, <1>8, <2>1 DEF Landing
    <3> QED BY <2>1, <2>2, <3>1
  <2>5. Landing(r) \in Int /\ Landing(r) >= 0 /\ n = Landing(r) + Len(inflight[r])
    BY <2>1, <2>2
  <2>6. \A q \in Routes : Landing(q)' = Landing(q)
    BY <2>3, <2>4
  <2> QED BY <2>5, <2>6
<1>19. \A b \in DOMAIN acts : On(b)' <=> On(b) \/ b = c
  <2> SUFFICES ASSUME NEW b \in DOMAIN acts
               PROVE  On(b)' <=> On(b) \/ b = c
    OBVIOUS
  <2>0. PICK q : q = Route(b)
    OBVIOUS
  <2>1. q \in Routes /\ Route(b)' = q
    BY <1>6, <2>0, KeptCopies DEF Route, Routes
  <2>2. On(b)' <=> \E i \in DOMAIN lane'[q] : lane'[q][i] = b
    BY <2>1 DEF On
  <2>3. On(b) <=> \E i \in DOMAIN lane[q] : lane[q][i] = b
    BY <2>0 DEF On
  <2>4. CASE b = c
    BY <1>0, <1>2, <2>0, <2>2, <2>4
  <2>5. CASE b # c
    <3>1. On(b)' => On(b)
      BY <1>10, <2>1, <2>2, <2>3, <2>5
    <3>2. \A i \in DOMAIN lane[q] : i \in DOMAIN lane'[q] /\ lane'[q][i] = lane[q][i]
      <4>1. CASE q # r
        BY <1>2, <2>1, <4>1
      <4>2. CASE q = r
        BY <1>2, <4>2
      <4> QED BY <4>1, <4>2
    <3> QED BY <2>2, <2>3, <2>5, <3>1, <3>2
  <2> QED BY <2>4, <2>5
<1>20. ASSUME NEW q \in Routes, NEW i \in DOMAIN inflight'[q]
       PROVE  inflight'[q][i] = lane'[q][Landing(q) + i]
  <2>1. ASSUME i \in DOMAIN inflight[q], inflight'[q][i] = inflight[q][i]
        PROVE  inflight'[q][i] = lane'[q][Landing(q) + i]
    <3>1. PICK k : k = Landing(q) + i
      OBVIOUS
    <3>2. k \in DOMAIN lane[q] /\ inflight[q][i] = lane[q][k]
      BY <2>1, <3>1, AloftOnLane
    <3>3. lane'[q][k] = lane[q][k]
      BY <1>2, <3>2
    <3> QED BY <2>1, <3>1, <3>2, <3>3
  <2>2. CASE q # r
    BY <1>8, <2>1, <2>2
  <2>3. CASE q = r
    <3>1. PICK m : m = Len(inflight[r])
      OBVIOUS
    <3>2. m \in Nat /\ (i \in 1 .. m \/ i = m + 1)
      BY <1>8, <2>3, <3>1
    <3>3. CASE i \in 1 .. m
      BY <1>8, <2>1, <2>3, <3>1, <3>3
    <3>4. CASE i = m + 1
      <4>1. Landing(r) + (m + 1) = n + 1
        BY <1>18, <3>1, <3>2
      <4> QED BY <1>2, <1>8, <2>3, <3>1, <3>4, <4>1
    <3> QED BY <3>2, <3>3, <3>4
  <2> QED BY <2>2, <2>3
<1>21. \A a : ~Done(a) /\ ~Done(a)'
  BY <1>3 DEF Done
<1>22. ASSUME NEW q \in Routes, NEW i \in DOMAIN lane'[q], NEW a, a = lane'[q][i]
       PROVE  /\ a \in 1 .. published' /\ Queued(a)' /\ Route(a)' = q
              /\ acts'[a].state = IF i <= Landing(q) THEN "FINISHED" ELSE "IN_FLIGHT"
              /\ \A j \in DOMAIN lane'[q] :
                   i < j /\ acts'[a].background = acts'[lane'[q][j]].background => a < lane'[q][j]
  <2>1. CASE i \in DOMAIN lane[q] /\ a = lane[q][i]
    <3>1. /\ a \in 1 .. published /\ Queued(a) /\ Route(a) = q
          /\ acts[a].state = IF i <= Landing(q) THEN "FINISHED" ELSE "IN_FLIGHT"
          /\ \A j \in DOMAIN lane[q] :
               i < j /\ acts[a].background = acts[lane[q][j]].background => a < lane[q][j]
      BY <1>21, <2>1 DEF Tracks
    <3>2. a \in DOMAIN acts /\ a # c /\ acts'[a] = acts[a]
      BY <1>5, <1>9, <2>1
    <3>3. (Queued(a)' <=> Queued(a)) /\ Route(a)' = Route(a)
      BY <1>6, <3>2, KeptCopies
    <3>4. ASSUME NEW j \in DOMAIN lane'[q], i < j, acts'[a].background = acts'[lane'[q][j]].background
          PROVE  a < lane'[q][j]
      <4>1. CASE j \in DOMAIN lane[q] /\ lane'[q][j] = lane[q][j]
        BY <1>16, <3>1, <3>2, <3>4, <4>1
      <4>2. CASE q = r /\ lane'[q][j] = c
        BY <1>1, <1>5, <2>1, <3>2, <3>4, <4>2
      <4> QED BY <1>10, <4>1, <4>2
    <3> QED BY <1>3, <3>1, <3>2, <3>3, <3>4
  <2>2. CASE q = r /\ i = n + 1 /\ a = c
    <3>1. ~(i <= Landing(q))
      BY <1>8, <1>18, <2>2
    <3>2. \A j \in DOMAIN lane'[q] : ~(i < j)
      BY <1>2, <2>2
    <3>3. Queued(c)' /\ Route(c)' = r
      BY <1>0, <1>1, <1>6, KeptCopies DEF Queued
    <3> QED BY <1>1, <1>3, <1>5, <2>2, <3>1, <3>2, <3>3
  <2> QED BY <1>10, <1>22, <2>1, <2>2
<1>23. Tracks'
  <2>1. \A q \in Routes : Landing(q)' >= 0
    BY <1>18 DEF Tracks
  <2>2. ASSUME NEW a \in DOMAIN acts', acts'[a].state = "IN_FLIGHT"
        PROVE  Queued(a)' /\ On(a)'
    <3>1. a \in DOMAIN acts /\ (Queued(a)' <=> Queued(a)) /\ (On(a)' <=> On(a) \/ a = c)
      BY <1>5, <1>6, <1>19, KeptCopies
    <3> QED BY <1>1, <1>5, <2>2, <3>1 DEF Tracks
  <2>3. \A q \in Routes : \A i \in DOMAIN inflight'[q] : inflight'[q][i] = lane'[q][Landing(q)' + i]
    BY <1>18, <1>20
  <2>4. \A q \in Routes : \A i \in DOMAIN lane'[q] :
          (LET a == lane[q][i] IN
           /\ a \in 1 .. published /\ Queued(a) /\ Route(a) = q
           /\ Done(a) => i = Landing(q)
           /\ acts[a].state = IF i <= Landing(q) /\ ~Done(a) THEN "FINISHED" ELSE "IN_FLIGHT"
           /\ \A j \in DOMAIN lane[q] :
                i < j /\ acts[a].background = acts[lane[q][j]].background => a < lane[q][j])'
    BY <1>18, <1>21, <1>22
  <2> QED BY <2>1, <2>2, <2>3, <2>4 DEF Tracks
<1>24. Numbers'
  <2>1. \A a \in DOMAIN acts : acts'[a].sequence = acts[a].sequence /\ acts[a].sequence \in Nat
    BY <1>7 DEF QueueTypes
  <2>2. submitted <= sequences /\ submitted \in Nat /\ sequences \in Nat /\ sequences' = sequences
    BY <1>3 DEF Numbers, QueueTypes
  <2>3. \A a \in DOMAIN acts : 0 < acts[a].sequence =>
          acts[a].sequence <= sequences /\ (acts[a].sequence <= submitted <=> On(a))
    BY DEF Numbers
  <2>4. \A a, b \in DOMAIN acts : 0 < acts[a].sequence /\ acts[a].sequence = acts[b].sequence => a = b
    BY DEF Numbers
  <2>5. submitted' <= sequences
    BY <1>1, <1>3, <2>2, <2>3
  <2>6. ASSUME NEW a \in DOMAIN acts, 0 < acts[a].sequence
        PROVE  acts[a].sequence <= submitted' <=> On(a)'
    <3>1. On(a)' <=> On(a) \/ a = c
      BY <1>19
    <3>2. CASE acts[c].sequence = 0
      BY <1>3, <2>3, <2>6, <3>1, <3>2
    <3>3. CASE acts[c].sequence = submitted + 1
      <4>1. submitted' = submitted + 1
        BY <1>3, <2>2, <3>3
      <4>2. CASE a = c
        BY <3>1, <3>3, <4>1, <4>2, <2>2
      <4>3. CASE a # c
        <5>1. acts[a].sequence # submitted + 1
          BY <1>1, <2>4, <2>6, <3>3, <4>3
        <5>2. acts[a].sequence <= submitted + 1 <=> acts[a].sequence <= submitted
          BY <2>1, <2>2, <5>1
        <5> QED BY <2>3, <2>6, <3>1, <4>1, <4>3, <5>2
      <4> QED BY <4>2, <4>3
    <3> QED BY <1>1, <3>2, <3>3
  <2> QED BY <1>5, <2>1, <2>2, <2>3, <2>4, <2>5, <2>6 DEF Numbers
<1>25. \A q \in Routes : \A i \in DOMAIN inflight[q] : inflight[q][i] \in DOMAIN acts
  BY <1>4, AloftOnLane
<1>26. \A a \in DOMAIN acts : acts'[a].background = acts[a].background
  BY <1>6, KeptCopies
<1>27. ASSUME NEW q \in Routes, q # r
       PROVE  Loads(q)' = Loads(q)
  <2>1. inflight'[q] = inflight[q]
    BY <1>8, <1>27
  <2> QED BY <1>25, <1>26, <2>1 DEF Loads, Range
<1>28. Loads(r)' = IF acts[c].background THEN Loads(r) \cup {c} ELSE Loads(r)
  <2>1. PICK m : m = Len(inflight[r])
    OBVIOUS
  <2>2. \A e : e \in Range(inflight'[r]) <=> e \in Range(inflight[r]) \/ e = c
    <3>1. \A i : i \in DOMAIN inflight'[r] <=> i \in DOMAIN inflight[r] \/ i = m + 1
      BY <1>8, <2>1
    <3> QED BY <1>8, <2>1, <3>1 DEF Range
  <2>3. \A e : e \in Range(inflight[r]) => e \in DOMAIN acts
    BY <1>1, <1>25 DEF Range
  <2> QED BY <1>1, <1>26, <2>2, <2>3 DEF Loads
<1>29. Window'
  <2> SUFFICES ASSUME NEW q \in Routes
               PROVE  /\ charged'[q] = Total(Weights', Loads(q)')
                      /\ plan'.window # 0 =>
                           Cardinality(Loads(q)') <= 1 \/ charged'[q] <= plan'.window
    BY DEF Window
  <2>1. /\ charged[q] = Total(Weights, Loads(q))
        /\ plan.window # 0 => Cardinality(Loads(q)) <= 1 \/ charged[q] <= plan.window
        /\ Total(Weights', Loads(q)) = Total(Weights, Loads(q))
    BY <1>6, SameCharge DEF Window
  <2>2. CASE Loads(q)' = Loads(q) /\ charged'[q] = charged[q]
    BY <1>3, <2>1, <2>2
  <2>3. CASE q # r
    BY <1>14, <1>27, <2>2, <2>3
  <2>4. CASE q = r /\ ~acts[c].background
    <3>1. Bytes(c) = 0 /\ charged[r] \in Nat
      BY <1>1, <1>13, <2>4 DEF Bytes
    <3> QED BY <1>14, <1>28, <2>2, <2>4, <3>1
  <2>5. CASE q = r /\ acts[c].background
    <3>1. PICK S, w : S = Loads(r) /\ w = Weights'
      OBVIOUS
    <3>2. c \notin S
      <4>1. ASSUME NEW i \in DOMAIN inflight[r]
            PROVE  inflight[r][i] # c
        <5>1. PICK k : k = Landing(r) + i
          OBVIOUS
        <5>2. k \in DOMAIN lane[r] /\ inflight[r][i] = lane[r][k]
          BY <1>1, <5>1, AloftOnLane
        <5> QED BY <1>1, <5>2
      <4> QED BY <3>1, <4>1 DEF Loads, Range
    <3>3. IsFiniteSet(S) /\ \A a \in S : w[a] \in Nat
      <4>1. \A a \in S : a \in DOMAIN acts /\ Weights[a] \in Nat
        BY <1>1, <3>1, LoadsFinite
      <4>2. \A a \in DOMAIN acts : w[a] = Weights[a]
        BY <1>6, <3>1, KeptCopies DEF Weights
      <4> QED BY <1>1, <3>1, <4>1, <4>2, LoadsFinite
    <3>4. w[c] = Bytes(c)
      BY <1>1, <1>6, <3>1, KeptCopies DEF Weights
    <3>5. Total(w, S \cup {c}) = Total(w, S) + Bytes(c)
      BY <1>13, <3>2, <3>3, <3>4, TotalAdd
    <3>6. charged'[r] = Total(w, S \cup {c}) /\ Loads(r)' = S \cup {c}
      BY <1>13, <1>14, <1>28, <2>1, <2>5, <3>1, <3>5
    <3>7. plan.window # 0 => Cardinality(S \cup {c}) <= 1 \/ charged'[r] <= plan.window
      <4>1. CASE charged[r] = 0
        <5>1. S = {}
          BY <1>1, <3>1, <4>1, ChargedNothing
        <5>2. Cardinality({c}) = 1 /\ S \cup {c} = {c}
          BY <5>1, FS_Singleton
        <5> QED BY <5>2
      <4>2. CASE charged[r] # 0
        BY <1>1, <1>14, <2>5, <4>2 DEF Admits
      <4> QED BY <4>1, <4>2
    <3> QED BY <1>3, <2>5, <3>1, <3>6, <3>7
  <2> QED BY <2>3, <2>4, <2>5
<1> QED BY <1>11, <1>12, <1>15, <1>17, <1>23, <1>24, <1>29

\* A submission the object's state refuses after all: the copy is on the lane, but
\* nothing is published, and the runtime stops.
LEMMA RefusedInOrder ==
  ASSUME Discipline, Submit, ~StillValid(worker.action)
  PROVE  LanesInOrder' /\ Stopped'
<1>0. PICK c, r, n : c = worker.action /\ r = Route(c) /\ n = Len(lane[r])
  OBVIOUS
<1>1. /\ c \in DOMAIN acts /\ r \in Routes /\ c \in 1 .. published /\ c \in Nat
      /\ Queued(c) /\ acts[c].state = "QUEUED" /\ acts[c].sequence \in {0, submitted + 1}
      /\ \A j \in DOMAIN lane[r] :
           acts[lane[r][j]].background = acts[c].background => lane[r][j] < c
  BY <1>0, InTheHand
<1>2. /\ lane'[r] = Append(lane[r], c)
      /\ \A q \in Routes : q # r => lane'[q] = lane[q]
      /\ n \in Nat /\ DOMAIN lane[r] = 1 .. n /\ DOMAIN lane'[r] = 1 .. n + 1
      /\ lane'[r][n + 1] = c /\ \A i \in DOMAIN lane[r] : lane'[r][i] = lane[r][i]
  BY <1>0, InTheHand
<1>3. failed' /\ worker'.at = "idle" /\ UNCHANGED << acts, inflight, plan >>
  BY <1>0 DEF Submit, Idle
<1>4. Stopped'
  BY <1>3 DEF Stopped
<1>5. LanesInOrder
  BY DisciplineOrders
<1>6. ASSUME NEW q \in Routes, NEW j \in DOMAIN lane'[q]
      PROVE  \/ j \in DOMAIN lane[q] /\ lane'[q][j] = lane[q][j]
             \/ q = r /\ j = n + 1 /\ lane'[q][j] = c
  <2>1. CASE q # r
    BY <1>2, <2>1
  <2>2. CASE q = r
    <3>1. j \in 1 .. n + 1
      BY <1>2, <2>2
    <3>2. j = n + 1 \/ j \in 1 .. n
      BY <1>2, <3>1
    <3> QED BY <1>2, <2>2, <3>2
  <2> QED BY <2>1, <2>2
<1>7. ASSUME NEW q \in Routes, NEW i \in DOMAIN lane'[q], NEW j \in DOMAIN lane'[q], i < j
      PROVE  i \in DOMAIN lane[q] /\ lane'[q][i] = lane[q][i]
  BY <1>2, <1>6, <1>7
<1>8. ASSUME NEW q \in Routes, NEW i \in DOMAIN lane'[q], NEW j \in DOMAIN lane'[q], i < j
      PROVE  /\ acts'[lane'[q][i]].background = acts'[lane'[q][j]].background
                => lane'[q][i] < lane'[q][j]
             /\ acts'[lane'[q][j]].state = "FINISHED" => acts'[lane'[q][i]].state = "FINISHED"
  <2>1. i \in DOMAIN lane[q] /\ lane'[q][i] = lane[q][i]
    BY <1>7, <1>8
  <2>2. CASE j \in DOMAIN lane[q] /\ lane'[q][j] = lane[q][j]
    BY <1>3, <1>5, <1>8, <2>1, <2>2 DEF LanesInOrder
  <2>3. CASE q = r /\ lane'[q][j] = c
    BY <1>1, <1>3, <2>1, <2>3
  <2> QED BY <1>6, <2>2, <2>3
<1>9. \A e : e \in Range(lane'["evict"]) \cup Range(lane'["fetch"]) =>
        e = c \/ e \in Range(lane["evict"]) \cup Range(lane["fetch"])
  BY <1>6 DEF Range, Routes
<1>10. \A e : e \in Range(lane["evict"]) \cup Range(lane["fetch"]) =>
         e \in Range(lane'["evict"]) \cup Range(lane'["fetch"])
  <2>1. \A q \in Routes : \A i \in DOMAIN lane[q] : i \in DOMAIN lane'[q] /\ lane'[q][i] = lane[q][i]
    <3> SUFFICES ASSUME NEW q \in Routes, NEW i \in DOMAIN lane[q]
                 PROVE  i \in DOMAIN lane'[q] /\ lane'[q][i] = lane[q][i]
      OBVIOUS
    <3>1. CASE q # r
      BY <1>2, <3>1
    <3>2. CASE q = r
      BY <1>2, <3>2
    <3> QED BY <3>1, <3>2
  <2> QED BY <2>1 DEF Range, Routes
<1>11. ASSUME NEW a \in DOMAIN acts, NEW b \in DOMAIN acts,
              0 < acts[a].sequence, acts[a].sequence < acts[b].sequence,
              b \in Range(lane'["evict"]) \cup Range(lane'["fetch"])
       PROVE  a \in Range(lane'["evict"]) \cup Range(lane'["fetch"])
  <2>1. CASE b \in Range(lane["evict"]) \cup Range(lane["fetch"])
    BY <1>5, <1>10, <1>11, <2>1 DEF LanesInOrder
  <2>2. CASE b = c
    <3>1. acts[a].sequence \in Nat /\ submitted \in Nat /\ acts[b].sequence \in Nat
      BY DEF Discipline, QueueTypes
    <3>2. acts[a].sequence <= submitted
      BY <1>1, <1>11, <2>2, <3>1
    <3>3. On(a) /\ Route(a) \in Routes
      BY <1>11, <3>2 DEF Discipline, Numbers, Route, Routes
    <3>4. a \in Range(lane["evict"]) \cup Range(lane["fetch"])
      BY <3>3 DEF On, Range, Routes
    <3> QED BY <1>10, <3>4
  <2> QED BY <1>9, <1>11, <2>1, <2>2
<1>12. ASSUME NEW q \in Routes, plan.window # 0
       PROVE  (LET background == {a \in Range(inflight[q]) : acts[a].background} IN
               \/ Cardinality(background) <= 1
               \/ Total([a \in background |-> Bytes(a)], background) <= plan.window)'
  <2>1. (LET background == {a \in Range(inflight[q]) : acts[a].background} IN
         \/ Cardinality(background) <= 1
         \/ Total([a \in background |-> Bytes(a)], background) <= plan.window)
    BY <1>5, <1>12 DEF LanesInOrder
  <2> QED BY <1>3, <2>1 DEF Bytes
<1>13. LanesInOrder'
  BY <1>3, <1>8, <1>11, <1>12 DEF LanesInOrder
<1> QED BY <1>4, <1>13

\* No action is twice on a lane.
LEMMA OnceOnLane ==
  ASSUME QueueTypes, Tracks, NEW r \in Routes, NEW i \in DOMAIN lane[r], NEW j \in DOMAIN lane[r],
         lane[r][i] = lane[r][j]
  PROVE  i = j
<1>1. i \in Int /\ j \in Int
  BY DEF QueueTypes
<1>2. \A k, l \in DOMAIN lane[r] :
        k < l /\ acts[lane[r][k]].background = acts[lane[r][l]].background => lane[r][k] < lane[r][l]
  BY DEF Tracks
<1>3. lane[r][i] \in Int
  <2>1. lane[r][i] \in 1 .. published /\ published \in Int
    BY ActsListed DEF Tracks
  <2> QED BY <2>1
<1> QED BY <1>1, <1>2, <1>3

\* A list without its first element.
LEMMA Shortened ==
  ASSUME NEW list \in Seq(Nat), list # << >>, NEW rest, rest = Tail(list)
  PROVE  /\ rest \in Seq(Nat) /\ Len(list) \in Nat \ {0} /\ Len(rest) = Len(list) - 1
         /\ DOMAIN list = 1 .. Len(list) /\ DOMAIN rest = 1 .. Len(list) - 1
         /\ Head(list) = list[1] /\ \A i \in DOMAIN rest : rest[i] = list[i + 1]
<1>1. Len(list) \in Nat \ {0} /\ DOMAIN list = 1 .. Len(list) /\ Head(list) = list[1]
  OBVIOUS
<1>2. rest \in Seq(Nat) /\ Len(rest) = Len(list) - 1
  OBVIOUS
<1>3. DOMAIN rest = 1 .. Len(rest)
  BY ONLY <1>2
<1>4. \A i \in 1 .. Len(rest) : rest[i] = list[i + 1]
  BY <1>2
<1> QED BY <1>1, <1>2, <1>3, <1>4

\* The copy the worker commits is the next to land on its lane.
LEMMA NextToLand ==
  ASSUME Discipline, NEW a \in DOMAIN acts, Finish(a), NEW r, r = Route(a)
  PROVE  /\ worker.at = "idle" /\ a \in 1 .. published /\ r \in Routes
         /\ Queued(a) /\ acts[a].state = "IN_FLIGHT"
         /\ inflight[r] \in Seq(Nat) /\ inflight[r] # << >> /\ inflight[r][1] = a
         /\ Landing(r) + 1 \in DOMAIN lane[r] /\ lane[r][Landing(r) + 1] = a
<1> USE DEF Discipline
<1>1. worker.at = "idle" /\ a \in 1 .. published /\ acts[a].state = "IN_FLIGHT" /\ Head(inflight[r]) = a
  BY DEF Finish, Handles
<1>2. r \in Routes /\ Queued(a) /\ On(a)
  BY <1>1 DEF Tracks, Route, Routes
<1>3. PICK i \in DOMAIN lane[r] : lane[r][i] = a
  BY <1>2 DEF On
<1>4. PICK n, m, k : n = Len(lane[r]) /\ m = Len(inflight[r]) /\ k = Landing(r)
  OBVIOUS
<1>5. inflight[r] \in Seq(Nat) /\ n \in Nat /\ m \in Nat /\ k = n - m /\ i \in 1 .. n
  BY <1>2, <1>3, <1>4 DEF QueueTypes, Landing
<1>6. ~(i <= k)
  BY <1>1, <1>2, <1>3, <1>4 DEF Tracks, Done
<1>7. m # 0
  BY <1>5, <1>6
<1>8. inflight[r] # << >> /\ inflight[r][1] = a /\ 1 \in DOMAIN inflight[r]
  BY <1>1, <1>4, <1>5, <1>7
<1>9. Landing(r) + 1 \in DOMAIN lane[r] /\ inflight[r][1] = lane[r][Landing(r) + 1]
  BY <1>2, <1>8, AloftOnLane
<1> QED BY <1>1, <1>2, <1>5, <1>8, <1>9

\* The worker commits a copy: the next on its lane has landed.
LEMMA FinishedInOrder ==
  ASSUME Discipline, NEW a \in DOMAIN acts, Finish(a)
  PROVE  Discipline'
<1> USE DEF Discipline
<1>0. PICK r : r = Route(a)
  OBVIOUS
<1>1. /\ worker.at = "idle" /\ a \in 1 .. published /\ r \in Routes
      /\ Queued(a) /\ acts[a].state = "IN_FLIGHT"
      /\ inflight[r] \in Seq(Nat) /\ inflight[r] # << >> /\ inflight[r][1] = a
      /\ Landing(r) + 1 \in DOMAIN lane[r] /\ lane[r][Landing(r) + 1] = a
  BY <1>0, NextToLand
<1>2. UNCHANGED << acts, planned, waiting, lane, submitted, sequences, boundary, published, plan >>
  BY DEF Finish, device
<1>3. Keeps
  BY <1>2 DEF Keeps
<1>4. published' \in Nat /\ published <= published'
  BY <1>2, ActsListed
<1>5. Batched'
  BY <1>2 DEF Batched
<1>6. Numbers'
  BY <1>2, <1>3, NumbersStay
<1>7. worker'.at # "lane"
  BY <1>1 DEF Finish, Idle
<1>8. Rows'
  BY <1>2, <1>3, <1>4, <1>7, RowsStay
<1>9. CASE UNCHANGED << inflight, charged, worker >>
  <2>1. QueueTypes'
    BY <1>2, <1>9 DEF QueueTypes
  <2>2. Hand'
    BY <1>1, <1>9 DEF Hand
  <2>3. Tracks' /\ Window'
    BY <1>2, <1>3, <1>4, <1>9, TracksStay, WindowStays DEF Done
  <2> QED BY <1>5, <1>6, <1>8, <2>1, <2>2, <2>3
<1>10. CASE /\ inflight' = [inflight EXCEPT ![r] = Tail(@)]
            /\ charged' = Discharge(r, Bytes(a))
            /\ worker'.at = "done" /\ worker'.action = a
  <2>1. Hand'
    BY <1>1, <1>2, <1>10 DEF Hand
  <2>2. PICK m : m = Len(inflight[r])
    OBVIOUS
  <2>3. /\ inflight'[r] = Tail(inflight[r]) /\ inflight'[r] \in Seq(Nat)
        /\ \A q \in Routes : q # r => inflight'[q] = inflight[q]
        /\ m \in Nat \ {0} /\ DOMAIN inflight[r] = 1 .. m /\ DOMAIN inflight'[r] = 1 .. m - 1
        /\ Len(inflight'[r]) = m - 1
        /\ \A i \in DOMAIN inflight'[r] : inflight'[r][i] = inflight[r][i + 1]
        /\ inflight' \in [Routes -> Seq(Nat)]
    <3>1. inflight \in [Routes -> Seq(Nat)]
      BY DEF QueueTypes
    <3>2. inflight'[r] = Tail(inflight[r]) /\ \A q \in Routes : q # r => inflight'[q] = inflight[q]
      BY <1>1, <1>10, <3>1
    <3>3. /\ inflight'[r] \in Seq(Nat) /\ m \in Nat \ {0}
          /\ DOMAIN inflight[r] = 1 .. m /\ DOMAIN inflight'[r] = 1 .. m - 1
          /\ Len(inflight'[r]) = m - 1
          /\ \A i \in DOMAIN inflight'[r] : inflight'[r][i] = inflight[r][i + 1]
      BY <1>1, <2>2, <3>2, Shortened
    <3> QED BY <1>1, <1>10, <3>1, <3>2, <3>3
  <2>4. PICK n, k : n = Len(lane[r]) /\ k = Landing(r)
    OBVIOUS
  <2>5. n \in Nat /\ k = n - m /\ k >= 0 /\ DOMAIN lane[r] = 1 .. n
    BY <1>1, <2>2, <2>4 DEF QueueTypes, Landing, Tracks
  <2>6. Landing(r)' = k + 1 /\ \A q \in Routes : q # r => Landing(q)' = Landing(q)
    <3>1. Landing(r)' = n - (m - 1)
      BY <1>2, <2>3, <2>4 DEF Landing
    <3>2. n - (m - 1) = k + 1
      BY <2>3, <2>5
    <3>3. \A q \in Routes : q # r => Landing(q)' = Landing(q)
      BY <1>2, <2>3 DEF Landing
    <3> QED BY <3>1, <3>2, <3>3
  <2>7. Tracks'
    <3>1. \A q \in Routes : Landing(q)' >= 0
      BY <2>5, <2>6 DEF Tracks
    <3>2. ASSUME NEW q \in Routes, NEW i \in DOMAIN inflight'[q]
          PROVE  inflight'[q][i] = lane'[q][Landing(q)' + i]
      <4>1. CASE q # r
        <5>1. inflight'[q] = inflight[q] /\ i \in DOMAIN inflight[q] /\ Landing(q)' = Landing(q)
          BY <2>3, <2>6, <4>1
        <5>2. inflight[q][i] = lane[q][Landing(q) + i]
          BY <5>1 DEF Tracks
        <5> QED BY <1>2, <5>1, <5>2
      <4>2. CASE q = r
        <5>0. i \in 1 .. m - 1 /\ inflight'[r][i] = inflight[r][i + 1]
          BY <2>3, <4>2
        <5>1. i \in 1 .. m - 1 /\ i + 1 \in 1 .. m /\ inflight'[r][i] = inflight[r][i + 1]
          BY <2>3, <5>0
        <5>2. inflight[r][i + 1] = lane[r][k + (i + 1)]
          BY <1>1, <2>3, <2>4, <5>1 DEF Tracks
        <5>3. k + (i + 1) = (k + 1) + i
          BY <2>3, <2>5, <5>1
        <5> QED BY <1>2, <2>6, <4>2, <5>1, <5>2, <5>3
      <4> QED BY <4>1, <4>2
    <3>3. ASSUME NEW q \in Routes, NEW i \in DOMAIN lane[q], NEW b, b = lane[q][i]
          PROVE  /\ Done(b)' => i = Landing(q)'
                 /\ acts[b].state = IF i <= Landing(q)' /\ ~Done(b)' THEN "FINISHED" ELSE "IN_FLIGHT"
      <4>1. /\ Route(b) = q /\ ~Done(b) /\ (Done(b)' <=> b = a)
            /\ acts[b].state = IF i <= Landing(q) THEN "FINISHED" ELSE "IN_FLIGHT"
        BY <1>1, <1>10, <3>3 DEF Tracks, Done
      <4>2. CASE q # r
        BY <1>0, <2>6, <4>1, <4>2
      <4>3. CASE q = r
        <5>1. i \in 1 .. n /\ k \in Int
          BY <2>5, <4>3
        <5>2. b = a <=> i = k + 1
          BY <1>1, <2>4, <3>3, <4>3, OnceOnLane
        <5>3. i <= k + 1 <=> i <= k \/ i = k + 1
          BY <5>1
        <5> QED BY <2>4, <2>6, <4>1, <4>3, <5>2, <5>3, <1>1
      <4> QED BY <4>2, <4>3
    <3>4. \A q \in Routes : \A i \in DOMAIN lane'[q] :
            (LET b == lane[q][i] IN
             /\ b \in 1 .. published /\ Queued(b) /\ Route(b) = q
             /\ Done(b) => i = Landing(q)
             /\ acts[b].state = IF i <= Landing(q) /\ ~Done(b) THEN "FINISHED" ELSE "IN_FLIGHT"
             /\ \A j \in DOMAIN lane[q] :
                  i < j /\ acts[b].background = acts[lane[q][j]].background => b < lane[q][j])'
      <4> SUFFICES ASSUME NEW q \in Routes, NEW i \in DOMAIN lane[q]
                   PROVE  (LET b == lane[q][i] IN
                           /\ b \in 1 .. published /\ Queued(b) /\ Route(b) = q
                           /\ Done(b) => i = Landing(q)
                           /\ acts[b].state = IF i <= Landing(q) /\ ~Done(b) THEN "FINISHED" ELSE "IN_FLIGHT"
                           /\ \A j \in DOMAIN lane[q] :
                                i < j /\ acts[b].background = acts[lane[q][j]].background => b < lane[q][j])'
        BY <1>2
      <4>0. PICK b : b = lane[q][i]
        OBVIOUS
      <4>1. /\ b \in 1 .. published /\ Queued(b) /\ Route(b) = q
            /\ \A j \in DOMAIN lane[q] :
                 i < j /\ acts[b].background = acts[lane[q][j]].background => b < lane[q][j]
        BY <4>0 DEF Tracks
      <4>2. /\ Done(b)' => i = Landing(q)'
            /\ acts[b].state = IF i <= Landing(q)' /\ ~Done(b)' THEN "FINISHED" ELSE "IN_FLIGHT"
        BY <3>3, <4>0
      <4>3. lane'[q][i] = b /\ Queued(b)' /\ Route(b)' = q
        BY <1>2, <4>0, <4>1 DEF Queued, Route
      <4> QED BY <1>2, <4>1, <4>2, <4>3 DEF Queued, Route, Done
    <3>5. ASSUME NEW b \in DOMAIN acts', acts'[b].state = "IN_FLIGHT"
          PROVE  Queued(b)' /\ On(b)'
      BY <1>2, <3>5 DEF Tracks, Queued, On, Route
    <3> QED BY <3>1, <3>2, <3>4, <3>5 DEF Tracks
  <2>8. Bytes(a) \in Nat /\ charged \in [Routes -> Nat]
    <3>1. plan.size \in [Objects -> Nat \ {0}] /\ acts[a].obj \in Objects
      BY PlansAssumption DEF QueueTypes, Plan
    <3> QED BY <3>1 DEF QueueTypes, Bytes
  <2>9. charged'[r] = (IF Bytes(a) > charged[r] THEN 0 ELSE charged[r] - Bytes(a))
        /\ charged' \in [Routes -> Nat] /\ \A q \in Routes : q # r => charged'[q] = charged[q]
    BY <1>1, <1>10, <2>8 DEF Discharge
  <2>10. QueueTypes'
    BY <1>2, <2>3, <2>9 DEF QueueTypes
  <2>11. Window'
    <3> SUFFICES ASSUME NEW q \in Routes
                 PROVE  /\ charged'[q] = Total(Weights, Loads(q)')
                        /\ plan.window # 0 =>
                             Cardinality(Loads(q)') <= 1 \/ charged'[q] <= plan.window
      BY <1>2 DEF Window, Weights, Bytes
    <3>1. /\ charged[q] = Total(Weights, Loads(q))
          /\ plan.window # 0 => Cardinality(Loads(q)) <= 1 \/ charged[q] <= plan.window
      BY DEF Window
    <3>2. CASE Loads(q)' = Loads(q) /\ charged'[q] = charged[q]
      BY <3>1, <3>2
    <3>3. CASE q # r
      <4>1. Loads(q)' = Loads(q)
        BY <1>2, <2>3, <3>3 DEF Loads
      <4> QED BY <2>9, <3>2, <3>3, <4>1
    <3>4. CASE q = r
      <4>1. \A e : e \in Range(inflight'[r]) <=> e \in Range(inflight[r]) /\ e # a
        <5>1. ASSUME NEW i \in DOMAIN inflight'[r]
              PROVE  inflight'[r][i] \in Range(inflight[r]) /\ inflight'[r][i] # a
          <6>1. i \in 1 .. m - 1 /\ i + 1 \in DOMAIN inflight[r] /\ inflight'[r][i] = inflight[r][i + 1]
            BY <2>3
          <6>2. /\ Landing(r) + (i + 1) \in DOMAIN lane[r]
                /\ inflight[r][i + 1] = lane[r][Landing(r) + (i + 1)]
            BY <1>1, <6>1, AloftOnLane
          <6>3. k + (i + 1) # k + 1
            BY <2>5, <2>3, <6>1
          <6>4. inflight[r][i + 1] # a
            BY <1>1, <2>4, <6>2, <6>3, OnceOnLane
          <6> QED BY <6>1, <6>4 DEF Range
        <5>2. ASSUME NEW i \in DOMAIN inflight[r], inflight[r][i] # a
              PROVE  inflight[r][i] \in Range(inflight'[r])
          <6>1. i # 1 /\ i \in 1 .. m
            BY <1>1, <2>3, <5>2
          <6>2. i - 1 \in 1 .. m - 1 /\ (i - 1) + 1 = i
            BY <2>3, <6>1
          <6>3. inflight'[r][i - 1] = inflight[r][i]
            BY <2>3, <6>2
          <6> QED BY <2>3, <6>2, <6>3 DEF Range
        <5> QED BY <5>1, <5>2 DEF Range
      <4>2. Loads(r)' = Loads(r) \ {a}
        BY <1>2, <4>1 DEF Loads
      <4>3. CASE ~acts[a].background
        <5>1. Loads(r)' = Loads(r) /\ Bytes(a) = 0
          BY <4>2, <4>3 DEF Loads, Bytes
        <5>2. charged'[r] = charged[r]
          BY <2>8, <2>9, <5>1, <1>1
        <5> QED BY <3>2, <3>4, <5>1, <5>2
      <4>4. CASE acts[a].background
        <5>1. PICK S, w : S = Loads(r) /\ w = Weights
          OBVIOUS
        <5>2. a \in S /\ IsFiniteSet(S) /\ w[a] = Bytes(a) /\ \A e \in S : w[e] \in Nat
          <6>1. a \in S
            BY <1>1, <2>3, <4>4, <5>1 DEF Loads, Range
          <6> QED BY <1>1, <5>1, <6>1, LoadsFinite DEF Weights
        <5>3. Total(w, S) = w[a] + Total(w, S \ {a})
          BY <5>2, TotalRemove
        <5>4. IsFiniteSet(S \ {a}) /\ Total(w, S \ {a}) \in Nat
          <6>1. IsFiniteSet(S \ {a})
            BY <5>2, FS_Subset
          <6> QED BY <5>2, <6>1, TotalType
        <5>5. charged'[r] = Total(w, S \ {a}) /\ charged'[r] <= charged[r]
          BY <2>8, <2>9, <3>1, <3>4, <5>1, <5>2, <5>3, <5>4
        <5>6. Cardinality(S \ {a}) <= Cardinality(S) /\ Cardinality(S) \in Nat
              /\ Cardinality(S \ {a}) \in Nat
          BY <5>2, <5>4, FS_Subset, FS_CardinalityType
        <5>7. plan.window \in Nat
          BY PlansAssumption DEF QueueTypes, Plan
        <5>8. plan.window # 0 => Cardinality(S \ {a}) <= 1 \/ charged'[r] <= plan.window
          BY <1>1, <2>8, <2>9, <3>1, <3>4, <5>1, <5>5, <5>6, <5>7
        <5> QED BY <3>4, <4>2, <5>1, <5>5, <5>8
      <4> QED BY <4>3, <4>4
    <3> QED BY <3>3, <3>4
  <2> QED BY <1>5, <1>6, <1>8, <2>1, <2>7, <2>10, <2>11
<1> QED BY <1>0, <1>9, <1>10 DEF Finish, Idle

\* The worker takes an action off its object's list.
LEMMA CompletedInOrder ==
  ASSUME Discipline, CompleteAction
  PROVE  Discipline'
<1> USE DEF Discipline
<1>0. PICK c : c = worker.action
  OBVIOUS
<1>1. /\ worker.at = "done" /\ worker'.at = "idle" /\ acts' = [acts EXCEPT ![c].state = "FINISHED"]
      /\ UNCHANGED << planned, waiting, inflight, charged, submitted, sequences, boundary, published,
                      lane, plan >>
  BY <1>0 DEF CompleteAction, device, Idle
<1>2. /\ Len(acts) \in Nat /\ DOMAIN acts = 1 .. Len(acts) /\ published \in 0 .. Len(acts)
      /\ c \in 1 .. published /\ c \in DOMAIN acts
      /\ Queued(c) => acts[c].state = "IN_FLIGHT"
  <2>1. c \in 1 .. published /\ (Queued(c) => acts[c].state = "IN_FLIGHT")
    BY <1>0, <1>1 DEF Hand
  <2> QED BY <2>1, ActsListed
<1>3. /\ acts' \in Seq(Range(acts')) /\ Len(acts') = Len(acts) /\ DOMAIN acts' = DOMAIN acts
      /\ \A a \in DOMAIN acts : a # c => acts'[a] = acts[a]
      /\ DOMAIN acts'[c] = Fields /\ acts'[c].obj = acts[c].obj
      /\ acts'[c].background = acts[c].background
      /\ acts'[c].state = "FINISHED" /\ acts'[c].sequence = acts[c].sequence
      /\ Keeps
  BY <1>1, <1>2, Restated
<1>4. published' \in Nat /\ published <= published'
  BY <1>1, <1>2
<1>5. QueueTypes'
  <2>1. ASSUME NEW a \in DOMAIN acts
        PROVE  /\ DOMAIN acts'[a] = Fields /\ acts'[a].obj \in Objects
               /\ acts'[a].background \in BOOLEAN /\ acts'[a].sequence \in Nat
    <3>1. /\ DOMAIN acts[a] = Fields /\ acts[a].obj \in Objects
          /\ acts[a].background \in BOOLEAN /\ acts[a].sequence \in Nat
      BY DEF QueueTypes
    <3> QED BY <1>3, <3>1
  <2> QED BY <1>1, <1>3, <2>1 DEF QueueTypes
<1>6. Batched'
  <2>1. \A a \in published' + 1 .. Len(acts') :
          a \in DOMAIN acts /\ a \in published + 1 .. Len(acts) /\ a # c
    BY <1>1, <1>2, <1>3
  <2> QED BY <1>1, <1>3, <2>1 DEF Batched
<1>7. \A a \in DOMAIN acts : Queued(a) /\ acts[a].state = "QUEUED" => acts'[a].state = "QUEUED"
  BY <1>2, <1>3
<1>8. Rows'
  BY <1>1, <1>3, <1>4, <1>7, RowsStay
<1>9. Hand'
  BY <1>1 DEF Hand
<1>10. \A a \in DOMAIN acts : acts'[a].sequence = acts[a].sequence
  BY <1>3
<1>11. Numbers' /\ Window'
  BY <1>1, <1>3, <1>10, NumbersStay, WindowStays
<1>12. \A r \in Routes : Landing(r)' = Landing(r)
  BY <1>1 DEF Landing
<1>13. \A a : ~Done(a)' /\ (Done(a) <=> a = c)
  BY <1>0, <1>1 DEF Done
<1>14. ASSUME NEW r \in Routes, NEW i \in DOMAIN lane[r], NEW a, a = lane[r][i]
       PROVE  /\ a \in 1 .. published /\ Queued(a)' /\ Route(a)' = r
              /\ acts'[a].state = IF i <= Landing(r) THEN "FINISHED" ELSE "IN_FLIGHT"
              /\ \A j \in DOMAIN lane[r] :
                   i < j /\ acts'[a].background = acts'[lane[r][j]].background => a < lane[r][j]
  <2>1. /\ a \in 1 .. published /\ Queued(a) /\ Route(a) = r
        /\ a = c => i = Landing(r)
        /\ acts[a].state = IF i <= Landing(r) /\ a # c THEN "FINISHED" ELSE "IN_FLIGHT"
        /\ \A j \in DOMAIN lane[r] :
             i < j /\ acts[a].background = acts[lane[r][j]].background => a < lane[r][j]
    BY <1>13, <1>14 DEF Tracks
  <2>2. a \in DOMAIN acts /\ \A j \in DOMAIN lane[r] : lane[r][j] \in DOMAIN acts
    BY <1>14, ActsListed DEF Tracks
  <2>3. (Queued(a)' <=> Queued(a)) /\ Route(a)' = Route(a)
    BY <1>3, <2>2, KeptCopies
  <2>4. \A b \in DOMAIN acts : acts'[b].background = acts[b].background
    BY <1>3
  <2>5. acts'[a].state = IF i <= Landing(r) THEN "FINISHED" ELSE "IN_FLIGHT"
    <3>1. CASE a # c
      BY <1>3, <2>1, <2>2, <3>1
    <3>2. CASE a = c
      <4>1. i = Landing(r) /\ Landing(r) \in Int
        BY <2>1, <3>2 DEF QueueTypes, Landing
      <4> QED BY <1>3, <3>2, <4>1
    <3> QED BY <3>1, <3>2
  <2> QED BY <2>1, <2>2, <2>3, <2>4, <2>5
<1>15. ASSUME NEW b \in DOMAIN acts, acts'[b].state = "IN_FLIGHT"
       PROVE  Queued(b)' /\ On(b)'
  <2>1. acts[b].state = "IN_FLIGHT"
    BY <1>3, <1>15
  <2>2. Queued(b) /\ On(b) /\ (Queued(b)' <=> Queued(b)) /\ Route(b)' = Route(b)
    BY <1>3, <2>1, KeptCopies DEF Tracks
  <2> QED BY <1>1, <2>2 DEF On
<1>16. Tracks'
  <2>1. \A r \in Routes : Landing(r)' >= 0
    BY <1>12 DEF Tracks
  <2>2. \A r \in Routes : \A i \in DOMAIN inflight'[r] : inflight'[r][i] = lane'[r][Landing(r)' + i]
    BY <1>1, <1>12 DEF Tracks
  <2>3. \A r \in Routes : \A i \in DOMAIN lane'[r] :
          (LET a == lane[r][i] IN
           /\ a \in 1 .. published /\ Queued(a) /\ Route(a) = r
           /\ Done(a) => i = Landing(r)
           /\ acts[a].state = IF i <= Landing(r) /\ ~Done(a) THEN "FINISHED" ELSE "IN_FLIGHT"
           /\ \A j \in DOMAIN lane[r] :
                i < j /\ acts[a].background = acts[lane[r][j]].background => a < lane[r][j])'
    BY <1>1, <1>12, <1>13, <1>14
  <2> QED BY <1>3, <1>15, <2>1, <2>2, <2>3 DEF Tracks
<1> QED BY <1>5, <1>6, <1>8, <1>9, <1>11, <1>16

\* A step after which every queue and every lane is as it was: the worker may have
\* handled an action that copies nothing.
LEMMA SteadyInOrder ==
  ASSUME Discipline, Batched',
         UNCHANGED << acts, planned, waiting, inflight, charged, submitted, sequences, published,
                      lane, plan >>,
         boundary' \in [at : {"idle", "task", "batch", "await"}, background : BOOLEAN,
                        update : Objects \cup {None}, batch : Seq(Nat)],
         \/ worker' = worker
         \/ /\ worker.at = "idle" /\ worker'.at = "done"
            /\ worker'.action \in 1 .. published /\ ~Queued(worker'.action)
  PROVE  Discipline'
<1> USE DEF Discipline
<1>1. Keeps
  BY DEF Keeps
<1>2. published' \in Nat /\ published <= published'
  BY ActsListed
<1>3. QueueTypes'
  BY DEF QueueTypes
<1>4. Numbers' /\ Window'
  BY <1>1, NumbersStay, WindowStays
<1>5. \A a \in DOMAIN acts :
        acts'[a].state = acts[a].state /\ (Queued(a) => (Done(a)' <=> Done(a)))
  BY DEF Done
<1>6. Tracks'
  BY <1>1, <1>2, <1>5, TracksStay
<1>7. worker'.at = "lane" => worker' = worker /\ worker.action \in DOMAIN acts
  BY ActsListed DEF Hand
<1>8. Rows'
  BY <1>1, <1>2, <1>7, RowsStay
<1>9. Hand'
  <2>1. CASE worker' = worker
    BY <1>1, <1>2, <2>1, HandStays
  <2>2. CASE /\ worker'.at = "done"
             /\ worker'.action \in 1 .. published /\ ~Queued(worker'.action)
    BY <2>2 DEF Hand, Queued
  <2> QED BY <2>1, <2>2
<1> QED BY <1>3, <1>4, <1>6, <1>8, <1>9

\* What the boundary does to the lanes before it publishes, and after: nothing.
LEMMA BoundaryInOrder ==
  ASSUME Discipline,
         \/ \E o \in Objects, mutates \in BOOLEAN : BeginTask(o, mutates)
         \/ PublishMutation \/ BeginActionBatch \/ Acknowledge
  PROVE  Discipline'
<1> USE DEF Discipline
<1>1. /\ worker' = worker
      /\ UNCHANGED << acts, planned, waiting, inflight, charged, submitted, sequences, published,
                      lane, plan >>
  BY DEF BeginTask, PublishMutation, BeginActionBatch, Acknowledge, device
<1>2. boundary \in [at : {"idle", "task", "batch", "await"}, background : BOOLEAN,
                    update : Objects \cup {None}, batch : Seq(Nat)]
  BY DEF QueueTypes
<1>3. Outside \in [at : {"idle", "task", "batch", "await"}, background : BOOLEAN,
                   update : Objects \cup {None}, batch : Seq(Nat)]
      /\ Outside.batch = << >> /\ Outside.at = "idle"
  BY DEF Outside
<1>4. published \in Nat /\ Len(acts) \in Nat
  BY ActsListed
<1>5. /\ boundary' \in [at : {"idle", "task", "batch", "await"}, background : BOOLEAN,
                        update : Objects \cup {None}, batch : Seq(Nat)]
      /\ boundary'.at # "batch" => published = Len(acts)
      /\ boundary'.at = "task" => boundary'.batch = << >>
      /\ boundary'.at = "batch" => boundary'.batch = << >> /\ published = Len(acts)
      \/ boundary' = boundary
  <2>1. CASE \E o \in Objects, mutates \in BOOLEAN : BeginTask(o, mutates)
    <3>1. PICK o \in Objects, mutates \in BOOLEAN : BeginTask(o, mutates)
      BY <2>1
    <3>2. CASE boundary' = [Outside EXCEPT !.at = "task", !.update = IF mutates THEN o ELSE None]
      BY <1>3, <3>1, <3>2 DEF Batched, BeginTask
    <3> QED BY <3>1, <3>2 DEF BeginTask
  <2>2. CASE PublishMutation
    <3>1. boundary' = [boundary EXCEPT !.at = "batch", !.update = None] /\ boundary.at = "task"
      BY <2>2 DEF PublishMutation
    <3> QED BY <1>2, <3>1 DEF Batched
  <2>3. CASE BeginActionBatch
    <3>1. boundary' = [Outside EXCEPT !.at = "batch", !.background = TRUE] /\ boundary.at = "idle"
      BY <2>3 DEF BeginActionBatch
    <3> QED BY <1>3, <3>1 DEF Batched
  <2>4. CASE Acknowledge
    BY <1>3, <2>4 DEF Batched, Acknowledge
  <2> QED BY <2>1, <2>2, <2>3, <2>4
<1>6. boundary' \in [at : {"idle", "task", "batch", "await"}, background : BOOLEAN,
                     update : Objects \cup {None}, batch : Seq(Nat)]
  BY <1>2, <1>5
<1>7. Batched'
  <2>1. CASE boundary' = boundary
    BY <1>1, <2>1 DEF Batched
  <2>2. CASE /\ boundary'.at # "batch" => published = Len(acts)
             /\ boundary'.at = "task" => boundary'.batch = << >>
             /\ boundary'.at = "batch" => boundary'.batch = << >> /\ published = Len(acts)
    <3>1. \A e \in Nat : e + 1 .. e = {}
      OBVIOUS
    <3>2. Range(<< >>) = {}
      BY DEF Range
    <3> QED BY <1>1, <1>4, <2>2, <3>1, <3>2 DEF Batched
  <2> QED BY <1>5, <2>1, <2>2
<1> QED BY <1>1, <1>6, <1>7, SteadyInOrder

\* Actions that copy nothing, and actions refused, move nothing on a lane.
LEMMA HandledInOrder ==
  ASSUME Discipline, NEW a \in DOMAIN acts,
         HandleRelease(a) \/ SkipWriteBack(a) \/ (Handles(a) /\ Reject(a))
  PROVE  Discipline'
<1> USE DEF Discipline
<1>1. /\ UNCHANGED << acts, planned, waiting, inflight, charged, submitted, sequences, published,
                      boundary, lane, plan >>
      /\ worker.at = "idle" /\ a \in 1 .. published
  BY DEF HandleRelease, SkipWriteBack, Reject, Handles, device
<1>2. \/ worker' = worker
      \/ /\ worker.at = "idle" /\ worker'.at = "done"
         /\ worker'.action \in 1 .. published /\ ~Queued(worker'.action)
  <2>1. CASE HandleRelease(a)
    BY <1>1, <2>1 DEF HandleRelease, Idle, Queued
  <2>2. CASE SkipWriteBack(a)
    BY <1>1, <2>2 DEF SkipWriteBack, Idle, Queued
  <2>3. CASE Reject(a)
    BY <2>3 DEF Reject
  <2> QED BY <2>1, <2>2, <2>3
<1>3. Batched'
  BY <1>1 DEF Batched
<1>4. boundary' \in [at : {"idle", "task", "batch", "await"}, background : BOOLEAN,
                     update : Objects \cup {None}, batch : Seq(Nat)]
  BY <1>1 DEF QueueTypes
<1> QED BY <1>1, <1>2, <1>3, <1>4, SteadyInOrder

\* The device moves nothing that the host keeps.
LEMMA DeviceInOrder ==
  ASSUME RunTask \/ (\E r \in Routes : RunCopy(r)) \/ UNCHANGED vars
  PROVE  UNCHANGED << acts, planned, waiting, inflight, charged, submitted, sequences, published,
                      boundary, worker, failed, lane, plan >>
BY DEF RunTask, RunCopy, vars, host, device

\* Nothing is scheduled and nothing copied to begin with.
LEMMA InitInOrder == Init => Discipline
<1> SUFFICES ASSUME Init PROVE Discipline
  OBVIOUS
<1>1. /\ acts = << >> /\ Len(acts) = 0 /\ DOMAIN acts = {} /\ published = 0
      /\ boundary = Outside /\ worker.at = "idle" /\ submitted = 0 /\ sequences = 0 /\ plan \in Plans
  BY DEF Init, Idle
<1>2. \A r \in Routes : planned[r] = << >> /\ waiting[r] = << >> /\ inflight[r] = << >>
                        /\ lane[r] = << >> /\ charged[r] = 0
  BY DEF Init
<1>3. QueueTypes
  <2>1. acts \in Seq(Range(acts))
    BY <1>1
  <2>2. << >> \in Seq(Nat)
    OBVIOUS
  <2>3. boundary \in [at : {"idle", "task", "batch", "await"}, background : BOOLEAN,
                      update : Objects \cup {None}, batch : Seq(Nat)]
    BY <1>1, <2>2 DEF Outside
  <2>4. /\ planned \in [Routes -> Seq(Nat)] /\ waiting \in [Routes -> Seq(Nat)]
        /\ inflight \in [Routes -> Seq(Nat)] /\ lane \in [Routes -> Seq(Nat)]
        /\ charged \in [Routes -> Nat]
    BY <2>2 DEF Init
  <2> QED BY <1>1, <2>1, <2>3, <2>4 DEF QueueTypes
<1>4. Batched
  BY <1>1 DEF Batched, Outside
<1>5. Rows
  BY <1>1, <1>2 DEF Rows, Queue
<1>6. Hand
  BY <1>1 DEF Hand
<1>7. Tracks
  BY <1>1, <1>2 DEF Tracks, Landing
<1>8. Numbers
  BY <1>1 DEF Numbers
<1>9. Window
  <2> SUFFICES ASSUME NEW r \in Routes
               PROVE  /\ charged[r] = Total(Weights, Loads(r))
                      /\ plan.window # 0 => Cardinality(Loads(r)) <= 1 \/ charged[r] <= plan.window
    BY DEF Window
  <2>1. PICK S, w : S = Loads(r) /\ w = Weights
    OBVIOUS
  <2>2. S = {}
    BY <1>2, <2>1 DEF Loads, Range
  <2>3. Cardinality(S) = 0
    BY <2>2, FS_EmptySet
  <2>4. Total(w, S) = 0
    BY <2>2, TotalEmpty
  <2> QED BY <1>2, <2>1, <2>3, <2>4
<1> QED BY <1>3, <1>4, <1>5, <1>6, <1>7, <1>8, <1>9 DEF Discipline

\* A step that keeps the discipline keeps the lanes in order.
LEMMA Ordering == Discipline => LanesInOrder
BY DisciplineOrders

LEMMA OrderingAfter == (Discipline => LanesInOrder)'
BY Ordering, PTL

LEMMA Settled ==
  ASSUME Discipline'
  PROVE  QInv'
BY OrderingAfter DEF QInv

\* Every step keeps the discipline, or stops the runtime with the lanes in order.
LEMMA StepInOrder == QInv /\ [Next]_vars => QInv'
<1> SUFFICES ASSUME QInv, [Next]_vars PROVE QInv'
  OBVIOUS
<1>1. CASE RunTask \/ (\E r \in Routes : RunCopy(r)) \/ UNCHANGED vars
  <2>1. UNCHANGED << acts, planned, waiting, inflight, charged, submitted, sequences, published,
                     boundary, worker, failed, lane, plan >>
    BY <1>1, DeviceInOrder
  <2>2. LanesInOrder'
    BY <2>1 DEF QInv, LanesInOrder, Bytes
  <2>3. CASE Stopped
    BY <2>1, <2>2, <2>3 DEF QInv, Stopped
  <2>4. CASE Discipline
    <3>1. Batched'
      BY <2>1, <2>4 DEF Discipline, Batched
    <3>2. boundary' \in [at : {"idle", "task", "batch", "await"}, background : BOOLEAN,
                         update : Objects \cup {None}, batch : Seq(Nat)]
      BY <2>1, <2>4 DEF Discipline, QueueTypes
    <3>3. Discipline'
      BY <2>1, <2>4, <3>1, <3>2, SteadyInOrder
    <3> QED BY <2>2, <3>3 DEF QInv
  <2> QED BY <2>3, <2>4 DEF QInv
<1>2. CASE Stopped /\ (Dispatcher \/ Worker)
  BY <1>2 DEF Stopped, Dispatcher, Worker, BeginTask, PublishMutation, BeginActionBatch,
              InstantiateAction, PublishBatch, Acknowledge, HandleRelease, SkipWriteBack,
              HandleTransfer, Finish, Handles, ReturnClaim, Submit, CompleteAction
<1>3. CASE Discipline /\ (Dispatcher \/ Worker)
  <2>1. CASE Dispatcher
    <3>1. CASE \/ \E o \in Objects, mutates \in BOOLEAN : BeginTask(o, mutates)
               \/ PublishMutation \/ BeginActionBatch \/ Acknowledge
      BY <1>3, <3>1, BoundaryInOrder, Settled
    <3>2. CASE \E kind \in plan.kinds, o \in Objects : InstantiateAction(kind, o, NoRange)
      BY <1>3, <3>2, ScheduledInOrder, Settled
    <3>3. CASE \E o \in Objects, pred \in Promisable : InstantiateAction("FETCH", o, pred)
      BY <1>3, <3>3, ScheduledInOrder, Settled
    <3>4. CASE PublishBatch
      BY <1>3, <3>4, PublishedInOrder, Settled
    <3> QED BY <2>1, <3>1, <3>2, <3>3, <3>4 DEF Dispatcher
  <2>2. CASE Worker
    <3>1. ASSUME NEW a \in DOMAIN acts, HandleRelease(a) \/ SkipWriteBack(a) \/ HandleTransfer(a) \/ Finish(a)
          PROVE  QInv'
      <4>1. CASE HandleRelease(a) \/ SkipWriteBack(a) \/ (Handles(a) /\ Reject(a))
        BY <1>3, <4>1, HandledInOrder, Settled
      <4>2. CASE Handles(a) /\ Queued(a) /\ acts[a].state = "QUEUED" /\ Claim(a)
        BY <1>3, <4>2, ClaimedInOrder, Settled
      <4>3. CASE Finish(a)
        BY <1>3, <4>3, FinishedInOrder, Settled
      <4> QED BY <3>1, <4>1, <4>2, <4>3 DEF HandleTransfer
    <3>2. CASE ReturnClaim
      BY <1>3, <3>2, ReturnedInOrder, Settled
    <3>3. CASE Submit /\ StillValid(worker.action)
      BY <1>3, <3>3, SubmittedInOrder, Settled
    <3>4. CASE Submit /\ ~StillValid(worker.action)
      BY <1>3, <3>4, RefusedInOrder DEF QInv
    <3>5. CASE CompleteAction
      BY <1>3, <3>5, CompletedInOrder, Settled
    <3> QED BY <2>2, <3>1, <3>2, <3>3, <3>4, <3>5 DEF Worker
  <2> QED BY <1>3, <2>1, <2>2
<1> QED BY <1>1, <1>2, <1>3 DEF QInv, Next

\* The lanes keep their discipline, whatever the plans, whatever the lanes ask to be
\* retried, and whatever fails: the copies of a lane are submitted in the order the
\* boundaries scheduled them and committed in the order they were submitted,
\* collective copies reach the lanes in the order they were numbered, and the
\* background window bounds what is in flight.
THEOREM LaneOrder == Spec => []LanesInOrder
<1>1. Init => QInv
  BY InitInOrder, DisciplineOrders DEF QInv
<1>2. QInv /\ [Next]_vars => QInv'
  BY StepInOrder
<1>3. QInv => LanesInOrder
  BY DEF QInv
<1> QED BY <1>1, <1>2, <1>3, PTL DEF Spec
=============================================================================
