---------------------------- MODULE FixedLayout ----------------------------
(***************************************************************************)
(* Fixed-layout admission (planner/admission/layout/build.py with the      *)
(* readable passes of reference/python/admission): the schedule is         *)
(* replayed into leases, each lease gets the lifetime the simulation       *)
(* predicted, leases are placed at fixed offsets, what makes shared        *)
(* offsets safe is recovered as reuse dependencies, and the schedule is    *)
(* simulated again under them.  Phase "plan" is the first simulation, with *)
(* its intervals recorded as event counts; Measure builds the layout and   *)
(* Certify judges it; phase "run" is the second simulation, whose events   *)
(* come in any order.                                                      *)
(* A problem also carries the admission facts:                             *)
(*   steps      per task, sequence of [ordinal, bytes, alias, reuses];     *)
(*              bytes 0 is a release                                       *)
(*   replaced   per task, aliases given a new generation                   *)
(*   handoffs   per task, set of [from, to]                                *)
(*   align, pool, resident   alignment, pool bytes, resident-slice aliases *)
(***************************************************************************)
EXTENDS Simulator, Placement

\* What TaskAdmissionSpec._validate_allocation_steps and the schedule's own order ask of
\* the facts: what a step reuses or releases the task has allocated before.
FactsShaped(p) ==
  /\ p.align \in Nat \ {0}
  /\ p.steps \in [TaskIds(p) -> Seq([ordinal : Nat, bytes : Nat, alias : Groups(p) \cup {None},
                                     reuses : Nat \cup {None}])]
  /\ \A t \in TaskIds(p) : \A k \in DOMAIN p.steps[t] :
       LET step == p.steps[t][k]
           Earlier(o) == \E j \in 1..(k - 1) : /\ p.steps[t][j].bytes > 0
                                               /\ p.steps[t][j].ordinal = o
       IN  /\ step.bytes = 0 => Earlier(step.ordinal)
           /\ step.bytes > 0 /\ step.reuses # None => Earlier(step.reuses)
  /\ p.replaced \in [TaskIds(p) -> SUBSET Groups(p)]
  /\ \A t \in TaskIds(p) : IsFiniteSet(p.handoffs[t])
  /\ ActionsOrdered(p)

FactsValid == \A p \in Problems : FactsShaped(p)

VARIABLES phase,               \* "plan", "measured", "run", or why there is no layout
          clock, start, end,   \* intervals of the tasks,
          landed,              \* ends of the transfers, by action
          layout, holder       \* the certificate; latest lease begun, per byte

times == <<clock, start, end, landed>>
fixedVars == <<vars, phase, times, layout, holder>>

-----------------------------------------------------------------------------
(* replay.py: one lease per object generation.  The walk keeps the number  *)
(* of operations appended, the leases with their two operations, the lease *)
(* of each active alias, what each task reads and each copy reads from.    *)

Acquire(r, bytes_, purpose, t, a, i) ==
  [r EXCEPT !.ops = @ + 1,
            !.leases = Append(@, [bytes |-> bytes_, purpose |-> purpose, task |-> t,
                                  alias |-> a, action |-> i, start |-> r.ops + 1,
                                  end |-> None, by |-> None])]

\* A retirement behind the completion of a task or of an eviction's copy.
Retire(r, lease, by) ==
  [r EXCEPT !.ops = @ + 1, !.leases[lease].end = r.ops + 1, !.leases[lease].by = by]

Activate(r, a, lease) ==
  [r EXCEPT !.active = [b \in DOMAIN @ \cup {a} |-> IF b = a THEN lease ELSE @[b]]]
Deactivate(r, a) == [r EXCEPT !.active = [b \in DOMAIN @ \ {a} |-> @[b]]]

AcquireInitialObjects(p) ==
  FoldSet(LAMBDA a, r : LET q == Acquire(r, p.size[a], "initial", None, a, None)
                        IN  Activate(q, a, Len(q.leases)),
          [ops |-> 0, leases |-> <<>>, active |-> <<>>, reads |-> <<>>, sources |-> <<>>,
           slots |-> <<>>, freed |-> <<>>, ok |-> TRUE],
          p.initDev \ ZeroSize(p))

\* An allocation step: a reused ordinal's lease gets a new identity.
StepPurpose(p, t, step) ==
  IF step.alias = None THEN "workspace"
  ELSE IF step.alias \in p.replaced[t] THEN "replacement" ELSE "output"

Reused(p, t, ordinal) ==
  \E k \in DOMAIN p.steps[t] : p.steps[t][k].bytes > 0 /\ p.steps[t][k].reuses = ordinal

AllocationStep(p, t, r, step) ==
  LET Slot(q, lease) == [q EXCEPT !.slots = [o \in DOMAIN @ \cup {step.ordinal} |->
                                               IF o = step.ordinal THEN lease ELSE @[o]]]
  IN  IF step.bytes = 0
      THEN IF Reused(p, t, step.ordinal) THEN r
           ELSE [r EXCEPT !.freed = Append(@, r.slots[step.ordinal])]
      ELSE IF step.reuses = None
      THEN LET q == Acquire(r, step.bytes, StepPurpose(p, t, step), t, step.alias, None)
           IN  Slot(q, Len(q.leases))
      ELSE LET lease == r.slots[step.reuses]
           IN  Slot([r EXCEPT !.leases[lease].purpose = StepPurpose(p, t, step),
                              !.leases[lease].alias = step.alias], lease)

AcquireTaskAllocations(p, t, r) ==
  FoldLeft(LAMBDA q, step : AllocationStep(p, t, q, step),
           [r EXCEPT !.slots = <<>>, !.freed = <<>>], p.steps[t])

\* The lease the task's allocations left behind for an output alias.
OutputLease(p, t, r, a) ==
  LET k == CHOOSE j \in DOMAIN p.steps[t] : p.steps[t][j].alias = a
  IN  r.slots[p.steps[t][k].ordinal]

\* What the task hands over: a destination without bytes takes nothing.
Handovers(p, t) == {h \in p.handoffs[t] : h.to \notin ZeroSize(p)}

PublishHandoffs(p, t, r) ==
  FoldSet(LAMBDA h, q :
            IF h.from \notin DOMAIN q.active \/ h.to \in DOMAIN q.active
            THEN [q EXCEPT !.ok = FALSE]
            ELSE Deactivate(Activate(q, h.to, q.active[h.from]), h.from),
          r, Handovers(p, t))

PublishReplacements(p, t, r) ==
  FoldSet(LAMBDA a, q : Activate(Retire(q, q.active[a], <<"task", t>>), a,
                                 OutputLease(p, t, q, a)),
          r, p.replaced[t] \ ZeroSize(p))

PublishOutputs(p, t, r) ==
  FoldSet(LAMBDA a, q : IF a \in DOMAIN q.active THEN [q EXCEPT !.ok = FALSE]
                        ELSE Activate(q, a, OutputLease(p, t, q, a)),
          r, {p.steps[t][k].alias : k \in DOMAIN p.steps[t]} \ (p.replaced[t] \cup {None}))

\* What a copy out of the device reads.
CopiesFrom(r, i, a) ==
  [r EXCEPT !.sources = [j \in DOMAIN @ \cup {i} |-> IF j = i THEN r.active[a] ELSE @[j]]]

ReplayAction(p, r, i) ==
  LET act == p.actions[i]
      a == act.alias
  IN  CASE act.kind = "release" /\ \E h \in Handovers(p, act.trigger) : h.from = a -> r
        [] act.kind \in {"release", "evict", "writeback"} /\ a \notin DOMAIN r.active ->
             [r EXCEPT !.ok = FALSE]
        [] act.kind = "release" ->
             Deactivate(Retire(r, r.active[a], <<"task", act.trigger>>), a)
        [] act.kind = "evict" ->
             Deactivate(Retire(CopiesFrom(r, i, a), r.active[a], <<"action", i>>), a)
        [] act.kind = "writeback" -> CopiesFrom(r, i, a)
        [] act.kind = "fetch" ->
             IF a \in DOMAIN r.active THEN [r EXCEPT !.ok = FALSE]
             ELSE IF a \in ZeroSize(p) THEN r
             ELSE LET q == Acquire(r, p.size[a], "fetch", act.trigger, a, i)
                  IN  Activate(q, a, Len(q.leases))

\* What the task freed ends behind its completion.
RetireFreed(t, r) ==
  FoldLeft(LAMBDA q, lease : Retire(q, lease, <<"task", t>>), r, r.freed)

ReplayTask(p, r, t) ==
  LET inputs == p.tasks[t].inputs \ ZeroSize(p)
      checked == IF inputs \subseteq DOMAIN r.active
                 THEN [r EXCEPT !.reads = Append(@, {r.active[a] : a \in inputs})]
                 ELSE [r EXCEPT !.ok = FALSE, !.reads = Append(@, {})]
      held == AcquireTaskAllocations(p, t, checked)
      published == PublishReplacements(p, t, PublishHandoffs(p, t, RetireFreed(t, held)))
  IN  FoldLeft(LAMBDA q, i : ReplayAction(p, q, i), PublishOutputs(p, t, published),
               Ascending({i \in ActionIds(p) : p.actions[i].trigger = t}))

ReplayAdmission(p) ==
  FoldLeft(LAMBDA r, t : IF r.ok THEN ReplayTask(p, r, t) ELSE r,
           AcquireInitialObjects(p), [t \in TaskIds(p) |-> t])

-----------------------------------------------------------------------------
(* lifetimes.py *)

PredictedStart(lease) ==
  CASE lease.purpose = "initial" -> 0
    [] lease.purpose = "fetch" -> end[lease.task]
    [] OTHER -> start[lease.task]

PredictedEnd(lease) ==
  IF lease.by = None THEN clock + 1
  ELSE IF lease.by[1] = "action" THEN landed[lease.by[2]] ELSE end[lease.by[2]]

CausalEnd(r, lease) == IF lease.end = None THEN 2 * r.ops + 1 ELSE lease.end

\* What placement reads of the leases.
Lifetimes(L) ==
  [k \in DOMAIN L |-> [bytes |-> L[k].bytes, from |-> PredictedStart(L[k]),
                       to |-> PredictedEnd(L[k])]]

-----------------------------------------------------------------------------
(* measure_fixed_layout *)

\* The final leases of the aliases the caller keeps stay out of the slice.
DynamicLeases(p, r) == {r.active[a] : a \in (p.finalDev \ ZeroSize(p)) \cap DOMAIN r.active}

\* The offsets and the bytes needed, for leases predicted to live so long.
LayoutOf(p, r, life) ==
  LET L == r.leases
      dynamic == DynamicLeases(p, r)
      fixed == DOMAIN L \ dynamic
      kept == {l \in fixed : L[l].alias \in p.resident}
      at == PlaceResident(life, kept, p.align, PlaceLifetimes(life, fixed \ kept, p.align))
  IN  [replay |-> r, offsets |-> at, kept |-> kept,
       required |-> Required(life, at) + FoldSet(LAMBDA l, n : n + L[l].bytes, 0, dynamic),
       refused |-> ~r.ok \/ ~(p.finalDev \ ZeroSize(p) \subseteq DOMAIN r.active)
                   \/ \E l \in dynamic : L[l].purpose \notin {"output", "fetch"}]

MeasureFixedLayout(p) ==
  LET r == ReplayAdmission(p) IN LayoutOf(p, r, Lifetimes(r.leases))

-----------------------------------------------------------------------------
(* reuse.py: the latest owner of every address, in causal order *)

BytesOf(m, l) == m.offsets[l]..(m.offsets[l] + m.replay.leases[l].bytes - 1)

Predecessors(m, l) ==
  LET L == m.replay.leases
      Earlier(b) == {k \in DOMAIN m.offsets : b \in BytesOf(m, k) /\ L[k].start < L[l].start}
  IN  {CHOOSE k \in Earlier(b) : \A j \in Earlier(b) : L[j].start <= L[k].start :
         b \in {c \in BytesOf(m, l) : Earlier(c) # {}}}

Shared(m) == UNION {{<<k, l>> : k \in Predecessors(m, l)} : l \in DOMAIN m.offsets}

\* A predecessor must be retired, in operation order, when it is taken over.
CausallyLive(m, k, l) ==
  CausalEnd(m.replay, m.replay.leases[k]) > m.replay.leases[l].start

RecoverRefused(m) == \E s \in Shared(m) : CausallyLive(m, s[1], s[2])

\* Mutant of SimulatorReuse: a fetch does not wait for its destination.
TasksOnly(p, m) ==
  {e \in {[pred |-> m.replay.leases[s[1]].by, succ |-> <<"task", m.replay.leases[s[2]].task>>] :
            s \in {x \in Shared(m) : m.replay.leases[x[2]].action = None}} : e.pred # e.succ}

SimulatorReuse(p, m) ==
  LET L == m.replay.leases
      edges == {[pred |-> L[s[1]].by,
                 succ |-> IF L[s[2]].action # None THEN <<"action", L[s[2]].action>>
                          ELSE <<"task", L[s[2]].task>>] : s \in Shared(m)}
  IN  {e \in edges : e.pred # e.succ}

-----------------------------------------------------------------------------
(* certify_fixed_layout *)

NoLayout == [replay |-> None, offsets |-> <<>>, kept |-> {}, required |-> 0, refused |-> FALSE]

FixedInit ==
  /\ Init
  /\ phase = "plan" /\ clock = 0
  /\ start = [t \in TaskIds(job) |-> 0] /\ end = [t \in TaskIds(job) |-> 0]
  /\ landed = [i \in ActionIds(job) |-> 0]
  /\ layout = NoLayout /\ holder = <<>>

\* The first simulation, its intervals measured in events.
Plan ==
  /\ phase = "plan" /\ Step
  /\ clock' = IF pc = "time" THEN clock + 1 ELSE clock
  /\ start' = [t \in TaskIds(job) |-> IF t \in running' \ running THEN clock ELSE start[t]]
  /\ end' = [t \in TaskIds(job) |-> IF t \in done' \ done THEN clock ELSE end[t]]
  /\ landed' = [i \in ActionIds(job) |-> IF i \in moved' \ moved THEN clock ELSE landed[i]]
  /\ UNCHANGED <<phase, layout, holder>>

\* The bytes of the slice that initial objects hold.
InitialHolder(m) ==
  [b \in 0..(m.required - 1) |->
     LET here == {l \in DOMAIN m.offsets : m.replay.leases[l].purpose = "initial"
                                           /\ b \in BytesOf(m, l)}
     IN  IF here = {} THEN None ELSE CHOOSE l \in here : TRUE]

\* Mutant of LayoutFits: the dynamic reserve is left out.
SliceFits(p, m) == Required(m.replay.leases, m.offsets) <= p.pool

LayoutFits(p, m) == m.required <= p.pool

Measure ==
  /\ phase = "plan" /\ pc = "stopped" /\ outcome = "completed"
  /\ layout' = MeasureFixedLayout(job)
  /\ phase' = "measured"
  /\ UNCHANGED <<vars, times, holder>>

\* The measured layout is refused, or the schedule simulated again on it.
Verdict ==
  IF layout.refused THEN "refused"
  ELSE IF ~LayoutFits(job, layout) THEN "infeasible"
  ELSE IF RecoverRefused(layout) THEN "causally-live"
  ELSE "run"

Certify ==
  /\ phase = "measured"
  /\ phase' = Verdict
  /\ IF phase' = "run"
     THEN /\ holder' = InitialHolder(layout)
          /\ Restart([job EXCEPT !.reuse = SimulatorReuse(job, layout), !.unlisted = 0,
                                !.initial = layout.required, !.devCap = job.pool])
          /\ clock' = 0
          /\ start' = [t \in TaskIds(job) |-> 0]
          /\ end' = [t \in TaskIds(job) |-> 0]
          /\ landed' = [i \in ActionIds(job) |-> 0]
     ELSE UNCHANGED <<vars, times, holder>>
  /\ UNCHANGED layout

\* The second simulation.  A lease begins when its task launches or when the
\* copy into it starts.
Begins(l) ==
  LET lease == layout.replay.leases[l]
  IN  IF lease.action # None
      THEN /\ active'["fetch"] # None /\ active'["fetch"] # active["fetch"]
           /\ active'["fetch"].action = lease.action
      ELSE lease.task \in running' \ running

Run ==
  /\ phase = "run" /\ Step
  /\ holder' = [b \in DOMAIN holder |->
                  LET here == {l \in DOMAIN layout.offsets :
                                 b \in BytesOf(layout, l) /\ Begins(l)}
                  IN  IF here = {} THEN holder[b] ELSE CHOOSE l \in here : TRUE]
  /\ UNCHANGED <<phase, times, layout>>

Ended ==
  /\ pc = "stopped" /\ phase # "measured" /\ (phase = "plan" => outcome # "completed")
  /\ UNCHANGED fixedVars

FixedNext == Plan \/ Measure \/ Certify \/ Run \/ Ended
FixedSpec == FixedInit /\ [][FixedNext]_fixedVars

-----------------------------------------------------------------------------
(* Properties *)

\* A lease no byte of which a later lease has begun to use.
Holds(l) ==
  l \in DOMAIN layout.offsets => \A b \in BytesOf(layout, l) : holder[b] = l

LeasesOf(t) ==
  {l \in DOMAIN layout.replay.leases :
     layout.replay.leases[l].task = t /\ layout.replay.leases[l].action = None}

\* Bad predictions never cost correctness: whatever order the certified run's
\* events come in, a running task still has all the bytes of everything it
\* reads and of its own allocations, and a copy those it reads from or writes.
RangesIntact ==
  phase = "run" =>
    /\ \A t \in running : \A l \in layout.replay.reads[t] \cup LeasesOf(t) : Holds(l)
    /\ active["evict"] # None => Holds(layout.replay.sources[active["evict"].action])
    /\ active["fetch"] # None =>
         \A l \in DOMAIN layout.replay.leases :
           layout.replay.leases[l].action = active["fetch"].action => Holds(l)

\* Leases predicted to be live together are disjoint, aligned, and none could
\* be moved down alone; resident-slice leases share with nobody.
PlacementSound ==
  phase = "measured" =>
    LET m == layout
        life == Lifetimes(m.replay.leases)
        ids == DOMAIN m.offsets
        Meets(low, bytes_, k) == BytesOf(m, k) \cap (low..(low + bytes_ - 1)) # {}
    IN  \A l \in ids :
          /\ m.offsets[l] % job.align = 0
          /\ \A k \in ids \ {l} : Coincide(life[l], life[k]) \/ l \in m.kept
                                     => BytesOf(m, l) \cap BytesOf(m, k) = {}
          /\ l \notin m.kept =>
               \A low \in {o \in 0..(m.offsets[l] - 1) : o % job.align = 0} :
                 \E k \in ids \ (m.kept \cup {l}) :
                   Coincide(life[l], life[k]) /\ Meets(low, life[l].bytes, k)

\* The dependencies the layout adds stop nothing: a schedule that was simulated
\* to the end is, on its layout, never stuck, nor short of the device bytes its
\* slice holds, as long as no action has to wait for room (deferred).
CertifiedNeverStuck ==
  phase = "run" /\ deferred = {} =>
    outcome \notin {"initial-device-capacity", "task-device-capacity",
                     "fetch-device-capacity", "task-input-deadlock",
                     "transfer-deadlock", "dependency-deadlock", "final-residency"}
=============================================================================
