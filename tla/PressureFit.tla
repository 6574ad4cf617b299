---------------------------- MODULE PressureFit ----------------------------
(***************************************************************************)
(* One candidate of the PressureFit search (reference/python/pressurefit): *)
(* the seed residency is cut until it fits analytically, a schedule is     *)
(* emitted from it, the simulator replays it, and what it reports delays a *)
(* fetch or adds pressure, until the candidate is valid or given up.       *)
(*                                                                         *)
(* Boundary b is the point after task b, 0 the point before the first (the *)
(* code counts both from one less).  Alias groups are numbered, as in the  *)
(* code.  Durations are data: where a choice ranks durations any candidate *)
(* may win.  The candidates of a search share nothing but caches of pure   *)
(* functions, so a behaviour evaluates one.                                *)
(***************************************************************************)
EXTENDS Simulator

CONSTANTS Specs,               \* candidates: records [strategy, rule]
          MaxRepairs           \* max_repair_attempts

\* What refuses a candidate, besides the report of a simulation.
Refusals == {"workspace_capacity", "required_capacity", "analytic_capacity", "fetch_window",
             "schedule_validation", "validation_error", "exhausted"}

ASSUME RefusalsAssumption == None \notin Refusals

VARIABLES facts,     \* PlanningFacts of the job
          stage,     \* "floor", "reduce", "emit", "clamp", "issue", "check",
                     \* "recheck", "last", "simulate", "done"
          spec,      \* the candidate
          plan,      \* group -> set of spans [start, end]
          pressure,  \* boundary -> bytes, updated cut by cut
          extra,     \* boundary -> bytes that repairs added
          triggers,  \* reload -> trigger chosen for it
          repairs,   \* repairs made so far
          status     \* None, or how the candidate ended

search == <<facts, stage, spec, plan, pressure, extra, triggers, repairs, status>>
searchVars == <<vars, search>>

Headroom == spec.strategy \in {"headroom-stall", "headroom-transfer"}
PrefersClean == spec.strategy \in {"headroom-transfer", "tight-transfer"}

-----------------------------------------------------------------------------
(* facts.py: build_facts *)

Sized(p, S) == S \ ZeroSize(p)

\* The <<boundary, task>> of every access, the tasks that produce and that
\* write a group, and the boundaries it must be resident at.
AccessEvents(p, a) ==
  {<<t - 1, t>> : t \in {u \in TaskIds(p) : a \in p.tasks[u].inputs}}
    \cup {<<t, t>> : t \in {u \in TaskIds(p) : a \in p.tasks[u].outputs}}

ProducedAt(p, a) == {t \in TaskIds(p) : a \in p.tasks[t].outputs}
WrittenAt(p, a) == {t \in TaskIds(p) : a \in Writes(p.tasks[t])}

AnchorsOf(p, a) ==
  {e[1] : e \in AccessEvents(p, a)} \cup WrittenAt(p, a)
    \cup (IF a \in p.initDev THEN {0} ELSE {})
    \cup (IF a \in p.finalDev THEN {Len(p.tasks)} ELSE {})

\* The object capacity at a boundary leaves out the workspace of the task
\* that starts there, which also reserves its fresh outputs.
BuildFacts(p) ==
  LET PerGroup(Of(_, _)) == [a \in Groups(p) |-> IF p.size[a] = 0 THEN {} ELSE Of(p, a)]
      starting == [b \in 0..Len(p.tasks) |-> {b + 1} \cap TaskIds(p)]
  IN  [boundaries |-> 0..Len(p.tasks),
       events |-> PerGroup(AccessEvents),
       productions |-> PerGroup(ProducedAt),
       writes |-> PerGroup(WrittenAt),
       anchors |-> PerGroup(AnchorsOf),
       reserved |-> [b \in DOMAIN starting |->
                       UNION {Sized(p, p.tasks[t].outputs) \ p.tasks[t].inputs :
                                t \in starting[b]}],
       capacity |-> [b \in DOMAIN starting |->
                       p.devCap - Total([t \in TaskIds(p) |-> p.tasks[t].work], starting[b])]]

\* What build_facts asks of a program, for a group that no task produces: what
\* the first task reads is on the device when it starts.
EntersResident(p) ==
  p.tasks # <<>> /\ Sized(p, p.tasks[1].inputs) \subseteq p.initDev

LastBoundary == Len(job.tasks)
Boundaries == facts.boundaries

-----------------------------------------------------------------------------
(* residency.py *)

SpanContains(s, b) == s.start <= b /\ b <= s.end
EventsIn(a, s) == {e \in facts.events[a] : SpanContains(s, e[1])}
Resident(pl, a, b) == \E s \in pl[a] : SpanContains(s, b)

\* The members of S in the order Before.
Sorted(S, Before(_, _)) ==
  SortSeq(FoldSet(LAMBDA x, s : Append(s, x), <<>>, S), Before)

InOrder(spans) == Sorted(spans, LAMBDA s, u : s.start < u.start)

Seed ==
  [a \in Groups(job) |->
     LET H == facts.anchors[a]
     IN  IF H = {} THEN {} ELSE {[start |-> Min(H), end |-> Max(H)]}]

EffectiveStart(a, s, headroom) ==
  IF headroom /\ s.start > 0 /\ s.start \notin facts.productions[a]
  THEN s.start - 1 ELSE s.start

\* Mutant of ChargedUntil: a value departs one boundary early.
ChargedBeforeEnd(a, s) == IF s.end > 0 /\ a \notin job.finalDev THEN s.end - 1 ELSE s.end

ChargedUntil(a, s) ==
  IF /\ s.end > 0 /\ a \notin job.finalDev
     /\ ~ \E e \in EventsIn(a, s) : e[2] > s.end
  THEN s.end - 1 ELSE s.end

\* The boundaries a span is charged at.
ChargedSpan(a, s, headroom) ==
  EffectiveStart(a, s, headroom)..ChargedUntil(a, s)

Charged(pl, a, b, headroom) ==
  \E s \in pl[a] : b \in ChargedSpan(a, s, headroom)

\* _pressure_by_device: every charged span counts.
PressureSweep(pl, headroom) ==
  [b \in Boundaries |->
     LET Charges(a) == {s \in pl[a] : b \in ChargedSpan(a, s, headroom)}
         fresh == {a \in facts.reserved[b] : Charges(a) = {}}
     IN  Total([a \in Groups(job) |->
                  job.size[a] * (Cardinality(Charges(a)) + (IF a \in fresh THEN 1 ELSE 0))],
               Groups(job))]

\* boundary_bytes: the scalar definition; a group's first span that reaches
\* the boundary decides.
BoundaryCharged(pl, a, b, headroom) ==
  LET here == {s \in pl[a] : EffectiveStart(a, s, headroom) <= b /\ b <= s.end}
  IN  /\ here # {}
      /\ LET s == CHOOSE u \in here : \A v \in here : u.start <= v.start
         IN  \/ b = 0 \/ s.end # b \/ a \in job.finalDev
             \/ \E e \in EventsIn(a, s) : e[2] > b

BoundaryBytes(pl, b, headroom) ==
  Bytes(job, {a \in Groups(job) : \/ BoundaryCharged(pl, a, b, headroom)
                              \/ a \in facts.reserved[b]})

Contributes(pl, a, b, headroom) ==
  a \in facts.reserved[b] \/ Charged(pl, a, b, headroom)

\* Mutant of PressureAfter: residency is counted, not the boundaries charged.
PressureByResidency(old, new, a, headroom) ==
  LET Share(pl, b) == IF Resident(pl, a, b) THEN job.size[a] ELSE 0
  IN  [b \in Boundaries |-> pressure[b] + Share(new, b) - Share(old, b)]

\* _update_pressure_for_alias
PressureAfter(old, new, a, headroom) ==
  LET Share(pl, b) == IF Contributes(pl, a, b, headroom) THEN job.size[a] ELSE 0
  IN  [b \in Boundaries |-> pressure[b] + Share(new, b) - Share(old, b)]

\* The largest anchor-free run of the span around b.
GapContaining(a, s, b) ==
  LET run == {g \in (s.start..s.end) \X (s.start..s.end) :
                g[1] <= b /\ b <= g[2] /\ (g[1]..g[2]) \cap facts.anchors[a] = {}}
  IN  CHOOSE g \in run : \A h \in run : g[1] <= h[1] /\ h[2] <= g[2]

\* Mutant of SplitsAfter: a span is never split at an anchor.
SplitsNowhere(a, s, b) == FALSE

\* The span can be split right after an anchor no later task uses.
SplitsAfter(a, s, b) ==
  /\ b \in facts.anchors[a] /\ b < s.end
  /\ ~ \E e \in facts.events[a] : e[1] = b /\ e[2] > b

\* legal_cuts: a cut removes boundaries start..end of one span, or none of them
\* where it splits.  The initial boundary is never removed.
LegalCuts(pl, b) ==
  LET Removed(a, s) == IF b \in facts.anchors[a] THEN <<b + 1, b>> ELSE GapContaining(a, s, b)
      CutOf(a) == {[alias |-> a, span |-> s, start |-> Removed(a, s)[1],
                    end |-> Removed(a, s)[2]] :
                     s \in {u \in pl[a] : /\ SpanContains(u, b)
                                          /\ b \in facts.anchors[a] => SplitsAfter(a, u, b)}}
  IN  {c \in UNION {CutOf(a) : a \in Groups(job)} : c.start > 0}

WriteBackRequired(cut) ==
  cut.alias \notin job.retain \/ \E w \in facts.writes[cut.alias] : w <= cut.start - 1

\* _cut_score ranks durations; the transfer strategies first ask for a cut
\* that needs no copy to the spill pool.
BestCuts(cuts) ==
  LET clean == {c \in cuts : ~WriteBackRequired(c)}
  IN  IF PrefersClean /\ clean # {} THEN clean ELSE cuts

ApplyCut(pl, cut) ==
  [pl EXCEPT ![cut.alias] =
     (@ \ {cut.span})
       \cup {s \in {[start |-> cut.span.start, end |-> cut.start - 1],
                    [start |-> cut.end + 1, end |-> cut.span.end]} : s.start <= s.end}]

\* _required_floor_pressure: anchors and fresh outputs alone.
FloorCharges(a, b) ==
  /\ b \in facts.anchors[a]
  /\ \/ b = 0 \/ a \in job.finalDev
     \/ \E e \in facts.events[a] : e[1] = b /\ e[2] > b

RequiredFloor(b) ==
  Bytes(job, {a \in Groups(job) : FloorCharges(a, b) \/ a \in facts.reserved[b]})

FloorFits == \A b \in Boundaries : RequiredFloor(b) <= facts.capacity[b]

-----------------------------------------------------------------------------
(* actions.py *)

DepartureTask(a, s) ==
  LET tasks == {e[2] : e \in EventsIn(a, s)}
  IN  IF tasks # {} THEN Max(tasks) ELSE Min({Max({s.end, 1}), LastBoundary})

EntryDeadline(a, s) ==
  LET tasks == {e[2] : e \in EventsIn(a, s)}
  IN  IF tasks # {} THEN Min(tasks) - 1 ELSE LastBoundary

\* Mutant of DepartureKind: a kept spill copy is taken for current.
KindIgnoresWrites(a, later, s, refreshed) ==
  CASE ~later /\ a \in job.finalDev -> None
    [] ~later /\ a \notin FinalGroups(job) -> "release"
    [] OTHER -> IF a \in job.retain THEN "release" ELSE "evict"

\* How a span ends: not at all, by a release where the spill copy is good or
\* nothing needs it, else by an eviction.
DepartureKind(a, later, s, refreshed) ==
  LET clean == a \in job.retain
                 /\ \A w \in facts.writes[a] : w <= refreshed \/ w > s.end
  IN  CASE ~later /\ a \in job.finalDev -> None
        [] ~later /\ a \notin FinalGroups(job) -> "release"
        [] OTHER -> IF clean THEN "release" ELSE "evict"

\* The departures of a group, walking its spans with the boundary its spill
\* copy was refreshed at.
Departures(a, spans) ==
  FoldLeft(LAMBDA d, s :
             LET kind == DepartureKind(a, \E u \in spans : u.start > s.start, s, d.refreshed)
             IN  [refreshed |-> IF kind = "evict" THEN s.end ELSE d.refreshed,
                  list |-> d.list \cup {x \in {[trigger |-> DepartureTask(a, s), alias |-> a,
                                                kind |-> kind]} : kind # None}],
           [refreshed |-> IF a \in job.retain \cup job.initSpill THEN 0 ELSE -1, list |-> {}],
           InOrder(spans)).list

FirstTrigger(a, spans, s) ==
  Max({1} \cup {DepartureTask(a, u) + 1 : u \in {v \in spans : v.start < s.start}})

NeedsFetch(a, s) ==
  ~(s.start = 0 /\ a \in job.initDev) /\ s.start \notin facts.productions[a]

Reloads(pl) ==
  UNION {{[alias |-> a, earliest |-> FirstTrigger(a, pl[a], s),
           latest |-> EntryDeadline(a, s), entry |-> s.start] :
            s \in {u \in pl[a] : NeedsFetch(a, u)}} : a \in Groups(job)}

\* choose_fetch_triggers: the latest boundary on demand; elsewhere the
\* boundary that backs the copy's duration, and with packing those of the
\* copies behind it, out of the consumer's start.
TriggerChoices(pl, rule) ==
  LET reloads == Reloads(pl)
  IN  {f \in [reloads -> TaskIds(job)] :
         \A r \in reloads : IF rule = "demand" THEN f[r] = r.latest
                            ELSE r.earliest <= f[r] /\ f[r] <= r.latest}

\* _fit_clamped_triggers: fetched early, a group is charged from its trigger.
EarlyAt(pl, f, b) ==
  {r \in DOMAIN f : f[r] <= b /\ b < r.entry /\ ~Resident(pl, r.alias, b)}

UsedAt(pl, f, b, headroom) ==
  PressureSweep(pl, headroom)[b] + Bytes(job, {r.alias : r \in EarlyAt(pl, f, b)})

Movable(pl, f, b) == {r \in EarlyAt(pl, f, b) : f[r] < r.latest}

Crowded(pl, f, headroom) ==
  {b \in 1..LastBoundary : /\ UsedAt(pl, f, b, headroom) > facts.capacity[b]
                              /\ Movable(pl, f, b) # {}}

Lexical(x, y) ==
  \E i \in DOMAIN x : x[i] < y[i] /\ \A j \in 1..(i - 1) : x[j] = y[j]

\* Mutant of ClampedMove: to the crowded boundary itself.
ClampedInPlace(pl, f, b) ==
  LET r == CHOOSE x \in Movable(pl, f, b) : TRUE IN [f EXCEPT ![r] = b]

ClampedMove(pl, f, b) ==
  LET Key(r) == <<r.entry, job.size[r.alias], r.alias>>
      r == CHOOSE x \in Movable(pl, f, b) :
             \A y \in Movable(pl, f, b) : x = y \/ Lexical(Key(y), Key(x))
  IN  [f EXCEPT ![r] = Min({b + 1, r.latest})]

\* action_priority: releases, evictions, then fetches by their next consumer.
NextConsumer(trigger, a) ==
  Min({LastBoundary + 1} \cup {t \in TaskIds(job) : t > trigger /\ a \in job.tasks[t].inputs})

ActionPriority(act) ==
  <<act.trigger, CASE act.kind = "release" -> 0 [] act.kind = "evict" -> 1 [] OTHER -> 2,
    IF act.kind = "fetch" THEN NextConsumer(act.trigger, act.alias) ELSE 0, act.alias>>

InPriority(actions) ==
  Sorted(actions, LAMBDA x, y : Lexical(ActionPriority(x), ActionPriority(y)))

EmittedActions(pl, f) ==
  UNION {Departures(a, pl[a]) : a \in Groups(job)}
    \cup {[trigger |-> f[r], alias |-> r.alias, kind |-> "fetch"] : r \in DOMAIN f}

-----------------------------------------------------------------------------
(* implementation.py: what a failed simulation asks for *)

\* The report of the simulation that just stopped: the task and group it names
\* and the bytes that are missing.
AtLeastOne(n) == IF n > 1 THEN n ELSE 1
Report ==
  CASE outcome = "fetch-device-capacity" ->
         [kind |-> outcome, task |-> Here.trigger, alias |-> Here.alias,
          excess |-> AtLeastOne(phys + job.size[Here.alias] - job.devCap)]
    [] outcome = "task-device-capacity" ->
         LET t == Min(StuckTasks)
             outputs == job.tasks[t].outputs
         IN  [kind |-> outcome, task |-> t, alias |-> IF outputs = {} THEN None ELSE Min(outputs),
              excess |-> AtLeastOne(phys + StartDelta(t) - job.devCap)]
    [] OTHER -> [kind |-> outcome, task |-> None, alias |-> None, excess |-> 1]

DelayLimit(act) == NextConsumer(act.trigger, act.alias) - 1

\* _delay_fetch: the fetches that may trigger later, each with its new trigger.
DelayTarget(act, r) ==
  IF r.kind = "task-device-capacity" THEN Max({act.trigger + 1, r.task}) ELSE act.trigger + 1

Delayable(r) ==
  {i \in ActionIds(job) :
     LET act == job.actions[i]
     IN  /\ r.kind \in {"fetch-device-capacity", "task-device-capacity"}
         /\ act.kind = "fetch"
         /\ r.alias \in {None, act.alias}
         /\ r.kind = "fetch-device-capacity" => act.trigger = r.task
         /\ r.kind = "task-device-capacity" => act.trigger < r.task
         /\ DelayTarget(act, r) <= DelayLimit(act)}

Delayed(r) ==
  LET Key(i) == <<-job.size[job.actions[i].alias], -job.actions[i].trigger, i>>
      i == CHOOSE x \in Delayable(r) :
             \A y \in Delayable(r) : x = y \/ Lexical(Key(x), Key(y))
      later == [job.actions[i] EXCEPT !.trigger = DelayTarget(job.actions[i], r)]
  IN  (ToSet(job.actions) \ {job.actions[i]}) \cup {later}

\* _repair_pressure: the boundary that lacked room, if the failure names one.
Repairable(r) ==
  r.kind \in {"initial-device-capacity", "fetch-device-capacity", "task-device-capacity"}

ShortBoundary(r) ==
  CASE r.task = None -> 0
    [] r.kind = "task-device-capacity" -> r.task - 1
    [] OTHER -> r.task

-----------------------------------------------------------------------------
(* _evaluate_candidate *)

NoExtra == [b \in Boundaries |-> 0]

SearchInit ==
  /\ Init /\ spec \in Specs /\ facts = BuildFacts(job)
  /\ stage = "floor" /\ plan = Seed
  /\ pressure = PressureSweep(plan, Headroom)
  /\ extra = NoExtra /\ triggers = <<>> /\ repairs = 0 /\ status = None

Finish(how) == stage' = "done" /\ status' = how

\* build_facts and assert_required_floor, the refusals before any candidate.
Preflight ==
  /\ stage = "floor"
  /\ IF \E b \in Boundaries : facts.capacity[b] < 0
     THEN Finish("workspace_capacity")
     ELSE IF ~FloorFits THEN Finish("required_capacity")
     ELSE stage' = "reduce" /\ UNCHANGED status
  /\ UNCHANGED <<vars, facts, spec, plan, pressure, extra, triggers, repairs>>

Excess(b) == pressure[b] + extra[b] - facts.capacity[b]
OverBudget == {b \in Boundaries : Excess(b) > 0}
\* The one that lacks most, the first of several.
Worst(b) ==
  \A c \in OverBudget : Excess(b) > Excess(c) \/ (Excess(b) = Excess(c) /\ b <= c)

\* reduce_pressure, one cut a step.
Reduce ==
  /\ stage = "reduce"
  /\ \/ /\ OverBudget = {} /\ stage' = "emit"
        /\ UNCHANGED <<plan, pressure, status>>
     \/ \E b \in OverBudget : \E cuts \in {LegalCuts(plan, b)} :
          /\ Worst(b)
          /\ \/ /\ cuts = {} /\ Finish("analytic_capacity")
                /\ UNCHANGED <<plan, pressure>>
             \/ /\ \E cut \in BestCuts(cuts) :
                     LET after == ApplyCut(plan, cut)
                     IN  /\ plan' = after
                         /\ pressure' = PressureAfter(plan, after, cut.alias, Headroom)
                /\ UNCHANGED <<stage, status>>
  /\ UNCHANGED <<vars, facts, spec, extra, triggers, repairs>>

\* emit_schedule: a reload without a legal boundary refuses the plan.
Emit ==
  /\ stage = "emit"
  /\ IF \E r \in Reloads(plan) : r.latest < r.earliest
     THEN Finish("fetch_window") /\ UNCHANGED triggers
     ELSE /\ triggers' \in TriggerChoices(plan, spec.rule)
          /\ stage' = IF spec.rule = "packed-fit" THEN "clamp" ELSE "issue"
          /\ UNCHANGED status
  /\ UNCHANGED <<vars, facts, spec, plan, pressure, extra, repairs>>

Clamp ==
  /\ stage = "clamp"
  /\ LET crowded == Crowded(plan, triggers, Headroom)
     IN  IF crowded = {}
         THEN stage' = "issue" /\ UNCHANGED triggers
         ELSE triggers' = ClampedMove(plan, triggers, Min(crowded)) /\ UNCHANGED stage
  /\ UNCHANGED <<vars, facts, spec, plan, pressure, extra, repairs, status>>

\* The schedule is sorted as it is built.
Build(chosen, next) ==
  \E actions \in {chosen} : \E built \in {[job EXCEPT !.actions = InPriority(actions)]} :
    Restart(built) /\ stage' = next

Issue ==
  /\ stage = "issue"
  /\ Build(EmittedActions(plan, triggers), "check")
  /\ UNCHANGED <<facts, spec, plan, pressure, extra, triggers, repairs, status>>

\* The built schedule is checked before it is simulated.  A ValidationError of
\* an emitted schedule ends the candidate; that of a delayed one is not caught.
\* A delay found after the last repair is built and checked, and then dropped.
Validate ==
  /\ stage \in {"check", "recheck", "last"}
  /\ CASE ~Validated(job) ->
            Finish(IF stage = "check" THEN "schedule_validation" ELSE "validation_error")
       [] Validated(job) /\ stage = "last" -> Finish("exhausted")
       [] OTHER -> stage' = "simulate" /\ UNCHANGED status
  /\ UNCHANGED <<vars, facts, spec, plan, pressure, extra, triggers, repairs>>

SimulateStep == stage = "simulate" /\ Step /\ UNCHANGED search

Accept ==
  /\ stage = "simulate" /\ outcome = "completed" /\ Finish("valid")
  /\ UNCHANGED <<vars, facts, spec, plan, pressure, extra, triggers, repairs>>

Failed == stage = "simulate" /\ outcome \notin {None, "completed"}

DelayFetch ==
  /\ Failed /\ Delayable(Report) # {}
  /\ Build(Delayed(Report), IF repairs < MaxRepairs THEN "recheck" ELSE "last")
  /\ repairs' = IF repairs < MaxRepairs THEN repairs + 1 ELSE repairs
  /\ UNCHANGED <<facts, spec, plan, pressure, extra, triggers, status>>

\* More pressure where room was missing, and the reduction starts again.
RepairPressure ==
  /\ Failed /\ repairs < MaxRepairs /\ Delayable(Report) = {} /\ Repairable(Report)
  /\ extra' = [extra EXCEPT ![ShortBoundary(Report)] = @ + Report.excess]
  /\ repairs' = repairs + 1
  /\ stage' = "reduce" /\ plan' = Seed
  /\ pressure' = PressureSweep(Seed, Headroom)
  /\ triggers' = <<>>
  /\ Restart([job EXCEPT !.actions = <<>>])
  /\ UNCHANGED <<facts, spec, status>>

GiveUp ==
  /\ Failed /\ Delayable(Report) = {}
  /\ repairs < MaxRepairs => ~Repairable(Report)
  /\ Finish(IF Repairable(Report) THEN "exhausted" ELSE outcome)
  /\ UNCHANGED <<vars, facts, spec, plan, pressure, extra, triggers, repairs>>

SearchDone == stage = "done" /\ UNCHANGED searchVars

SearchStep ==
  \/ Preflight \/ Reduce \/ Emit \/ Clamp \/ Issue \/ Validate \/ SimulateStep
  \/ Accept \/ DelayFetch \/ RepairPressure \/ GiveUp

SearchNext == SearchStep \/ SearchDone

\* The search is one loop of a worker.
SearchSpec == SearchInit /\ [][SearchNext]_searchVars /\ WF_searchVars(SearchStep)

-----------------------------------------------------------------------------
(* Properties *)

\* The pressure the reducer updates cut by cut (_update_pressure_for_alias) is
\* the scalar definition boundary_bytes of the plan it has reached; with
\* fetch headroom it is never below it.
PressureExact ==
  \A b \in Boundaries :
    IF Headroom THEN pressure[b] >= BoundaryBytes(plan, b, TRUE)
                ELSE pressure[b] = BoundaryBytes(plan, b, FALSE)

\* Every schedule the search emits or moves a fetch of keeps the contract of a
\* memory schedule: no candidate ends as invalid and no ValidationError leaves
\* the search.
SchedulesValidate == status \notin {"schedule_validation", "validation_error"}

\* A program whose required floor fits is never refused by the first reduction
\* of a tight strategy: the floor is what greedy cutting can always reach.
FloorSuffices ==
  ~Headroom /\ repairs = 0 => status \notin {"analytic_capacity", "fetch_window"}

\* A plan that fits boundary by boundary runs: fetched on demand, no timing of
\* tasks and copies makes the simulator short of device bytes or stuck.  The
\* spill pool is not planned for and may still be short.
AnalyticFitRuns ==
  stage = "simulate" /\ spec.rule = "demand" =>
    outcome \in {None, "completed", "initial-spill-capacity", "evict-spill-capacity"}

\* Reducing, clamping, simulating and repairing come to an end.
SearchEnds == <>(stage = "done")
=============================================================================
