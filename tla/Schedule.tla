------------------------------ MODULE Schedule ------------------------------
(***************************************************************************)
(* A problem: a ShadowSpillProgram, the MemorySchedule written for it and  *)
(* the pools it must fit (src/shadowspill/ir/schedule.py), and the static  *)
(* walk MemorySchedule.validate makes over it.  A problem is a record      *)
(*   tasks    sequence of [inputs, outputs, mutations, deps, lane, work],  *)
(*            alias groups rather than object names; mutations are inputs  *)
(*   size     bytes of each alias group        retain  groups whose spill  *)
(*   initDev, initSpill, finalDev, finalSpill          copy is kept        *)
(*   actions  sequence of [trigger, alias, kind]                           *)
(*   devCap, spillCap   the two capacities                                 *)
(* Runtime-shared groups are projected out before a schedule is simulated. *)
(***************************************************************************)
EXTENDS Integers, FiniteSets, FiniteSetsExt, Sequences, SequencesExt, Collections

Kinds == {"fetch", "release", "evict", "writeback"}

TaskIds(p) == DOMAIN p.tasks
ActionIds(p) == DOMAIN p.actions
Groups(p) == DOMAIN p.size
ZeroSize(p) == {a \in Groups(p) : p.size[a] = 0}
Writes(task) == task.outputs \cup task.mutations

\* The bytes of the groups in S.
Bytes(p, S) == Total(p.size, S)

\* The position of the last task that reads the group, 0 when none does.
LastReader(p, a) == Max({0} \cup {t \in TaskIds(p) : a \in p.tasks[t].inputs})
FinalGroups(p) == p.finalDev \cup p.finalSpill

-----------------------------------------------------------------------------
(* The walk's state: the groups with a device copy, those with a spill     *)
(* copy, those whose spill copy is current.  A step of the walk maps the   *)
(* set of states reached, a singleton, to the empty set where a rule       *)
(* refuses.                                                                *)

InitialResidency(p) ==
  LET host == p.retain \cup (p.initSpill \ ZeroSize(p))
  IN  [device |-> p.initDev \ ZeroSize(p), spill |-> host, current |-> host]

RequireInputsResident(p, t, reached) ==
  {r \in reached : p.tasks[t].inputs \ ZeroSize(p) \subseteq r.device}

RecordTaskWrites(p, t, r) ==
  [r EXCEPT !.device = @ \cup (p.tasks[t].outputs \ ZeroSize(p)),
            !.current = @ \ (Writes(p.tasks[t]) \ ZeroSize(p))]

ActionAllowed(p, r, act) ==
  LET a == act.alias
  IN  CASE act.kind = "fetch" -> a \in (r.spill \cap r.current) \ r.device
        [] act.kind = "release" ->
             /\ a \in r.device
             /\ \/ a \in r.current
                \/ a \notin FinalGroups(p) /\ LastReader(p, a) <= act.trigger
        [] OTHER -> a \in r.device

ActionMoves(p, r, act) ==
  LET a == act.alias
      gone == IF a \in p.retain THEN {} ELSE {a}
  IN  CASE act.kind = "fetch" ->
             [r EXCEPT !.device = @ \cup {a}, !.spill = @ \ gone, !.current = @ \ gone]
        [] act.kind = "release" ->
             [r EXCEPT !.device = @ \ {a}, !.spill = @ \ gone, !.current = @ \ gone]
        [] act.kind = "evict" ->
             [r EXCEPT !.device = @ \ {a}, !.spill = @ \cup {a}, !.current = @ \cup {a}]
        [] act.kind = "writeback" ->
             [r EXCEPT !.spill = @ \cup {a}, !.current = @ \cup {a}]

ApplyAction(p, reached, act) ==
  {ActionMoves(p, r, act) : r \in {q \in reached : ActionAllowed(p, q, act)}}

ActionsOrdered(p) ==
  /\ \A i \in ActionIds(p) :
       p.actions[i].trigger \in TaskIds(p) /\ p.actions[i].alias \notin ZeroSize(p)
  /\ \A i, j \in ActionIds(p) : i < j => p.actions[i].trigger <= p.actions[j].trigger

WalkTask(p, reached, t) ==
  FoldLeft(LAMBDA R, act : ApplyAction(p, R, act),
           {RecordTaskWrites(p, t, r) : r \in RequireInputsResident(p, t, reached)},
           SelectSeq(p.actions, LAMBDA act : act.trigger = t))

WalkTasks(p) ==
  FoldLeft(LAMBDA reached, t : WalkTask(p, reached, t), {InitialResidency(p)},
           [t \in TaskIds(p) |-> t])

FinalResidencyReached(p, r) ==
  /\ p.finalDev \ ZeroSize(p) \subseteq r.device
  /\ p.finalSpill \ ZeroSize(p) \subseteq r.spill \cap r.current

\* MemorySchedule.validate accepts the problem's schedule.
Validated(p) ==
  /\ ActionsOrdered(p)
  /\ \E r \in WalkTasks(p) : FinalResidencyReached(p, r)

\* The program's own checks, every alias group being one object: dependencies
\* come before their task, an object is produced once, a task depends on the
\* producers of what it reads, and what it mutates it reads.
ProgramChecked(p) ==
  \A t \in TaskIds(p) :
    /\ p.tasks[t].deps \subseteq 1..(t - 1)
    /\ p.tasks[t].mutations \subseteq p.tasks[t].inputs
    /\ \A s \in 1..(t - 1) :
         /\ p.tasks[s].outputs \cap p.tasks[t].outputs = {}
         /\ p.tasks[s].outputs \cap p.tasks[t].inputs # {} => s \in p.tasks[t].deps

\* Tasks that end before t starts in every execution: dependencies and the
\* order of t's lane, with everything those wait for.
Awaits(p, t) ==
  {s \in 1..(t - 1) : s \in p.tasks[t].deps \/ p.tasks[s].lane = p.tasks[t].lane}
EndsBefore(p, t) ==
  {s \in TaskIds(p) :
     \A C \in SUBSET TaskIds(p) :
       Awaits(p, t) \subseteq C /\ (\A u \in C : Awaits(p, u) \subseteq C) => s \in C}

\* Every task that touches a group is ordered against the triggers of its
\* actions; always so on one lane.
Touches(p, t, a) == a \in p.tasks[t].inputs \cup p.tasks[t].outputs
CausallyOrdered(p) ==
  \A i \in ActionIds(p), t \in TaskIds(p) :
    LET s == p.actions[i].trigger
    IN  Touches(p, t, p.actions[i].alias) =>
          s = t \/ s \in EndsBefore(p, t) \/ t \in EndsBefore(p, s)

\* A group that a task produces is moved only behind that task, and a group is
\* fetched again only after it left: the walk refuses the latter, and the former
\* for a group that does not start anywhere.
MovesInTurn(p) ==
  LET At(kinds, a) == {i \in ActionIds(p) : p.actions[i].alias = a /\ p.actions[i].kind \in kinds}
  IN  /\ \A i \in ActionIds(p), t \in TaskIds(p) :
           LET s == p.actions[i].trigger
           IN  p.actions[i].alias \in p.tasks[t].outputs => s = t \/ t \in EndsBefore(p, s)
      /\ \A a \in Groups(p) : \A i, j \in At({"fetch"}, a) :
           i < j => \E k \in At({"evict", "release"}, a) : i < k /\ k < j

\* No group is written back, released and fetched again: the release could
\* wait for the copy while later tasks go on using the group.
RefetchesPrompt(p) ==
  \A a \in Groups(p) :
    LET At(kind) == {i \in ActionIds(p) : p.actions[i].kind = kind /\ p.actions[i].alias = a}
    IN  ~ \E i \in At("writeback"), j \in At("release"), k \in At("fetch") : i < j /\ j < k
=============================================================================
