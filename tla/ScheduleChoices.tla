-------------------------- MODULE ScheduleChoices --------------------------
(* The schedules of a problem that the static walk does not refuse, grown  *)
(* one action at a time: the walk prunes what no further action repairs.   *)
EXTENDS Schedule

WalkTo(p, s, t) ==
  FoldLeft(LAMBDA R, i : {RecordTaskWrites(p, s.at + i, r) :
                            r \in RequireInputsResident(p, s.at + i, R)},
           s.reached, [i \in 1..(t - s.at) |-> i])

Grown(p, choices, s) ==
  {[actions |-> Append(s.actions, act), at |-> act.trigger,
    reached |-> ApplyAction(p, WalkTo(p, s, act.trigger), act)] :
     act \in {b \in choices : b.trigger >= s.at}}

Grow(p, choices, S) == S \cup UNION {{g \in Grown(p, choices, s) : g.reached # {}} : s \in S}

Schedules(p, choices, longest) ==
  {s.actions : s \in FoldLeft(LAMBDA S, i : Grow(p, choices, S),
                 {[actions |-> <<>>, at |-> 0, reached |-> {InitialResidency(p)}]},
                 [i \in 1..longest |-> i])}
=============================================================================
