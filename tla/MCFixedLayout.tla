--------------------------- MODULE MCFixedLayout ---------------------------
EXTENDS FixedLayout, ScheduleChoices

CONSTANTS w, a1, b1, c1,       \* alias groups
          MaxActions, ActionKinds

Task(inputs, outputs, mutations, deps, lane) ==
  [inputs |-> inputs, outputs |-> outputs, mutations |-> mutations, deps |-> deps,
   lane |-> lane, work |-> 1]

\* A weight w, read by the first two tasks and, when they are ordered, updated
\* by the second; values a1 and b1; c1 is either a new value or a1's storage
\* under another name.
Updated(lane2) == IF lane2 = 1 THEN {w} ELSE {}
Tasks(lane2) ==
  <<Task({w}, {a1}, {}, {}, 1), Task({w}, {b1}, Updated(lane2), {}, lane2),
    Task({a1, b1}, {c1}, {}, {1, 2}, 1)>>

Allocate(ordinal, a) ==
  [ordinal |-> ordinal, bytes |-> IF a = w THEN 2 ELSE 1, alias |-> a, reuses |-> None]
Free(ordinal) == [ordinal |-> ordinal, bytes |-> 0, alias |-> None, reuses |-> None]
Reuse(ordinal, a, of) == [Allocate(ordinal, a) EXCEPT !.reuses = of]

\* The scratch of the first task becomes its output, or not; the second task
\* replaces w, or writes in place; the third hands a1 over to c1, which may have
\* no bytes to take over, or not.
Steps(reuse, replace, handoff) ==
  <<IF reuse THEN <<Allocate(0, None), Free(0), Reuse(1, a1, 0)>>
             ELSE <<Allocate(0, None), Allocate(1, a1), Free(0)>>,
    IF replace THEN <<Allocate(0, b1), Allocate(1, w)>> ELSE <<Allocate(0, b1)>>,
    IF handoff THEN <<Allocate(0, None), Free(0)>>
               ELSE <<Allocate(0, c1), Allocate(1, None), Free(1)>>>>

Problem(lane2, reuse, replace, handoff, resident, align, pool, result) ==
  [tasks |-> Tasks(lane2),
   size |-> [a \in {w, a1, b1, c1} |-> CASE a = w -> 2 [] a = c1 -> result [] OTHER -> 1],
   retain |-> {}, initDev |-> {w}, initSpill |-> {}, actions |-> <<>>,
   finalDev |-> {c1}, finalSpill |-> {}, devCap |-> 8, spillCap |-> 3,
   reuse |-> {}, taskDeltas |-> <<>>, actionDeltas |-> <<>>, unlisted |-> None,
   initial |-> None, steps |-> Steps(reuse, replace /\ lane2 = 1, handoff),
   replaced |-> <<{}, IF replace THEN Updated(lane2) ELSE {}, {}>>,
   handoffs |-> <<{}, {}, IF handoff THEN {[from |-> a1, to |-> c1]} ELSE {}>>,
   align |-> align, pool |-> pool, resident |-> resident]

ActionSet == [trigger : 1..3, alias : {w, a1, b1}, kind : ActionKinds]

\* How the facts vary together.
Variants ==
  {<<FALSE, FALSE, FALSE, {}, 2, 8, 1>>, <<TRUE, TRUE, FALSE, {}, 1, 7, 1>>,
   <<TRUE, FALSE, TRUE, {}, 2, 8, 1>>, <<TRUE, FALSE, TRUE, {}, 2, 8, 0>>,
   <<FALSE, TRUE, FALSE, {b1}, 2, 8, 1>>}

MCProblems ==
  UNION {{p \in {[q EXCEPT !.actions = s] : s \in Schedules(q, ActionSet, MaxActions)} :
            Validated(p) /\ CausallyOrdered(p)} :
           q \in {Problem(lane2, v[1], v[2], v[3], v[4], v[5], v[6], v[7]) :
                    lane2 \in {1, 2}, v \in Variants}}

\* Every problem comes with facts that admission would not refuse.
ASSUME ProblemsAdmitted == FactsValid
=============================================================================
