---------------------------- MODULE MCSimulator ----------------------------
EXTENDS Simulator, ScheduleChoices

CONSTANTS w, a1, z,            \* alias groups; z has no bytes
          MaxActions,
          Prompt               \* whether the schedules refetch promptly

Task(inputs, outputs, mutations, deps, lane, scratch) ==
  [inputs |-> inputs, outputs |-> outputs, mutations |-> mutations, deps |-> deps,
   lane |-> lane, work |-> scratch]

\* Three tasks over a weight w that the second one updates and a value a1.
\* The second task runs on the given lane; the dependencies are a choice.
Tasks(lane2, deps2, deps3, mut3) ==
  <<Task({w}, {a1}, {}, {}, 1, 1), Task({w, z}, {}, {w}, deps2, lane2, 0),
    Task({a1, w}, {}, mut3, deps3, 1, 0)>>

ActionSet == [trigger : 1..3, alias : {w, a1}, kind : Kinds]

Problem(tasks, retain, final) ==
  [tasks |-> tasks, size |-> [a \in {w, a1, z} |-> IF a = z THEN 0 ELSE 1], retain |-> retain,
   initDev |-> {w}, initSpill |-> {}, actions |-> <<>>,
   finalDev |-> final[1], finalSpill |-> final[2], devCap |-> 0, spillCap |-> 0,
   reuse |-> {}, taskDeltas |-> <<>>, actionDeltas |-> <<>>, unlisted |-> None,
   initial |-> None]

Schedulings(tasks) ==
  UNION {{p \in {[q EXCEPT !.actions = s] : s \in Schedules(q, ActionSet, MaxActions)} :
            RefetchesPrompt(p) = Prompt /\ Validated(p)} :
           q \in {Problem(tasks, retain, final) : retain \in {{}, {w}},
                    final \in {<<{}, {}>>, <<{w}, {}>>, <<{}, {w}>>}}}

TwoLanes(S) ==
  {p \in {[q EXCEPT !.tasks = Tasks(2, {1}, {1, 2}, {})] : q \in S} : CausallyOrdered(p)}

MCProblems ==
  LET one == Schedulings(Tasks(1, {}, {1}, {}))
      all == one \cup TwoLanes(one) \cup Schedulings(Tasks(1, {}, {1}, {w}))
  IN  {[p EXCEPT !.devCap = c[1], !.spillCap = c[2]] :
         p \in all, c \in {<<2, 1>>, <<3, 2>>}}

\* What the theorems about Simulator ask of a problem holds of every one here.
ASSUME ProblemsInScope ==
  \A p \in Problems : MovesInTurn(p) /\ CausallyOrdered(p) /\ GivesBack(p)
=============================================================================
