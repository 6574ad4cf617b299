--------------------------- MODULE MCPressureFit ---------------------------
EXTENDS PressureFit

CONSTANTS Capacities           \* device capacities tried

Task(inputs, outputs, mutations, deps, scratch) ==
  [inputs |-> inputs, outputs |-> outputs, mutations |-> mutations, deps |-> deps,
   lane |-> 1, work |-> scratch]

\* Groups: 1 a weight, read by the first task when it starts on the device and
\* by the second when not, which may update it, and by the last; 2 and 3 values
\* produced by the first two tasks, 2 read again by the last; 4 a value of the third.
Tasks(update, scratch, home) ==
  <<Task(home, {2}, home \cap update, {}, 0),
    Task({2} \cup ({1} \ home), {3}, update \ home, {1}, scratch),
    Task({3}, {4}, {}, {2}, 0), Task({1, 2, 4}, {}, {}, {1, 3}, scratch)>>

\* The weight starts on the device or in the spill pool.
Problem(update, scratch, size, retain, home, final, capacity, spill) ==
  [tasks |-> Tasks(update, scratch, home), size |-> size, retain |-> retain,
   initDev |-> home, initSpill |-> {1} \ home, actions |-> <<>>,
   finalDev |-> final[1], finalSpill |-> final[2], devCap |-> capacity, spillCap |-> spill,
   reuse |-> {}, taskDeltas |-> <<>>, actionDeltas |-> <<>>, unlisted |-> None,
   initial |-> None]

MCProblems ==
  {Problem(update, scratch, size, retain, home, final, capacity, spill) :
     update \in {{}, {1}}, scratch \in {0, 1}, size \in {<<2, 1, 1, 1>>, <<2, 1, 2, 1>>},
     retain \in {{}, {1}}, home \in {{}, {1}},
     final \in {<<{}, {}>>, <<{1}, {}>>, <<{}, {1}>>}, capacity \in Capacities,
     spill \in {2, 5}}

ASSUME ProblemsEntered == \A p \in Problems : EntersResident(p)

MCSpecs ==
  [strategy : {"headroom-stall", "tight-stall", "tight-transfer"},
   rule : {"demand", "latest-safe", "packed-fit"}]
=============================================================================
