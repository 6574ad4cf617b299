----------------------------- MODULE MCPlanStore -----------------------------
\* The processes and requests of the model-checked instances of PlanStore.
EXTENDS PlanStore, TLC

CONSTANTS p1, p2, p3, one, two

Measured == p1 :> 1 @@ p2 :> 2 @@ p3 :> 3

Ask(modes, incumbents, keeps, facts) ==
  [op : {"plan"}, mode : modes, incumbent : incumbents, keep : keeps, facts : facts]
    \union
  [op : {"summary"}, mode : modes, incumbent : {None}, keep : {FALSE}, facts : {1}]

\* p2 was found on a smaller machine, where it ran slower; p3 on a faster one.
Carried == p1 :> 2 @@ p2 :> 3 @@ p3 :> 2

\* A sweep of one process: plans in hand, one of which does not run here, and a
\* search that may find the slowest plan or nothing.
Sweeping ==
  [procs |-> {one}, each |-> 5, found |-> {p3, Verdict},
   calls |-> Ask(Modes, {None, p1, p2}, {FALSE}, {1}),
   here |-> Measured, elsewhere |-> Carried,
   runs |-> {p2, p3}, certifies |-> Plans]

\* Alternatives kept, or not, by a search that always answers the same.
Keeping ==
  [Sweeping EXCEPT !.each = 4, !.found = {p1}, !.runs = Plans,
                   !.calls = Ask(Modes, {None}, BOOLEAN, {1, 2})]

\* Alternatives kept by searches that find different plans, with a faster plan, a
\* slower one or none in hand.
Retaining ==
  [Sweeping EXCEPT !.each = 3, !.found = {p2, p3}, !.runs = Plans,
                   !.calls = Ask({"contribute", "refresh"}, {None, p1, p3}, BOOLEAN, {1})]

\* Two processes at once.
Sharing ==
  [Keeping EXCEPT !.procs = {one, two}, !.each = 2,
                  !.calls = Ask(Modes, {None}, BOOLEAN, {1})]

\* A layout the search measured and the builder refuses, and a search that
\* never answers.
Refusing ==
  [Sweeping EXCEPT !.each = 3, !.found = {Verdict},
                   !.certifies = {}, !.calls = Ask(Modes, {None, p2}, {FALSE}, {1})]

Agreeing == {Sweeping, Keeping, Retaining, Sharing, Refusing}

\* The checked instances are of the kinds the theorems of PlanStoreProofs are
\* about, and a plan in hand runs faster here than where it was found.
ASSUME AgreeingKinds ==
  /\ \A s \in Agreeing : OneAnswer(s) \/ Steady(s)
  /\ \E s \in Agreeing : \E plan \in s.runs : s.here[plan] < s.elsewhere[plan]

-----------------------------------------------------------------------------
(* What comments, docs and tests say of an entry and the code does not keep;  *)
(* README.md tells the runs that end each.  They are statements of one        *)
(* process, on the instances below.                                           *)

Swept == {Sweeping}
Retained == {Retaining}

\* A stored answer never conceals a better plan in hand
\* (plan_store/__init__.py:42): Swept breaks it.
NeverConceals ==
  \A p \in Procs : Answered(p) /\ proc[p].call.incumbent \in setup.runs =>
    setup.here[proc[p].result] <= setup.here[proc[p].call.incumbent]

\* A request reads back the plan its search chose, whatever it was handed
\* (test_plan_store.py:263): Swept breaks it.
ReadsBack == \A p \in Procs : proc[p].outcome # "inconsistent"

\* The same plan found with or without a plan in hand is the same plan
\* (writer.py:48): Retained breaks it.
ProvenanceIsNotTheAnswer ==
  \A p \in Procs : At(p, "compare") /\ ~Replaceable(files.selection) =>
    (files.selection.plan = proc[p].result => files.selection = Answer(p))

\* The alternatives read beside a stored plan are those of the search that
\* found it: Retained breaks it.
AlternativesOfAnswer ==
  \A p \in Procs : At(p, "resolve") /\ Stored(p) # None /\ proc[p].call.keep =>
    proc[p].kept = Alternatives(Stored(p), Labels)
=============================================================================
