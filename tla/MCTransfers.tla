----------------------------- MODULE MCTransfers -----------------------------
\* The plans of the model-checked instances of Transfers.
EXTENDS Transfers, TLC

CONSTANTS weight, gradient

\* One object fetched from its spill copy and one the tasks produce.
Base == [retained |-> {weight}, produced |-> {gradient}, collective |-> {},
         kinds |-> AllKinds, size |-> [o \in Objects |-> 1], window |-> 0,
         retries |-> {}, background |-> FALSE, reuses |-> FALSE, causal |-> FALSE,
         tasks |-> 2, actions |-> 3, batch |-> 2]

\* Every kind of action, in ranges a layout places over retiring ones.
Layout == [Base EXCEPT !.reuses = TRUE, !.tasks = 3]

\* Planned and background copies to the spill pool, with a window.
Copying == [Base EXCEPT !.retained = Objects, !.produced = Objects,
                        !.kinds = {"EVICT", "WRITE_BACK"},
                        !.retries = {"EVICT", "WRITE_BACK"},
                        !.size = (weight :> 1 @@ gradient :> 2),
                        !.window = 2, !.background = TRUE,
                        !.tasks = 1, !.actions = 4, !.batch = 3]

Ranked == [Base EXCEPT !.collective = Objects, !.reuses = TRUE,
                             !.kinds = {"FETCH", "RELEASE", "EVICT"}]

Safe == {Layout, Copying, Ranked}

\* A window of one copy, and a lane that may ask for retries.
Narrow == [Base EXCEPT !.produced = Objects, !.kinds = {"FETCH", "EVICT"},
                       !.retries = {"EVICT"}, !.window = 1, !.background = TRUE,
                       !.tasks = 1]

Finishing == {Narrow, Ranked}

\* Destinations handed over by the pool, without a layout.
HandedOver == {[Base EXCEPT !.reuses = TRUE, !.causal = TRUE]}

Plainest == {Base}

\* What the theorems of TransfersProofs ask of a plan holds of every one checked.
ASSUME PlansInScope == \A p \in Safe \cup Finishing : PlanInScope(p)
=============================================================================
