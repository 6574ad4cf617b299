----------------------------- MODULE MCRetirement -----------------------------
\* The pools and users of the model-checked instances of Retirement.
EXTENDS Retirement

CONSTANTS t1, t2, main, side, lane

Plain == [blocks |-> {1}, threads |-> {t1, t2}, taskers |-> {t1},
          streams |-> {main, side}, taskStreams |-> {main},
          destinations |-> 0, acquires |-> FALSE, mayFail |-> FALSE,
          generations |-> 4, work |-> 1]

\* Destinations in retiring ranges, one thread and one stream.
Handoff == [Plain EXCEPT !.threads = {t1}, !.streams = {main},
                         !.destinations = 1, !.acquires = TRUE, !.work = 2]

\* A task that also uses a side stream, with room for both of its allocations.
Joining == [Plain EXCEPT !.threads = {t1}, !.blocks = {1, 2},
                         !.taskStreams = {main, side}, !.generations = 3]

Ownership == {Plain, Handoff, Joining}

\* A pool with one range that two threads fight for, and one where events fail.
Contended == [Plain EXCEPT !.streams = {main}, !.generations = 5]
Failing == [Plain EXCEPT !.mayFail = TRUE, !.generations = 3]

Answering == {Contended, Failing}

Transferring == {Handoff}
=============================================================================
