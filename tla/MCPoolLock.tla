------------------------------ MODULE MCPoolLock ------------------------------
\* What the boundary of PoolLock meets in the model-checked instances.
EXTENDS PoolLock

CONSTANTS r1, r2, r3

\* Two ranges must coalesce and no retirement has recorded uses; or one range
\* is enough, and one of two retirements has.
Settling == {[needed |-> 2, queued |-> {r1, r2, r3}, uses |-> {}],
             [needed |-> 1, queued |-> {r1, r2}, uses |-> {r1}]}

\* Two ranges must coalesce while a retirement with recorded uses is queued.
Coalescing == {[needed |-> 2, queued |-> {r1, r2, r3}, uses |-> {r1}]}
=============================================================================
