----------------------------- MODULE Residency -----------------------------
(***************************************************************************)
(* What a simulated plan promises, without lanes, queues, bytes or time    *)
(* (the contract table of docs/architecture/simulation.md): alias groups   *)
(* have values with versions, a readable device copy and a readable spill  *)
(* copy each hold one version, copies are made, moved and dropped, a task  *)
(* begins only on the latest version of everything it reads, and a run     *)
(* completes only with the final residency current.                        *)
(***************************************************************************)
EXTENDS Integers

CONSTANT None                  \* no readable copy

VARIABLES program,             \* [tasks, finalDev, finalSpill, ...]
          begun, executed,     \* tasks that started, and that finished
          latest,              \* versions written so far, per group
          device, spill,       \* version of the readable copy, or None
          completed            \* the run was reported feasible

vars == <<program, begun, executed, latest, device, spill, completed>>

Copies == DOMAIN latest

Init ==
  /\ begun = {} /\ executed = {} /\ completed = FALSE
  /\ \A a \in Copies : latest[a] = 0 /\ {device[a], spill[a]} \subseteq {0, None}

Current(copy, a) == copy[a] = latest[a]

\* A task starts: every group it reads has its latest version on the device.
Begin(t) ==
  /\ t \notin begun
  /\ begun' = begun \cup {t}
  /\ \A a \in program.tasks[t].inputs : Current(device, a)
  \* storage for the outputs is prepared: their old copies are not readable
  /\ \A a \in Copies :
       IF a \in program.tasks[t].outputs
       THEN device'[a] = None /\ spill'[a] = None
       ELSE device'[a] = device[a] /\ spill'[a] = spill[a]
  /\ UNCHANGED <<program, executed, latest, completed>>

\* A task ends: what it wrote has a new version, which only the device holds.
Finish(t, n) ==
  /\ t \in begun \ executed
  /\ executed' = executed \cup {t}
  /\ LET written == program.tasks[t].outputs \cup program.tasks[t].mutations
     IN  /\ latest' = [a \in Copies |-> IF a \in written THEN n[a] ELSE latest[a]]
         /\ \A a \in Copies :
              IF a \in written
              THEN device'[a] \in {None, latest'[a]} /\ spill'[a] = None
              ELSE device'[a] = device[a] /\ spill'[a] = spill[a]
  /\ UNCHANGED <<program, begun, completed>>

\* One group's copies move: each side keeps, drops, or takes the other's.
Transfer(a) ==
  /\ device'[a] \in {device[a], spill[a], None}
  /\ spill'[a] \in {spill[a], device[a], None}
  /\ \A b \in Copies \ {a} : device'[b] = device[b] /\ spill'[b] = spill[b]
  /\ UNCHANGED <<program, begun, executed, latest, completed>>

\* The run is reported feasible.
Complete ==
  /\ ~completed /\ completed' = TRUE
  /\ executed = DOMAIN program.tasks
  /\ \A a \in program.finalDev : Current(device, a)
  /\ \A a \in program.finalSpill : Current(spill, a)
  /\ UNCHANGED <<program, begun, executed, latest, device, spill>>

Next ==
  \/ \E t \in DOMAIN program.tasks :
       \/ Begin(t)
       \/ Finish(t, [a \in Copies |-> latest[a] + 1])
  \/ \E a \in Copies : Transfer(a)
  \/ Complete

Spec == Init /\ [][Next]_vars
=============================================================================
