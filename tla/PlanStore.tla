----------------------------- MODULE PlanStore -----------------------------
(***************************************************************************)
(* One entry of the planning store and the processes that share it         *)
(* (src/src/shadowspill/planner/plan_store/, planner/admission/            *)
(* refinement.py, store/policy.py, _files.py).                             *)
(*                                                                         *)
(* An entry is a directory: the selection (a plan or a cached refusal),    *)
(* its certificate, its summary, and the retained alternatives with the    *)
(* manifest that declares them complete.  Each file is replaced whole      *)
(* (atomic_write), nothing else is: no lock spans two files, processes     *)
(* interleave between any two file operations, and a process may stop      *)
(* anywhere and be run again.                                              *)
(***************************************************************************)
EXTENDS Integers, Sequences, FiniteSets

CONSTANTS
  Plans,    \* the plans a search can answer this request with
  Labels,   \* the names retained alternatives are filed under
  Procs,    \* the processes that may use the store
  Setups,   \* the instances: see SetupType
  None, Verdict

Modes == {"contribute", "reuse", "require", "refresh"}

\* What one process asks: a plan, or the summary of the plan the store holds.
Calls == [op : {"plan", "summary"}, mode : Modes, incumbent : Plans \union {None},
          keep : BOOLEAN, facts : Nat]

\* here and elsewhere: a plan's makespan on the requested machine, and the one
\* it carries from the machine it was found on.  runs: the plans that replay
\* and place here.  certifies: the plans whose layout the builder accepts.
SetupType == [procs : SUBSET Procs, calls : SUBSET Calls, each : Nat,
              found : SUBSET (Plans \union {Verdict}),
              here : [Plans -> Nat], elsewhere : [Plans -> Nat],
              runs : SUBSET Plans, certifies : SUBSET Plans]

ASSUME SetupsTyped == \A s \in Setups : s \in SetupType

\* None and Verdict are no plans, and None is no record of a file and no outcome.
ASSUME NoneAssumption ==
  /\ Verdict \notin Plans /\ None \notin Plans \union {Verdict}
  /\ None \notin [plan : Plans \union {Verdict}, search : Plans \union {Verdict},
                  evidence : Plans \union {None}]
  /\ None \notin [plan : Plans, facts : Nat]
  /\ None \notin {Labels, "answered", "differs"}

VARIABLES
  setup,   \* the instance, constant through a behaviour
  files,   \* the entry's directory
  proc,    \* what each process has in hand
  left     \* calls each process may still make

vars == <<setup, files, proc, left>>

Empty == [selection |-> None, certificate |-> None, summary |-> None,
          resolutions |-> [l \in Labels |-> None], manifest |-> None]

NoCall == [op |-> "plan", mode |-> "contribute", incumbent |-> None,
           keep |-> FALSE, facts |-> 0]

\* stored: the plan read back.  result: the plan this call answers with.
\* search: what its search found, which its diagnostics and alternatives are
\* about.  todo: the labels still to read, remove or write.  steps: the other
\* files still to replace or remove.  outcome: how the call ended.
Fresh == [pc |-> "idle", call |-> NoCall, stored |-> None, certificate |-> None,
          kept |-> {}, result |-> None, search |-> None, todo |-> {}, steps |-> <<>>,
          outcome |-> None]

Init ==
  /\ setup \in Setups
  /\ files = Empty
  /\ proc = [p \in Procs |-> Fresh]
  /\ left = [p \in Procs |-> IF p \in setup.procs THEN setup.each ELSE 0]

-----------------------------------------------------------------------------
(* The gates a mode implies. *)
for_mode(mode) ==
  [read |-> mode # "refresh", write |-> mode \in {"contribute", "refresh"},
   overwrite |-> mode = "refresh", require |-> mode = "require"]

Policy(p) == for_mode(proc[p].call.mode)

At(p, pc) == proc[p].pc = pc

\* The process goes on with these fields changed.
Changed(r, changes) ==
  [f \in DOMAIN r |-> IF f \in DOMAIN changes THEN changes[f] ELSE r[f]]

Goes(p, changes) == proc' = [proc EXCEPT ![p] = Changed(@, changes)]

\* The call ends: with an answer, with None, or with the error raised.
Ends(p, outcome) == Goes(p, [pc |-> "ended", outcome |-> outcome])

\* A reader that found no usable record: a plan is searched for, and there is
\* nothing to summarise.
Misses(p) ==
  IF proc[p].call.op = "plan"
  THEN Goes(p, [pc |-> "resolve", stored |-> None, kept |-> {}, todo |-> {}])
  ELSE Ends(p, "none")

Reads == UNCHANGED <<setup, files, left>>

-----------------------------------------------------------------------------
(* Calls. *)
Call(p) ==
  /\ At(p, "idle") /\ left[p] > 0
  /\ left' = [left EXCEPT ![p] = @ - 1]
  /\ \E c \in setup.calls :
       Goes(p, [call |-> c,
                pc |-> CASE for_mode(c.mode).read /\ c.op = "summary" -> "summary"
                         [] for_mode(c.mode).read /\ c.op = "plan" -> "selection"
                         [] ~for_mode(c.mode).read /\ c.op = "plan" -> "resolve"
                         [] OTHER -> "ended"])
  /\ UNCHANGED <<setup, files>>

Return(p) ==
  /\ At(p, "ended")
  /\ proc' = [proc EXCEPT ![p] = Fresh]
  /\ Reads

\* The process is killed between two file operations; what it wrote stays.
Crash(p) ==
  /\ proc[p].pc \notin {"idle", "ended"}
  /\ proc' = [proc EXCEPT ![p] = Fresh]
  /\ Reads

-----------------------------------------------------------------------------
(* Reading an entry. *)
ReadSummary(p) ==
  /\ At(p, "summary")
  /\ IF files.summary # None
     THEN Goes(p, [pc |-> "ended", result |-> files.summary, outcome |-> "summary"])
     ELSE Goes(p, [pc |-> "selection"])
  /\ Reads

\* The makespan in the record's diagnostics is the plan's own.
Consistent(selection) == setup.here[selection.search] = setup.here[selection.plan]

\* A cached refusal is raised, unless the caller has a plan in hand.  So is a
\* record whose diagnostics are those of a slower plan, before anything else of
\* the entry is read.
ReadSelection(p) ==
  /\ At(p, "selection")
  /\ CASE files.selection = None -> Misses(p)
       [] files.selection # None /\ files.selection.plan = Verdict ->
            IF proc[p].call.op = "plan" /\ proc[p].call.incumbent # None
            THEN Misses(p)
            ELSE Ends(p, "refused")
       [] /\ files.selection # None /\ files.selection.plan # Verdict
          /\ ~Consistent(files.selection) -> Ends(p, "inconsistent")
       [] OTHER -> Goes(p, [stored |-> files.selection.plan,
                            pc |-> IF proc[p].call.op = "plan" /\ proc[p].call.keep
                                   THEN "manifest" ELSE "exists"])
  /\ Reads

ReadManifest(p) ==
  /\ At(p, "manifest")
  /\ IF files.manifest = None
     THEN Misses(p)
     ELSE Goes(p, [todo |-> files.manifest,
                   pc |-> IF files.manifest = {} THEN "exists" ELSE "resolutions"])
  /\ Reads

\* Mutant of ReadResolution: a record that is gone is passed over.
SkipMissing(p) ==
  /\ At(p, "resolutions")
  /\ \E l \in proc[p].todo :
       Goes(p, [kept |-> proc[p].kept \union
                           ({<<l, files.resolutions[l]>>} \ {<<l, None>>}),
                todo |-> proc[p].todo \ {l},
                pc |-> IF proc[p].todo = {l} THEN "exists" ELSE "resolutions"])
  /\ Reads

\* Every record the manifest names, or a miss: never a part of them.
ReadResolution(p) ==
  /\ At(p, "resolutions")
  /\ \E l \in proc[p].todo :
       IF files.resolutions[l] = None
       THEN Misses(p)
       ELSE Goes(p, [kept |-> proc[p].kept \union {<<l, files.resolutions[l]>>},
                     todo |-> proc[p].todo \ {l},
                     pc |-> IF proc[p].todo = {l} THEN "exists" ELSE "resolutions"])
  /\ Reads

\* What a lookup does once the record, and perhaps its certificate, is read.
Looked(p, certificate) ==
  CASE proc[p].call.op = "plan" ->
         Goes(p, [pc |-> "resolve", certificate |-> certificate])
    [] proc[p].call.op = "summary" /\ certificate = None -> Ends(p, "none")
    [] OTHER -> Goes(p, [pc |-> "summarise", result |-> proc[p].stored])

CertificateExists(p) ==
  /\ At(p, "exists")
  /\ IF files.certificate = None
     THEN Looked(p, None)
     ELSE Goes(p, [pc |-> "certificate"])
  /\ Reads

\* Unlinked since it was seen: the read raises.
ReadCertificate(p) ==
  /\ At(p, "certificate")
  /\ IF files.certificate = None
     THEN Ends(p, "vanished")
     ELSE Looked(p, files.certificate)
  /\ Reads

-----------------------------------------------------------------------------
(* PlanStore.resolve, once the store has been read. *)

\* Mutant of Supersede: the selection is replaced first.
SelectionFirst == <<"selection", "summary", "certificate">>

\* The order in which a new record replaces the files of the old one.
Supersede == <<"summary", "certificate", "selection">>

Stored(p) == proc[p].stored

\* The stored plan answers, unless the plan in hand carries a better makespan.
Suffices(p) ==
  /\ Stored(p) # None
  /\ proc[p].call.incumbent # None =>
       setup.elsewhere[proc[p].call.incumbent] >= setup.here[Stored(p)]

ServeStored(p) ==
  /\ At(p, "resolve") /\ Suffices(p)
  /\ Goes(p, [pc |-> "admit", result |-> Stored(p)])
  /\ Reads

refuse_miss(p) ==
  /\ At(p, "resolve") /\ Stored(p) = None /\ Policy(p).require
  /\ Ends(p, "missing")
  /\ Reads

Searches(p) ==
  At(p, "resolve") /\ ~Suffices(p) /\ ~(Stored(p) = None /\ Policy(p).require)

\* Mutant of answer_no_worse_than: the search is trusted to have used the hint.
AnswerAsFound(found, incumbent) == found

\* The plan in hand, replayed here, when it is strictly faster than the search's
\* answer and still places.
answer_no_worse_than(found, incumbent) ==
  IF incumbent \in setup.runs /\ setup.here[incumbent] < setup.here[found]
  THEN incumbent ELSE found

\* Mutant of NoBetter: a search begun for a better plan in hand is taken to have
\* found one.
TakenAsBetter(p, result) == FALSE

\* The search found nothing better than what the store holds.
NoBetter(p, result) ==
  Stored(p) # None /\ setup.here[result] >= setup.here[Stored(p)]

\* A search without an answer is recorded, unless it was handed a plan.
SearchRefuses(p) ==
  /\ Searches(p) /\ Verdict \in setup.found
  /\ IF proc[p].call.incumbent = None /\ Policy(p).write
     THEN Goes(p, [pc |-> "write", result |-> Verdict, search |-> Verdict,
                   steps |-> Supersede])
     ELSE Ends(p, "refused")
  /\ Reads

\* What a search that found this plan keeps under these labels.
Alternatives(found, labels) == {<<l, found>> : l \in labels}

\* The shipped search measures the plan it is handed beside its own candidates,
\* so it can answer with it when none of them works.
Found(p) == (setup.found \ {Verdict}) \union ({proc[p].call.incumbent} \intersect setup.runs)

\* The plan in hand takes over the diagnostics and the alternatives of the
\* search it outran.
SearchAnswers(p) ==
  /\ Searches(p)
  /\ \E found \in Found(p) :
       LET result == answer_no_worse_than(found, proc[p].call.incumbent)
           kept == IF proc[p].call.keep THEN Alternatives(found, Labels) ELSE {}
       IN IF NoBetter(p, result)
          THEN Goes(p, [pc |-> "admit", result |-> Stored(p)])
          ELSE Goes(p, [result |-> result, search |-> found, kept |-> kept,
                        certificate |-> None, steps |-> Supersede,
                        pc |-> CASE ~Policy(p).write -> "admit"
                                 [] Policy(p).overwrite \/ Stored(p) # None -> "write"
                                 [] OTHER -> "compare"])
  /\ Reads

-----------------------------------------------------------------------------
(* Writing an entry. *)

\* Where write_selection goes on once the selection stands.
Retains(p) == IF proc[p].call.keep THEN "list" ELSE "admit"

\* The record as it is compared: the plan, and in its diagnostics the plan the
\* search found and what became of the one it was handed.
Answer(p) == [plan |-> proc[p].result, search |-> proc[p].search,
              evidence |-> proc[p].call.incumbent]

\* A successful answer can replace a cached refusal.
Replaceable(selection) == selection = None \/ selection.plan = Verdict

Compare(p) ==
  /\ At(p, "compare")
  /\ CASE Replaceable(files.selection) -> Goes(p, [pc |-> "write"])
       [] ~Replaceable(files.selection) /\ files.selection = Answer(p) ->
            Goes(p, [pc |-> Retains(p)])
       [] OTHER -> Ends(p, "differs")
  /\ Reads

\* One file of the new record: the old summary and the old certificate go
\* before the selection they describe is replaced.
WriteStep(p) ==
  /\ At(p, "write")
  /\ LET file == Head(proc[p].steps)
         rest == Tail(proc[p].steps)
     IN /\ files' = [files EXCEPT ![file] =
                       IF file = "selection" THEN Answer(p) ELSE None]
        /\ Goes(p, [steps |-> rest,
                    pc |-> IF rest # <<>> THEN "write" ELSE
                           IF proc[p].result = Verdict THEN "ended" ELSE Retains(p),
                    outcome |-> IF rest = <<>> /\ proc[p].result = Verdict
                                THEN "refused" ELSE None])
  /\ UNCHANGED <<setup, left>>

\* write_resolutions removes the directory: what is in it is listed first, the
\* labels with a record and those whose directory was only made.
ListResolutions(p) ==
  /\ At(p, "list")
  /\ \E made \in SUBSET Labels :
       Goes(p, [pc |-> "remove",
                todo |-> made \union {l \in Labels : files.resolutions[l] # None},
                steps |-> IF files.manifest = None THEN <<>> ELSE <<"manifest">>])
  /\ Reads

\* Mutant of RemoveResolution: the old alternatives are left to be overwritten.
LeaveDirectory(p) ==
  /\ At(p, "remove")
  /\ Goes(p, [pc |-> "retain", todo |-> Labels, steps |-> <<>>])
  /\ Reads

\* Each is removed, in any order, as it is by then; what another process adds
\* after the listing stays.
RemoveResolution(p) ==
  /\ At(p, "remove")
  /\ \/ \E l \in proc[p].todo :
          /\ files' = [files EXCEPT !.resolutions[l] = None]
          /\ Goes(p, [todo |-> proc[p].todo \ {l}])
     \/ /\ proc[p].steps # <<>>
        /\ files' = [files EXCEPT !.manifest = None]
        /\ Goes(p, [steps |-> <<>>])
     \/ /\ proc[p].todo = {} /\ proc[p].steps = <<>>
        /\ Goes(p, [pc |-> "retain", todo |-> Labels])
        /\ UNCHANGED files
  /\ UNCHANGED <<setup, left>>

WriteResolution(p) ==
  /\ At(p, "retain")
  /\ \E l \in proc[p].todo :
       /\ files' = [files EXCEPT !.resolutions[l] = proc[p].search]
       /\ Goes(p, [todo |-> proc[p].todo \ {l},
                   pc |-> IF proc[p].todo = {l} THEN "publish" ELSE "retain"])
  /\ UNCHANGED <<setup, left>>

PublishManifest(p) ==
  /\ At(p, "publish")
  /\ files' = [files EXCEPT !.manifest = Labels]
  /\ Goes(p, [pc |-> "admit"])
  /\ UNCHANGED <<setup, left>>

\* The directory, or the file about to replace one in it, was removed by
\* another process: the write raises.
DirectoryGone(p) ==
  /\ proc[p].pc \in {"retain", "publish"}
  /\ \E q \in Procs \ {p} : At(q, "remove")
  /\ Ends(p, "vanished")
  /\ Reads

-----------------------------------------------------------------------------
(* resolve_fixed_layout_selection: certifying what was looked up. *)

\* The certificate read back was made for these facts.
ForTheseFacts(p) ==
  proc[p].certificate # None /\ proc[p].certificate.facts = proc[p].call.facts

ServeCertificate(p) ==
  /\ At(p, "admit") /\ ForTheseFacts(p)
  /\ Ends(p, "answered")
  /\ Reads

\* The layout is built; an infeasible one is raised, and a store that is not
\* written, or has lost the record, gets no certificate.
BuildLayout(p) ==
  /\ At(p, "admit") /\ ~ForTheseFacts(p)
  /\ IF proc[p].result \notin setup.certifies
     THEN Ends(p, "infeasible")
     ELSE Goes(p, [certificate |-> [plan |-> proc[p].result, facts |-> proc[p].call.facts],
                   pc |-> IF Policy(p).write /\ files.selection # None
                          THEN "certify" ELSE "ended",
                   outcome |-> IF Policy(p).write /\ files.selection # None
                               THEN None ELSE "answered"])
  /\ Reads

Certify(p) ==
  /\ At(p, "certify")
  /\ files' = [files EXCEPT !.certificate = proc[p].certificate]
  /\ Goes(p, [pc |-> "summarise"])
  /\ UNCHANGED <<setup, left>>

\* By certify, or by read_summary finishing an interrupted certification.
WriteSummary(p) ==
  /\ At(p, "summarise")
  /\ files' = IF Policy(p).write
              THEN [files EXCEPT !.summary = proc[p].result] ELSE files
  /\ Ends(p, IF proc[p].call.op = "plan" THEN "answered" ELSE "summary")
  /\ UNCHANGED <<setup, left>>

-----------------------------------------------------------------------------
Step(p) ==
  \/ Call(p) \/ Return(p) \/ Crash(p)
  \/ ReadSummary(p) \/ ReadSelection(p) \/ ReadManifest(p) \/ ReadResolution(p)
  \/ CertificateExists(p) \/ ReadCertificate(p)
  \/ ServeStored(p) \/ refuse_miss(p) \/ SearchRefuses(p) \/ SearchAnswers(p)
  \/ Compare(p) \/ WriteStep(p)
  \/ ListResolutions(p) \/ RemoveResolution(p)
  \/ WriteResolution(p) \/ PublishManifest(p) \/ DirectoryGone(p)
  \/ ServeCertificate(p) \/ BuildLayout(p) \/ Certify(p) \/ WriteSummary(p)

Next == \E p \in Procs : Step(p)

Spec == Init /\ [][Next]_vars

-----------------------------------------------------------------------------
(* Kinds of instance, told apart by what the properties below rest on. *)

\* One process at a time uses the entry.
OneUser(s) == \A p, q \in s.procs : p = q

\* No caller asks for the alternatives.
KeepsNone(s) == \A c \in s.calls : ~c.keep

\* One process, and no request for alternatives that a search can refuse.
Steady(s) == OneUser(s) /\ (Verdict \in s.found => KeepsNone(s))

\* Every search of the request gives the same answer, as a deterministic search
\* that is handed no plan does.
OneAnswer(s) ==
  /\ \A a, b \in s.found : a = b
  /\ \A c \in s.calls : c.incumbent = None

-----------------------------------------------------------------------------
(* Properties. *)
Answered(p) == At(p, "ended") /\ proc[p].outcome = "answered"

\* What stands beside a plan is about that plan.  A certificate and a summary in
\* the directory are those of the selection in it, whatever was interrupted, and
\* a caller is handed the certificate of the plan it is handed, for the facts it
\* asked with (writer.py: summary and certificate go before the selection is
\* replaced; refinement.py compares only the facts).
BesideItsPlan ==
  /\ files.certificate # None =>
       files.selection # None /\ files.selection.plan = files.certificate.plan
  /\ files.summary # None =>
       files.selection # None /\ files.selection.plan = files.summary
  /\ \A p \in Procs : Answered(p) =>
       proc[p].certificate = [plan |-> proc[p].result, facts |-> proc[p].call.facts]

Refreshing == \E p \in Procs : proc[p].call.mode = "refresh" /\ At(p, "write")

\* The store never gets worse: unless a refresh asks for it, a stored plan is
\* replaced only by a strictly faster one, never by a slower one and never by a
\* refusal (plan_store/__init__.py: stored answers and improvements).
PlanKept ==
  [][ files.selection # None /\ files.selection.plan # Verdict
        /\ files'.selection # files.selection =>
        \/ Refreshing
        \/ /\ files'.selection.plan # Verdict
           /\ setup.here[files'.selection.plan] < setup.here[files.selection.plan] ]_vars

\* A request handed a plan that runs and places here never answers worse than
\* it.  A fresh answer is held to the plan as it runs on this machine, whatever
\* the search made of it; the stored answer is held to the makespan the plan
\* carries from the machine it was found on (search/__init__.py,
\* answer_no_worse_than; plan_store/__init__.py, resolve).
AnswersNoWorse ==
  \A p \in Procs : Answered(p) /\ proc[p].call.incumbent \in setup.runs =>
    LET incumbent == proc[p].call.incumbent
        answer == proc[p].result
    IN \/ setup.here[answer] <= setup.here[incumbent]
       \/ answer = Stored(p) /\ setup.here[answer] <= setup.elsewhere[incumbent]

\* Retention is whole: a caller that asks for the alternatives and is answered
\* has every one of them, all from one search, however the processes that wrote
\* them were interrupted or interleaved and whatever stood there before
\* (resolutions.py: the directory is replaced, its manifest published last).
RetentionWhole ==
  \A p \in Procs : Answered(p) /\ proc[p].call.keep =>
    \E found \in Plans : proc[p].kept = Alternatives(found, Labels)

=============================================================================
