-------------------------- MODULE PlanStoreProofs --------------------------
(***************************************************************************)
(* Proofs about the planning store's entry, for every number of processes, *)
(* calls, plans, labels and crashes.                                       *)
(*                                                                         *)
(* The inductive invariant IInv says what one process has in hand at every *)
(* point of its call (Control), that the answer held is no worse than the  *)
(* plan in hand (NoWorse), and adds, for the kinds of instance PlanStore   *)
(* names, what that is worth: the directory agrees with itself and with    *)
(* the one process that uses it (FilesAgree, UserHolds), the alternatives  *)
(* it is emptied of and filled with are those of one search (UserFiled,    *)
(* OneSearch), its writes improve on what they replace (Improves); with    *)
(* any number of processes, everything on disk and in hand is the one      *)
(* answer (AnswerFiles, AnswerHolds); and in both cases the alternatives   *)
(* read are those of one search (HoldsAlternatives, ReadSoFar) and the     *)
(* certificate handed over is the answer's (Handed).  One lemma per step   *)
(* of a process shows that it keeps IInv, by way of OneMoves: a step of    *)
(* one process leaves what the others hold as it is.                       *)
(***************************************************************************)
EXTENDS PlanStore, TLAPS

(* The types of the state. *)
Selections == [plan : Plans \union {Verdict}, search : Plans \union {Verdict},
               evidence : Plans \union {None}]
Certificates == [plan : Plans, facts : Nat]
Files == [selection : Selections \union {None}, certificate : Certificates \union {None},
          summary : Plans \union {None}, resolutions : [Labels -> Plans \union {None}],
          manifest : {None, Labels}]

\* The files a superseding write has still to replace.
Last2 == <<"certificate", "selection">>
Last1 == <<"selection">>

\* The file to be removed with the labels.
OldManifest == <<"manifest">>

\* Where a process holds a plan it read, and where it holds the plan it answers
\* with.
Lookup == {"manifest", "resolutions", "exists", "certificate"}
Filing == {"list", "remove", "retain", "publish"}
Beside == Filing \union {"admit", "certify"}
Late == Beside \union {"compare"}
Points == Late \union Lookup
            \union {"idle", "summary", "selection", "resolve", "write", "summarise", "ended"}

Outcomes == {None, "none", "refused", "summary", "vanished", "missing", "differs",
             "inconsistent", "answered", "infeasible"}

Processes == [pc : Points, call : Calls, stored : Plans \union {None},
              certificate : Certificates \union {None}, kept : SUBSET (Labels \X Plans),
              result : Plans \union {None, Verdict}, search : Plans \union {None, Verdict},
              todo : SUBSET Labels, steps : {<<>>, Last1, Last2, Supersede, OldManifest},
              outcome : Outcomes]

\* The type invariant.
Typed ==
  /\ setup \in Setups
  /\ files \in Files
  /\ proc \in [Procs -> Processes]
  /\ left \in [Procs -> Nat]

\* The call is one that answers with a plan, and this process holds its answer.
Answering(p) ==
  \/ proc[p].pc \in Late
  \/ proc[p].pc = "write" /\ proc[p].result # Verdict
  \/ proc[p].pc = "summarise" /\ proc[p].call.op = "plan"
  \/ Answered(p)

\* The alternatives are read for a caller that asks to keep them.
ReadsAlternatives(r) ==
  r.pc \in {"manifest", "resolutions"} => r.call.op = "plan" /\ r.call.keep

\* What a process has in hand at each point of its call.
Control(p) ==
  LET r == proc[p] IN
  /\ ReadsAlternatives(r)
  /\ r.pc = "idle" => r = Fresh
  /\ r.pc # "ended" => r.outcome = None
  /\ r.pc # "idle" \/ left[p] > 0 => p \in setup.procs
  /\ r.pc # "idle" => r.call \in setup.calls
  /\ r.pc \in Lookup => r.stored \in Plans
  /\ r.pc \in Lookup \union {"summary", "selection"} => r.certificate = None
  /\ r.pc \in Late \union {"resolve", "write"} => r.call.op = "plan"
  /\ Answering(p) \/ r.pc = "summarise" => r.result \in Plans
  /\ Answered(p) => r.call.op = "plan"
  /\ r.pc = "compare" => r.steps = Supersede
  /\ r.pc = "certify" => for_mode(r.call.mode).write
  /\ r.pc = "write" => r.result # None /\ r.steps \in {Last1, Last2, Supersede}
  /\ r.pc \in Filing \union {"compare", "write"} =>
       r.search # None /\ (r.result # Verdict => r.search # Verdict)
  /\ r.pc = "write" /\ r.result = Verdict => r.call.incumbent = None

\* The answer held is no slower here than the plan in hand, or is the stored
\* plan and no slower than the makespan the plan in hand carries.
NoWorse(p) ==
  Answering(p) /\ proc[p].call.incumbent \in setup.runs =>
    \/ setup.here[proc[p].result] <= setup.here[proc[p].call.incumbent]
    \/ /\ proc[p].result = proc[p].stored
       /\ setup.here[proc[p].result] <= setup.elsewhere[proc[p].call.incumbent]

\* The certificate held is the one of the answer, for the call's facts.
Certified(p) ==
  proc[p].certificate = [plan |-> proc[p].result, facts |-> proc[p].call.facts]

\* From certifying on, a caller's certificate is that of its answer.
Handed(p) ==
  \/ proc[p].pc = "certify"
  \/ proc[p].pc = "summarise" /\ proc[p].call.op = "plan"
  \/ Answered(p)
  => Certified(p)

\* The selection on disk is this plan.
Stands(plan) == files.selection # None /\ files.selection.plan = plan

\* How far the directory of alternatives is emptied and filled again.
UserFiled(p) ==
  LET r == proc[p] IN
  /\ r.pc = "remove" /\ files.manifest # None => r.steps # <<>>
  /\ r.pc \in {"retain", "publish"} => files.manifest = None
  /\ r.pc = "retain" => \A l \in Labels \ r.todo : files.resolutions[l] = r.search
  /\ r.pc = "publish" => \A l \in Labels : files.resolutions[l] = r.search

\* What one process knows of the files while no other writes them.
UserHolds(p) ==
  LET r == proc[p] IN
  /\ r.pc \in Lookup => Stands(r.stored)
  /\ r.pc = "resolve" /\ r.stored # None => Stands(r.stored)
  /\ r.pc = "resolve" /\ r.certificate # None => r.certificate.plan = r.stored
  /\ r.pc = "admit" /\ r.certificate # None => r.certificate.plan = r.result
  /\ r.pc \in Filing \union {"compare", "write"} /\ r.result # Verdict =>
       r.certificate = None
  /\ r.pc \in Beside \union {"summarise"} /\ Policy(p).write => Stands(r.result)
  /\ r.pc = "write" /\ r.steps = Last2 => files.summary = None
  /\ r.pc = "write" /\ r.steps = Last1 => files.summary = None /\ files.certificate = None
  /\ UserFiled(p)

\* What a manifest declares complete comes from one search.
OneSearch ==
  files.manifest # None =>
    \E found \in Plans : \A l \in Labels : files.resolutions[l] \in {None, found}

\* The certificate and the summary are those of the selection, and the
\* alternatives are those of one search.
FilesAgree ==
  /\ OneSearch
  /\ files.certificate # None => Stands(files.certificate.plan)
  /\ files.summary # None => Stands(files.summary)

\* A write improves on what it replaces, and a search that was not asked to keep
\* alternatives began without a stored plan.
Improves(p) ==
  LET r == proc[p] IN
  /\ r.pc = "write" /\ r.call.mode # "refresh" =>
       \/ Replaceable(files.selection)
       \/ r.result # Verdict /\ setup.here[r.result] < setup.here[files.selection.plan]
  /\ r.pc = "resolve" /\ r.stored = None /\ r.call.mode # "refresh" =>
       r.call.keep \/ Replaceable(files.selection)

\* Everything on disk is the one answer.
AnswerFiles ==
  /\ files.selection # None => /\ files.selection.plan \in setup.found
                               /\ files.selection.search \in setup.found
                               /\ files.selection.evidence = None
  /\ files.certificate # None => /\ files.certificate.plan \in setup.found
                                 /\ files.selection # None
  /\ files.summary # None => files.summary \in setup.found /\ files.selection # None
  /\ \A l \in Labels : files.resolutions[l] # None => files.resolutions[l] \in setup.found

\* Everything in hand is the one answer, and whoever read it can count on it.
AnswerHolds(p) ==
  LET r == proc[p] IN
  /\ r.stored # None => r.stored \in setup.found /\ files.selection # None
  /\ r.result # None => r.result \in setup.found
  /\ r.search # None => r.search \in setup.found
  /\ r.certificate # None => r.certificate.plan \in setup.found
  /\ r.pc \in {"certify", "summarise"} => files.selection # None

\* One process uses the entry, or every search gives one answer.
Single(s) == OneUser(s) \/ OneAnswer(s)

\* Every alternative, of one search.
Complete(kept) == \E found \in Plans : kept = Alternatives(found, Labels)

\* The alternatives read so far are those of one search, and so are the others.
ReadSoFar(p) ==
  \E found \in Plans :
    /\ proc[p].kept = Alternatives(found, Labels \ proc[p].todo)
    /\ OneUser(setup) => \A l \in Labels : files.resolutions[l] \in {None, found}
    /\ OneAnswer(setup) => found \in setup.found

\* The alternatives in hand are those of one search, as far as they are read.
HoldsAlternatives(p) ==
  LET r == proc[p] IN
  r.call.op = "plan" /\ r.call.keep =>
    /\ r.pc \in {"summary", "selection", "manifest"} => r.kept = {}
    /\ r.pc = "resolutions" => ReadSoFar(p)
    /\ r.pc \in {"exists", "certificate"} => Complete(r.kept)
    /\ r.pc = "resolve" /\ r.stored # None => Complete(r.kept)
    /\ Answering(p) => Complete(r.kept)

\* The inductive invariant: what holds of each process, and what holds of the
\* directory.
Local(p) ==
  /\ Control(p)
  /\ NoWorse(p)
  /\ OneUser(setup) => UserHolds(p)
  /\ Steady(setup) => Improves(p)
  /\ OneAnswer(setup) => AnswerHolds(p)
  /\ Single(setup) => HoldsAlternatives(p) /\ Handed(p)

IInv ==
  /\ Typed
  /\ \A p \in Procs : Local(p)
  /\ OneUser(setup) => FilesAgree
  /\ OneAnswer(setup) => AnswerFiles

-----------------------------------------------------------------------------
\* A record with the ten fields and nothing else.
Whole(r) ==
  r = [pc |-> r.pc, call |-> r.call, stored |-> r.stored, certificate |-> r.certificate,
       kept |-> r.kept, result |-> r.result, search |-> r.search, todo |-> r.todo,
       steps |-> r.steps, outcome |-> r.outcome]

\* What a process has in hand after a step that changes some of its fields.
LEMMA GoesFields ==
  ASSUME Typed, NEW p \in Procs, NEW changes, Goes(p, changes)
  PROVE  /\ proc'[p].pc = IF "pc" \in DOMAIN changes THEN changes.pc ELSE proc[p].pc
         /\ proc'[p].call = IF "call" \in DOMAIN changes THEN changes.call ELSE proc[p].call
         /\ proc'[p].stored = IF "stored" \in DOMAIN changes THEN changes.stored ELSE proc[p].stored
         /\ proc'[p].certificate = IF "certificate" \in DOMAIN changes THEN changes.certificate ELSE proc[p].certificate
         /\ proc'[p].kept = IF "kept" \in DOMAIN changes THEN changes.kept ELSE proc[p].kept
         /\ proc'[p].result = IF "result" \in DOMAIN changes THEN changes.result ELSE proc[p].result
         /\ proc'[p].search = IF "search" \in DOMAIN changes THEN changes.search ELSE proc[p].search
         /\ proc'[p].todo = IF "todo" \in DOMAIN changes THEN changes.todo ELSE proc[p].todo
         /\ proc'[p].steps = IF "steps" \in DOMAIN changes THEN changes.steps ELSE proc[p].steps
         /\ proc'[p].outcome = IF "outcome" \in DOMAIN changes THEN changes.outcome ELSE proc[p].outcome
         /\ Whole(proc'[p])
         /\ proc' = [proc EXCEPT ![p] = proc'[p]]
<1>1. proc \in [Procs -> Processes]
  BY DEF Typed
<1>2. /\ DOMAIN proc[p] = {"pc", "call", "stored", "certificate", "kept",
                           "result", "search", "todo", "steps", "outcome"}
      /\ proc'[p] = Changed(proc[p], changes)
      /\ proc' = [proc EXCEPT ![p] = proc'[p]]
  BY <1>1 DEF Goes, Processes
<1> QED BY <1>2 DEF Changed, Whole

\* The instance has the declared shape.
LEMMA SetupShape ==
  ASSUME Typed
  PROVE  /\ setup.calls \subseteq Calls /\ setup.found \subseteq Plans \union {Verdict}
         /\ setup.here \in [Plans -> Nat] /\ setup.elsewhere \in [Plans -> Nat]
         /\ setup.runs \subseteq Plans /\ setup.certifies \subseteq Plans
         /\ setup.procs \subseteq Procs
BY SetupsTyped DEF Typed, SetupType

\* The types of what one process has in hand and of the directory it shares.
LEMMA InHand ==
  ASSUME IInv, NEW p \in Procs
  PROVE  LET r == proc[p] IN
         /\ Typed /\ Local(p) /\ files \in Files
         /\ r.pc \in Points /\ r.call \in Calls
         /\ r.stored \in Plans \union {None} /\ r.certificate \in Certificates \union {None}
         /\ r.kept \in SUBSET (Labels \X Plans) /\ r.result \in Plans \union {None, Verdict}
         /\ r.search \in Plans \union {None, Verdict}
         /\ r.todo \in SUBSET Labels /\ r.steps \in {<<>>, Last1, Last2, Supersede, OldManifest}
         /\ r.outcome \in Outcomes
         /\ Whole(r)
<1>1. proc[p] \in Processes
  BY DEF IInv, Typed
<1> QED BY <1>1 DEF IInv, Typed, Processes, Whole

\* Fields of the right types make a process.
LEMMA MakesProcess ==
  ASSUME NEW r, Whole(r), r.pc \in Points, r.call \in Calls,
         r.stored \in Plans \union {None}, r.certificate \in Certificates \union {None},
         r.kept \in SUBSET (Labels \X Plans), r.result \in Plans \union {None, Verdict},
         r.search \in Plans \union {None, Verdict},
         r.todo \in SUBSET Labels, r.steps \in {<<>>, Last1, Last2, Supersede, OldManifest},
         r.outcome \in Outcomes
  PROVE  r \in Processes
BY DEF Whole, Processes

\* A step of one process keeps what holds of the others: they are idle when
\* one process uses the entry, and the selection, once there, stays.
LEMMA OneMoves ==
  ASSUME IInv, NEW p \in Procs, setup' = setup,
         files' \in Files, left' \in [Procs -> Nat], \A q \in Procs : left'[q] <= left[q],
         proc'[p] \in Processes, proc' = [proc EXCEPT ![p] = proc'[p]],
         p \in setup.procs,
         files.selection # None => files'.selection # None,
         Local(p)',
         (OneUser(setup) => FilesAgree)', (OneAnswer(setup) => AnswerFiles)'
  PROVE  IInv'
<1>0. proc \in [Procs -> Processes] /\ \A q \in Procs : q # p => proc'[q] = proc[q]
  BY DEF IInv, Typed
<1>1. Typed'
  BY <1>0 DEF IInv, Typed
<1>2. ASSUME NEW q \in Procs, q # p PROVE Local(q)'
  <2>1. proc'[q] = proc[q] /\ left'[q] <= left[q] /\ Local(q) /\ left[q] \in Nat /\ left'[q] \in Nat
    BY <1>0, <1>2 DEF IInv, Typed
  <2>2. Control(q)'
    BY <2>1 DEF Local, Control, ReadsAlternatives, Answering, Answered, At
  <2>3. NoWorse(q)'
    BY <2>1 DEF Local, NoWorse, Answering, Answered, At
  <2>4. Handed(q) => Handed(q)'
    BY <2>1 DEF Handed, Certified, Answered, At
  <2>5. OneUser(setup) => proc[q].pc = "idle"
    BY <1>2, <2>1 DEF OneUser, Local, Control
  <2>6. OneUser(setup) => UserHolds(q)'
    BY <2>1, <2>5 DEF UserHolds, UserFiled, Lookup, Beside, Filing
  <2>7. Steady(setup) => Improves(q)'
    BY <2>1, <2>5 DEF Steady, Improves
  <2>8. AnswerHolds(q) => AnswerHolds(q)'
    BY <2>1 DEF AnswerHolds
  <2>9. Single(setup) => HoldsAlternatives(q)'
    <3>1. CASE OneUser(setup)
      <4>1. proc[q] = Fresh
        BY <2>1, <2>5, <3>1 DEF Local, Control
      <4> QED BY <2>1, <4>1 DEF HoldsAlternatives, Fresh, NoCall
    <3>2. CASE OneAnswer(setup) /\ ~OneUser(setup)
      <4>1. ReadSoFar(q) => ReadSoFar(q)'
        BY <2>1, <3>2 DEF ReadSoFar
      <4> QED BY <2>1, <3>2, <4>1 DEF Local, Single, HoldsAlternatives, Answering, Answered, At
    <3> QED BY <3>1, <3>2 DEF Single
  <2> QED BY <2>1, <2>2, <2>3, <2>4, <2>6, <2>7, <2>8, <2>9 DEF Local
<1> QED BY <1>1, <1>2 DEF IInv

\* The same for a step that only reads.
LEMMA ReaderMoves ==
  ASSUME IInv, NEW p \in Procs, Reads, proc[p].pc # "idle",
         proc' = [proc EXCEPT ![p] = proc'[p]], proc'[p] \in Processes, Local(p)'
  PROVE  IInv'
<1>1. setup' = setup /\ files' = files /\ left' = left
  BY DEF Reads
<1>2. /\ p \in setup.procs
      /\ \A q \in Procs : left[q] <= left[q]
      /\ files \in Files /\ left \in [Procs -> Nat]
  BY DEF IInv, Typed, Local, Control
<1>3. (OneUser(setup) => FilesAgree)' /\ (OneAnswer(setup) => AnswerFiles)'
  BY <1>1 DEF IInv, FilesAgree, OneSearch, AnswerFiles, Stands
<1> QED BY <1>1, <1>2, <1>3, OneMoves

-----------------------------------------------------------------------------
(* One lemma per step of a process. *)

\* Returning, or being killed, leaves nothing in hand.
LEMMA FreshStep ==
  ASSUME IInv, NEW p \in Procs, Return(p) \/ Crash(p)
  PROVE  IInv'
<1>1. Typed /\ Local(p) /\ proc \in [Procs -> Processes] /\ Reads /\ proc[p].pc # "idle"
  BY InHand DEF Return, Crash, At, Typed
<1>2. proc' = [proc EXCEPT ![p] = proc'[p]] /\ proc'[p] = Fresh
  BY <1>1 DEF Return, Crash
<1>3. Fresh \in Processes
  BY DEF Fresh, Processes, NoCall, Calls, Modes, Points, Outcomes
<1>4. /\ proc'[p].pc = "idle" /\ proc'[p].call = NoCall /\ proc'[p].stored = None
      /\ proc'[p].certificate = None /\ proc'[p].result = None /\ proc'[p].outcome = None
      /\ proc'[p].search = None
      /\ left' = left /\ setup' = setup /\ NoCall.keep = FALSE
  BY <1>1, <1>2 DEF Fresh, NoCall, Reads
<1>5. ~Answering(p)' /\ ~Answered(p)'
  BY <1>4 DEF Answering, Answered, At, Late, Beside, Filing
<1>6. Control(p)'
  BY <1>1, <1>2, <1>4, <1>5 DEF Local, Control, ReadsAlternatives, Lookup, Late, Beside, Filing
<1>7. NoWorse(p)' /\ Handed(p)' /\ Improves(p)' /\ UserHolds(p)'
  BY <1>4, <1>5 DEF NoWorse, Handed, Improves, UserHolds, UserFiled, Lookup, Beside, Filing
<1>8. AnswerHolds(p)' /\ HoldsAlternatives(p)'
  BY <1>4, <1>5, NoneAssumption DEF AnswerHolds, HoldsAlternatives
<1>9. Local(p)'
  BY <1>6, <1>7, <1>8 DEF Local
<1> QED BY <1>1, <1>2, <1>3, <1>9, ReaderMoves

\* A call that ends without a plan asks for nothing more of the entry.
LEMMA EndsStep ==
  ASSUME IInv, NEW p \in Procs, Reads, proc[p].pc # "idle",
         NEW outcome \in {"none", "refused", "vanished", "missing", "infeasible", "differs",
                        "inconsistent"},
         Ends(p, outcome)
  PROVE  IInv'
<1> DEFINE r == proc[p]
           s == proc'[p]
<1>1. /\ s.pc = "ended" /\ s.outcome = outcome /\ s.call = r.call /\ s.stored = r.stored
      /\ s.certificate = r.certificate /\ s.kept = r.kept /\ s.result = r.result
      /\ s.todo = r.todo /\ s.steps = r.steps
      /\ s.search = r.search /\ Whole(s)
      /\ proc' = [proc EXCEPT ![p] = s]
  <2>1. Typed /\ Goes(p, [pc |-> "ended", outcome |-> outcome])
    BY InHand DEF Ends
  <2> QED BY <2>1, GoesFields
<1>2. s \in Processes
  BY <1>1, InHand, MakesProcess DEF Points, Late, Beside, Filing, Lookup, Outcomes
<1>3. ~Answering(p)' /\ ~Answered(p)' /\ setup' = setup /\ files' = files /\ left' = left
  BY <1>1 DEF Answering, Answered, At, Late, Beside, Filing, Reads
<1>4. Control(p)'
  BY <1>1, <1>3, InHand DEF Local, Control, ReadsAlternatives, Lookup, Late, Beside, Filing
<1>5. /\ NoWorse(p)' /\ Handed(p)' /\ UserHolds(p)' /\ HoldsAlternatives(p)'
      /\ (Steady(setup) => Improves(p))'
  BY <1>1, <1>3 DEF NoWorse, Handed, Improves, UserHolds, UserFiled, HoldsAlternatives, Lookup, Beside, Filing
<1>6. (OneAnswer(setup) => AnswerHolds(p))'
  BY <1>1, <1>3, InHand DEF Local, AnswerHolds
<1>7. Local(p)'
  BY <1>4, <1>5, <1>6 DEF Local
<1> QED BY <1>1, <1>2, <1>7, ReaderMoves

\* A miss: a plan is searched for, or there is nothing to summarise.
LEMMA MissesStep ==
  ASSUME IInv, NEW p \in Procs, Reads, Misses(p),
         proc[p].pc \in {"selection", "manifest", "resolutions"},
         proc[p].call.op = "plan" =>
           proc[p].call.keep \/ Replaceable(files.selection)
  PROVE  IInv'
<1> DEFINE r == proc[p]
           s == proc'[p]
<1>1. CASE r.call.op # "plan"
  BY <1>1, EndsStep DEF Misses
<1>2. CASE r.call.op = "plan"
  <2>1. /\ s.pc = "resolve" /\ s.stored = None /\ s.kept = {} /\ s.todo = {} /\ s.call = r.call
        /\ s.certificate = r.certificate /\ s.result = r.result /\ s.steps = r.steps
        /\ s.outcome = r.outcome
        /\ s.search = r.search /\ Whole(s)
        /\ proc' = [proc EXCEPT ![p] = s]
    <3>1. Typed /\ Goes(p, [pc |-> "resolve", stored |-> None, kept |-> {}, todo |-> {}])
      BY <1>2, InHand DEF Misses
    <3> QED BY <3>1, GoesFields
  <2>2. s \in Processes
    BY <2>1, InHand, MakesProcess DEF Points, Late, Beside, Filing, Lookup, Outcomes
  <2>3. ~Answering(p)' /\ ~Answered(p)' /\ setup' = setup /\ files' = files /\ left' = left
    BY <2>1 DEF Answering, Answered, At, Late, Beside, Filing, Reads
  <2>4. Control(p)'
    BY <1>2, <2>1, <2>3, InHand DEF Local, Control, ReadsAlternatives, Lookup, Late, Beside, Filing
  <2>5. NoWorse(p)' /\ Handed(p)' /\ HoldsAlternatives(p)'
    BY <2>1, <2>3 DEF NoWorse, Handed, HoldsAlternatives
  <2>6. Improves(p)'
    BY <1>2, <2>1, <2>3 DEF Improves, Replaceable
  <2>7. UserHolds(p)'
    <3>1. s.certificate = None
      BY <2>1, InHand DEF Local, Control, Lookup
    <3> QED BY <2>1, <3>1 DEF UserHolds, UserFiled, Lookup, Beside, Filing
  <2>8. (OneAnswer(setup) => AnswerHolds(p))'
    BY <2>1, <2>3, InHand DEF Local, AnswerHolds
  <2>9. Local(p)'
    BY <2>4, <2>5, <2>6, <2>7, <2>8 DEF Local
  <2> QED BY <2>1, <2>2, <2>9, ReaderMoves
<1> QED BY <1>1, <1>2

\* The summary answers, or the record is read.
LEMMA ReadSummaryStep ==
  ASSUME IInv, NEW p \in Procs, ReadSummary(p)
  PROVE  IInv'
<1> DEFINE r == proc[p]
           s == proc'[p]
<1>1. r.pc = "summary" /\ Reads /\ files.summary \in Plans \union {None}
  BY InHand DEF ReadSummary, At, Files
<1>2. CASE files.summary # None
  <2>1. /\ s.pc = "ended" /\ s.result = files.summary /\ s.outcome = "summary"
        /\ s.call = r.call /\ s.stored = r.stored /\ s.certificate = r.certificate
        /\ s.kept = r.kept /\ s.todo = r.todo /\ s.steps = r.steps
        /\ s.search = r.search /\ Whole(s)
        /\ proc' = [proc EXCEPT ![p] = s]
    <3>1. Typed /\ Goes(p, [pc |-> "ended", result |-> files.summary, outcome |-> "summary"])
      BY <1>2, InHand DEF ReadSummary
    <3> QED BY <3>1, GoesFields
  <2>2. s \in Processes
    BY <1>1, <2>1, InHand, MakesProcess DEF Points, Late, Beside, Filing, Lookup, Outcomes
  <2>3. OneAnswer(setup) => files.summary \in setup.found
    BY <1>2 DEF IInv, AnswerFiles
  <2>4. Local(p)'
    <3>1. /\ ~Answering(p)' /\ ~Answered(p)'
          /\ setup' = setup /\ files' = files /\ left' = left
      BY <1>1, <2>1 DEF Answering, Answered, At, Late, Beside, Filing, Reads
    <3>2. Control(p)'
      BY <1>1, <2>1, <3>1, InHand DEF Local, Control, ReadsAlternatives, Lookup, Late, Beside, Filing
    <3>3. NoWorse(p)' /\ Handed(p)' /\ Improves(p)' /\ UserHolds(p)' /\ HoldsAlternatives(p)'
      BY <2>1, <3>1 DEF NoWorse, Handed, Improves, UserHolds, UserFiled, HoldsAlternatives, Lookup, Beside, Filing
    <3>4. (OneAnswer(setup) => AnswerHolds(p))'
      BY <2>1, <2>3, <3>1, InHand DEF Local, AnswerHolds
    <3> QED BY <3>2, <3>3, <3>4 DEF Local
  <2> QED BY <1>1, <2>1, <2>2, <2>4, ReaderMoves
<1>3. CASE files.summary = None
  <2>1. /\ s.pc = "selection" /\ s.call = r.call /\ s.stored = r.stored
        /\ s.certificate = r.certificate /\ s.kept = r.kept /\ s.result = r.result
        /\ s.todo = r.todo /\ s.steps = r.steps /\ s.outcome = r.outcome
        /\ s.search = r.search /\ Whole(s)
        /\ proc' = [proc EXCEPT ![p] = s]
    <3>1. Typed /\ Goes(p, [pc |-> "selection"])
      BY <1>3, InHand DEF ReadSummary
    <3> QED BY <3>1, GoesFields
  <2>2. s \in Processes
    BY <2>1, InHand, MakesProcess DEF Points, Late, Beside, Filing, Lookup, Outcomes
  <2>3. Local(p)'
    <3>1. Control(p)'
      BY <1>1, <2>1, InHand
         DEF Local, Control, ReadsAlternatives, Answering, Answered, At, Reads, Lookup, Late, Beside, Filing
    <3>2. NoWorse(p)'
      BY <1>1, <2>1, InHand
         DEF Local, NoWorse, Handed, Certified, Improves, Answering, Answered, At, Reads, Late, Beside, Filing
    <3>3. (OneUser(setup) => UserHolds(p))'
      BY <1>1, <2>1, InHand DEF Local, UserHolds, UserFiled, Reads, Lookup, Beside, Filing, Stands, Policy
    <3>4. (Steady(setup) => Improves(p))'
      BY <1>1, <2>1, InHand
         DEF Local, NoWorse, Handed, Certified, Improves, Answering, Answered, At, Reads, Late, Beside, Filing
    <3>5. (OneAnswer(setup) => AnswerHolds(p))'
      BY <1>1, <2>1, InHand DEF Local, AnswerHolds, Reads
    <3>6. (Single(setup) => HoldsAlternatives(p))'
      <4>1. Local(p) /\ setup' = setup
        BY InHand, <1>1 DEF Reads
      <4>2. s.pc = "selection" /\ s.kept = r.kept /\ s.call = r.call
        BY <2>1
      <4>3. Single(setup) /\ r.call.op = "plan" /\ r.call.keep => r.kept = {}
        BY <1>1, <4>1 DEF Local, HoldsAlternatives
      <4>4. ~Answering(p)'
        BY <4>2 DEF Answering, Answered, At, Late, Beside, Filing
      <4> QED BY <4>1, <4>2, <4>3, <4>4 DEF HoldsAlternatives
    <3>7. Handed(p)'
      BY <1>1, <2>1, InHand DEF Local, Handed, Certified, Answered, At
    <3> QED BY <3>1, <3>2, <3>3, <3>4, <3>5, <3>6, <3>7 DEF Local
  <2> QED BY <1>1, <2>1, <2>2, <2>3, ReaderMoves
<1> QED BY <1>2, <1>3

\* A plan read back, a miss, or the cached refusal.
LEMMA ReadSelectionStep ==
  ASSUME IInv, NEW p \in Procs, ReadSelection(p)
  PROVE  IInv'
<1> DEFINE r == proc[p]
           s == proc'[p]
           next == IF r.call.op = "plan" /\ r.call.keep THEN "manifest" ELSE "exists"
<1>1. r.pc = "selection" /\ Reads /\ files.selection \in Selections \union {None}
  BY InHand DEF ReadSelection, At, Files
<1>2. CASE files.selection = None
  BY <1>1, <1>2, MissesStep DEF ReadSelection, Replaceable
<1>3. CASE files.selection # None /\ files.selection.plan = Verdict
  <2>1. Misses(p) \/ Ends(p, "refused")
    BY <1>3 DEF ReadSelection
  <2> QED BY <1>1, <1>3, <2>1, MissesStep, EndsStep DEF Replaceable
<1>5. CASE /\ files.selection # None /\ files.selection.plan # Verdict
           /\ ~Consistent(files.selection)
  BY <1>1, <1>5, EndsStep DEF ReadSelection
<1>4. CASE /\ files.selection # None /\ files.selection.plan # Verdict
           /\ Consistent(files.selection)
  <2>1. /\ s.pc = next /\ s.stored = files.selection.plan /\ s.call = r.call
        /\ s.certificate = r.certificate /\ s.kept = r.kept /\ s.result = r.result
        /\ s.todo = r.todo /\ s.steps = r.steps /\ s.outcome = r.outcome
        /\ s.search = r.search /\ Whole(s)
        /\ proc' = [proc EXCEPT ![p] = s]
    <3>1. Typed /\ Goes(p, [stored |-> files.selection.plan, pc |-> next])
      BY <1>4, InHand DEF ReadSelection
    <3> QED BY <3>1, GoesFields
  <2>2. files.selection.plan \in Plans /\ files.selection.plan # None
    BY <1>1, <1>4, NoneAssumption DEF Selections
  <2>3. OneAnswer(setup) => files.selection.plan \in setup.found
    BY <1>4 DEF IInv, AnswerFiles
  <2>4. s \in Processes
    BY <2>1, <2>2, InHand, MakesProcess DEF Points, Late, Beside, Filing, Lookup, Outcomes
  <2>5. Control(p)'
    BY <1>1, <2>1, <2>2, InHand
       DEF Local, Control, ReadsAlternatives, Answering, Answered, At, Reads, Lookup, Late, Beside, Filing
  <2>6. NoWorse(p)' /\ Handed(p)' /\ Improves(p)'
    BY <2>1
       DEF Local, NoWorse, Handed, Certified, Improves, Answering, Answered, At, Reads, Late, Beside, Filing
  <2>7. UserHolds(p)'
    BY <1>1, <1>4, <2>1 DEF Local, UserHolds, UserFiled, Reads, Lookup, Beside, Filing, Stands, Policy
  <2>8. (OneAnswer(setup) => AnswerHolds(p))'
    BY <1>1, <1>4, <2>1, <2>3, InHand DEF Local, AnswerHolds, Reads
  <2>9. (Single(setup) => HoldsAlternatives(p))'
    <3>1. Local(p) /\ setup' = setup
      BY <1>1, InHand DEF Reads
    <3>2. CASE r.call.op = "plan" /\ r.call.keep
      <4>1. s.pc = "manifest" /\ s.kept = r.kept
        BY <2>1, <3>2
      <4>2. Single(setup) => r.kept = {}
        BY <1>1, <3>1, <3>2 DEF Local, HoldsAlternatives
      <4> QED BY <3>1, <4>1, <4>2 DEF HoldsAlternatives, Answering, Answered, At, Late, Beside, Filing
    <3>3. CASE ~(r.call.op = "plan" /\ r.call.keep)
      BY <2>1, <3>3 DEF HoldsAlternatives
    <3> QED BY <3>2, <3>3
  <2>10. Local(p)'
    BY <2>5, <2>6, <2>7, <2>8, <2>9 DEF Local
  <2> QED BY <1>1, <2>1, <2>4, <2>10, ReaderMoves
<1> QED BY <1>2, <1>3, <1>4, <1>5

\* The manifest names every label, or there is none.
LEMMA ReadManifestStep ==
  ASSUME IInv, NEW p \in Procs, ReadManifest(p)
  PROVE  IInv'
<1> DEFINE r == proc[p]
           s == proc'[p]
           next == IF Labels = {} THEN "exists" ELSE "resolutions"
<1>1. r.pc = "manifest" /\ Reads /\ files.manifest \in {None, Labels}
  BY InHand DEF ReadManifest, At, Files
<1>2. CASE files.manifest = None
  <2>1. ReadManifest(p) => Misses(p)
    BY <1>2 DEF ReadManifest
  <2>2. r.call.op = "plan" => r.call.keep
    BY <1>1, InHand DEF Local, Control, ReadsAlternatives
  <2> QED BY <1>1, <2>1, <2>2, MissesStep
<1>3. CASE files.manifest # None
  <2>1. /\ s.pc = next /\ s.todo = Labels /\ s.call = r.call /\ s.stored = r.stored
        /\ s.certificate = r.certificate /\ s.kept = r.kept /\ s.result = r.result
        /\ s.steps = r.steps /\ s.outcome = r.outcome
        /\ s.search = r.search /\ Whole(s)
        /\ proc' = [proc EXCEPT ![p] = s]
    <3>1. Typed /\ Goes(p, [todo |-> Labels, pc |-> next])
      BY <1>1, <1>3, InHand DEF ReadManifest
    <3> QED BY <3>1, GoesFields
  <2>2. s \in Processes
    BY <2>1, InHand, MakesProcess DEF Points, Late, Beside, Filing, Lookup, Outcomes
  <2>3. Control(p)'
    BY <1>1, <2>1, InHand
       DEF Local, Control, ReadsAlternatives, Answering, Answered, At, Reads, Lookup, Late, Beside, Filing
  <2>4. NoWorse(p)' /\ Handed(p)' /\ Improves(p)'
    BY <2>1
       DEF Local, NoWorse, Handed, Certified, Improves, Answering, Answered, At, Reads, Late, Beside, Filing
  <2>5. (OneUser(setup) => UserHolds(p))'
    BY <1>1, <2>1, InHand DEF Local, UserHolds, UserFiled, Reads, Lookup, Beside, Filing, Stands, Policy
  <2>6. (OneAnswer(setup) => AnswerHolds(p))'
    BY <1>1, <2>1, InHand DEF Local, AnswerHolds, Reads
  <2>7. (Single(setup) => HoldsAlternatives(p))'
    <3>1. Local(p) /\ setup' = setup
      BY <1>1, InHand DEF Reads
    <3>2. Single(setup) /\ r.call.op = "plan" /\ r.call.keep => r.kept = {}
      BY <1>1, <3>1 DEF Local, HoldsAlternatives
    <3>3. \A found : /\ Alternatives(found, Labels \ Labels) = {}
                     /\ Labels = {} => Alternatives(found, Labels) = {}
      BY DEF Alternatives
    <3>4. ~Answering(p)'
      BY <2>1 DEF Answering, Answered, At, Late, Beside, Filing
    <3>5. ASSUME Single(setup)
          PROVE  \E found \in Plans :
                   /\ OneUser(setup) => \A l \in Labels : files.resolutions[l] \in {None, found}
                   /\ OneAnswer(setup) => found \in setup.found
      <4>1. CASE OneUser(setup) /\ ~OneAnswer(setup)
        BY <1>3, <4>1 DEF IInv, FilesAgree, OneSearch
      <4>2. CASE OneAnswer(setup)
        <5>1. r.stored \in Plans /\ r.stored \in setup.found
          BY <1>1, <3>1, <4>2, NoneAssumption DEF Local, Control, AnswerHolds, Lookup
        <5>2. \A l \in Labels : files.resolutions[l] \in {None, r.stored}
          BY <4>2, <5>1 DEF IInv, AnswerFiles, OneAnswer
        <5> QED BY <5>1, <5>2
      <4> QED BY <3>5, <4>1, <4>2 DEF Single
    <3>6. Single(setup) /\ r.call.op = "plan" /\ r.call.keep =>
            IF Labels = {} THEN Complete(s.kept) ELSE ReadSoFar(p)'
      BY <1>1, <2>1, <3>1, <3>2, <3>3, <3>5 DEF Complete, ReadSoFar, Reads
    <3> QED BY <2>1, <3>1, <3>4, <3>6 DEF HoldsAlternatives
  <2>8. Local(p)'
    BY <2>3, <2>4, <2>5, <2>6, <2>7 DEF Local
  <2> QED BY <1>1, <2>1, <2>2, <2>8, ReaderMoves
<1> QED BY <1>2, <1>3

\* One retained alternative more, or a miss.
LEMMA ReadResolutionStep ==
  ASSUME IInv, NEW p \in Procs, ReadResolution(p)
  PROVE  IInv'
<1> DEFINE r == proc[p]
           s == proc'[p]
<1>1. r.pc = "resolutions" /\ Reads /\ Local(p) /\ files \in Files
  BY InHand DEF ReadResolution, At
<1>2. PICK l \in r.todo :
        IF files.resolutions[l] = None
        THEN Misses(p)
        ELSE Goes(p, [kept |-> r.kept \union {<<l, files.resolutions[l]>>},
                      todo |-> r.todo \ {l},
                      pc |-> IF r.todo = {l} THEN "exists" ELSE "resolutions"])
  BY DEF ReadResolution
<1>3. l \in Labels /\ files.resolutions[l] \in Plans \union {None}
  BY <1>1, InHand DEF Files
<1>4. CASE files.resolutions[l] = None
  <2>1. r.call.op = "plan" => r.call.keep
    BY <1>1 DEF Local, Control, ReadsAlternatives
  <2> QED BY <1>1, <1>2, <1>4, <2>1, MissesStep
<1>5. CASE files.resolutions[l] # None
  <2> DEFINE plan == files.resolutions[l]
             next == IF r.todo = {l} THEN "exists" ELSE "resolutions"
  <2>1. /\ s.pc = next /\ s.kept = r.kept \union {<<l, plan>>} /\ s.todo = r.todo \ {l}
        /\ s.call = r.call /\ s.stored = r.stored /\ s.certificate = r.certificate
        /\ s.result = r.result /\ s.steps = r.steps /\ s.outcome = r.outcome
        /\ s.search = r.search /\ Whole(s)
        /\ proc' = [proc EXCEPT ![p] = s]
    <3>1. Typed /\ Goes(p, [kept |-> r.kept \union {<<l, plan>>}, todo |-> r.todo \ {l},
                            pc |-> next])
      BY <1>2, <1>5, InHand
    <3> HIDE DEF plan
    <3> QED BY <3>1, GoesFields
  <2>2. plan \in Plans /\ r.kept \union {<<l, plan>>} \in SUBSET (Labels \X Plans)
    BY <1>3, <1>5, InHand
  <2>3. OneAnswer(setup) => plan \in setup.found
    BY <1>3, <1>5 DEF IInv, AnswerFiles
  <2> HIDE DEF plan
  <2>4. s \in Processes
    BY <2>1, <2>2, InHand, MakesProcess DEF Points, Late, Beside, Filing, Lookup, Outcomes
  <2>5. Control(p)'
    BY <1>1, <2>1, InHand
       DEF Local, Control, ReadsAlternatives, Answering, Answered, At, Reads, Lookup, Late, Beside, Filing
  <2>6. NoWorse(p)' /\ Handed(p)' /\ Improves(p)'
    BY <2>1
       DEF Local, NoWorse, Handed, Certified, Improves, Answering, Answered, At, Reads, Late, Beside, Filing
  <2>7. (OneUser(setup) => UserHolds(p))'
    BY <1>1, <2>1, InHand DEF Local, UserHolds, UserFiled, Reads, Lookup, Beside, Filing, Stands, Policy
  <2>8. (OneAnswer(setup) => AnswerHolds(p))'
    BY <1>1, <2>1, InHand DEF Local, AnswerHolds, Reads
  <2>9. (Single(setup) => HoldsAlternatives(p))'
    <3>1. setup' = setup
      BY <1>1 DEF Reads
    <3>2. ~Answering(p)'
      BY <2>1 DEF Answering, Answered, At, Late, Beside, Filing
    <3>3. ASSUME Single(setup), r.call.op = "plan", r.call.keep
          PROVE  IF r.todo = {l} THEN Complete(s.kept) ELSE ReadSoFar(p)'
      <4>1. PICK found \in Plans :
              /\ r.kept = Alternatives(found, Labels \ r.todo)
              /\ OneUser(setup) => \A m \in Labels : files.resolutions[m] \in {None, found}
              /\ OneAnswer(setup) => found \in setup.found
        BY <1>1, <3>3 DEF Local, HoldsAlternatives, ReadSoFar
      <4>2. plan = found
        <5>1. OneUser(setup) => plan \in {None, found}
          BY <1>3, <4>1 DEF plan
        <5>2. plan # None
          BY <1>5 DEF plan
        <5> QED BY <2>3, <3>3, <4>1, <5>1, <5>2 DEF Single, OneAnswer
      <4>3. s.kept = Alternatives(found, Labels \ s.todo)
        <5>1. Alternatives(found, Labels \ r.todo) \union {<<l, found>>}
                = Alternatives(found, Labels \ (r.todo \ {l}))
          BY <1>2, <1>3 DEF Alternatives
        <5> QED BY <2>1, <4>1, <4>2, <5>1
      <4>4. r.todo = {l} => Labels \ s.todo = Labels
        BY <2>1
      <4>5. r.todo = {l} => Complete(s.kept)
        BY <4>1, <4>3, <4>4 DEF Complete
      <4>6. ReadSoFar(p)'
        BY <1>1, <3>1, <4>1, <4>3 DEF ReadSoFar, Reads
      <4> QED BY <4>5, <4>6
    <3> QED BY <2>1, <3>1, <3>2, <3>3 DEF HoldsAlternatives
  <2>10. Local(p)'
    BY <2>5, <2>6, <2>7, <2>8, <2>9 DEF Local
  <2> QED BY <1>1, <2>1, <2>4, <2>10, ReaderMoves
<1> QED BY <1>4, <1>5

\* The record is read: a plan is resolved with it, a summary is finished.
LEMMA LookedStep ==
  ASSUME IInv, NEW p \in Procs, Reads, proc[p].pc \in {"exists", "certificate"},
         NEW certificate \in {None, files.certificate}, Looked(p, certificate)
  PROVE  IInv'
<1> DEFINE r == proc[p]
           s == proc'[p]
<1>1. /\ Local(p) /\ Typed /\ certificate \in Certificates \union {None}
      /\ r.stored \in Plans /\ r.stored # None /\ r.certificate = None
      /\ setup' = setup /\ files' = files /\ left' = left
      /\ r.pc # "idle"
  BY InHand, NoneAssumption DEF Files, Local, Control, Lookup, Reads
<1>2. /\ OneUser(setup) => Stands(r.stored)
      /\ OneUser(setup) /\ certificate # None => certificate.plan = r.stored
      /\ OneAnswer(setup) => r.stored \in setup.found /\ files.selection # None
      /\ OneAnswer(setup) /\ certificate # None => certificate.plan \in setup.found
  BY <1>1 DEF IInv, Local, UserHolds, UserFiled, AnswerHolds, Lookup, FilesAgree, OneSearch, AnswerFiles, Stands
<1>3. Single(setup) /\ r.call.op = "plan" /\ r.call.keep => Complete(r.kept)
  BY <1>1 DEF Local, HoldsAlternatives
<1>4. CASE r.call.op = "plan"
  <2>1. /\ s.pc = "resolve" /\ s.certificate = certificate /\ s.call = r.call
        /\ s.stored = r.stored /\ s.kept = r.kept /\ s.result = r.result /\ s.todo = r.todo
        /\ s.steps = r.steps /\ s.outcome = r.outcome
        /\ s.search = r.search /\ Whole(s)
        /\ proc' = [proc EXCEPT ![p] = s]
    <3>1. Goes(p, [pc |-> "resolve", certificate |-> certificate])
      BY <1>4 DEF Looked
    <3> QED BY <1>1, <3>1, GoesFields
  <2>2. s \in Processes
    BY <1>1, <2>1, InHand, MakesProcess DEF Points, Late, Beside, Filing, Lookup, Outcomes
  <2>3. Control(p)'
    BY <1>1, <1>4, <2>1
       DEF Local, Control, ReadsAlternatives, Answering, Answered, At, Reads, Lookup, Late, Beside, Filing
  <2>4. NoWorse(p)' /\ Handed(p)' /\ Improves(p)'
    BY <1>1, <2>1
       DEF Local, NoWorse, Handed, Certified, Improves, Answering, Answered, At, Reads, Late, Beside, Filing
  <2>5. (OneUser(setup) => UserHolds(p))'
    BY <1>1, <1>2, <2>1 DEF Local, UserHolds, UserFiled, Reads, Lookup, Beside, Filing, Stands, Policy
  <2>6. (OneAnswer(setup) => AnswerHolds(p))'
    BY <1>1, <1>2, <2>1 DEF Local, AnswerHolds, Reads
  <2>7. (Single(setup) => HoldsAlternatives(p))'
    BY <1>1, <1>3, <2>1 DEF HoldsAlternatives, Answering, Answered, At, Late, Beside, Filing
  <2>8. Local(p)'
    BY <2>3, <2>4, <2>5, <2>6, <2>7 DEF Local
  <2> QED BY <1>1, <2>1, <2>2, <2>8, ReaderMoves
<1>5. CASE r.call.op # "plan"
  <2>1. r.call.op = "summary"
    BY <1>5, InHand DEF Calls
  <2>2. CASE certificate = None
    BY <1>1, <2>1, <2>2, EndsStep DEF Looked
  <2>3. CASE certificate # None
    <3>1. /\ s.pc = "summarise" /\ s.result = r.stored /\ s.call = r.call
          /\ s.stored = r.stored /\ s.certificate = r.certificate /\ s.kept = r.kept
          /\ s.todo = r.todo /\ s.steps = r.steps /\ s.outcome = r.outcome
          /\ s.search = r.search /\ Whole(s)
          /\ proc' = [proc EXCEPT ![p] = s]
      <4>1. Goes(p, [pc |-> "summarise", result |-> r.stored])
        BY <2>1, <2>3 DEF Looked
      <4> QED BY <1>1, <4>1, GoesFields
    <3>2. s \in Processes
      BY <1>1, <3>1, InHand, MakesProcess DEF Points, Late, Beside, Filing, Lookup, Outcomes
    <3>3. Control(p)'
      BY <1>1, <1>5, <3>1
         DEF Local, Control, ReadsAlternatives, Answering, Answered, At, Reads, Lookup, Late, Beside, Filing
    <3>4. NoWorse(p)' /\ Handed(p)' /\ Improves(p)'
      BY <1>1, <1>5, <3>1
         DEF Local, NoWorse, Handed, Certified, Improves, Answering, Answered, At, Reads, Late, Beside, Filing
    <3>5. (OneUser(setup) => UserHolds(p))'
      BY <1>1, <1>2, <3>1 DEF Local, UserHolds, UserFiled, Reads, Lookup, Beside, Filing, Stands, Policy
    <3>6. (OneAnswer(setup) => AnswerHolds(p))'
      BY <1>1, <1>2, <3>1 DEF Local, AnswerHolds, Reads
    <3>7. HoldsAlternatives(p)'
      BY <1>5, <3>1 DEF HoldsAlternatives
    <3>8. Local(p)'
      BY <3>3, <3>4, <3>5, <3>6, <3>7 DEF Local
    <3> QED BY <1>1, <3>1, <3>2, <3>8, ReaderMoves
  <2> QED BY <2>2, <2>3
<1> QED BY <1>4, <1>5

\* Looking for the certificate, and reading it.
LEMMA CertificateSteps ==
  ASSUME IInv, NEW p \in Procs, CertificateExists(p) \/ ReadCertificate(p)
  PROVE  IInv'
<1> DEFINE r == proc[p]
           s == proc'[p]
<1>1. Reads /\ r.pc \in {"exists", "certificate"}
  BY DEF CertificateExists, ReadCertificate, At
<1>2. CASE Looked(p, None) \/ Looked(p, files.certificate)
  BY <1>1, <1>2, LookedStep
<1>3. CASE Ends(p, "vanished")
  BY <1>1, <1>3, EndsStep
<1>4. CASE r.pc = "exists" /\ Goes(p, [pc |-> "certificate"])
  <2>1. /\ s.pc = "certificate" /\ s.call = r.call /\ s.stored = r.stored
        /\ s.certificate = r.certificate /\ s.kept = r.kept /\ s.result = r.result
        /\ s.todo = r.todo /\ s.steps = r.steps /\ s.outcome = r.outcome
        /\ s.search = r.search /\ Whole(s)
        /\ proc' = [proc EXCEPT ![p] = s]
    BY <1>4, InHand, GoesFields
  <2>2. s \in Processes
    BY <2>1, InHand, MakesProcess DEF Points, Late, Beside, Filing, Lookup, Outcomes
  <2>3. Control(p)'
    BY <1>1, <1>4, <2>1, InHand
       DEF Local, Control, ReadsAlternatives, Answering, Answered, At, Reads, Lookup, Late, Beside, Filing
  <2>4. NoWorse(p)' /\ Handed(p)' /\ Improves(p)'
    BY <2>1
       DEF Local, NoWorse, Handed, Certified, Improves, Answering, Answered, At, Reads, Late, Beside, Filing
  <2>5. (OneUser(setup) => UserHolds(p))'
    BY <1>1, <1>4, <2>1, InHand DEF Local, UserHolds, UserFiled, Reads, Lookup, Beside, Filing, Stands, Policy
  <2>6. (OneAnswer(setup) => AnswerHolds(p))'
    BY <1>1, <1>4, <2>1, InHand DEF Local, AnswerHolds, Reads
  <2>7. (Single(setup) => HoldsAlternatives(p))'
    <3>1. Local(p) /\ setup' = setup
      BY <1>1, InHand DEF Reads
    <3>2. Single(setup) /\ r.call.op = "plan" /\ r.call.keep => Complete(r.kept)
      BY <1>4, <3>1 DEF Local, HoldsAlternatives
    <3> QED BY <2>1, <3>1, <3>2 DEF HoldsAlternatives, Answering, Answered, At, Late, Beside, Filing
  <2>8. Local(p)'
    BY <2>3, <2>4, <2>5, <2>6, <2>7 DEF Local
  <2> QED BY <1>1, <2>1, <2>2, <2>8, ReaderMoves
<1> QED BY <1>2, <1>3, <1>4 DEF CertificateExists, ReadCertificate, At

\* A process begins a call with nothing in hand.
LEMMA CallStep ==
  ASSUME IInv, NEW p \in Procs, Call(p)
  PROVE  IInv'
<1> DEFINE r == proc[p]
           s == proc'[p]
<1>1. /\ Typed /\ Local(p) /\ files \in Files
      /\ r = Fresh /\ left[p] > 0 /\ p \in setup.procs
      /\ left \in [Procs -> Nat] /\ left' = [left EXCEPT ![p] = @ - 1]
      /\ setup' = setup /\ files' = files
  BY InHand DEF Call, At, Local, Control, Typed
<1>2. PICK c \in setup.calls :
        Goes(p, [call |-> c,
                 pc |-> CASE for_mode(c.mode).read /\ c.op = "summary" -> "summary"
                          [] for_mode(c.mode).read /\ c.op = "plan" -> "selection"
                          [] ~for_mode(c.mode).read /\ c.op = "plan" -> "resolve"
                          [] OTHER -> "ended"])
  BY DEF Call
<1>3. PICK pc : pc = CASE for_mode(c.mode).read /\ c.op = "summary" -> "summary"
                       [] for_mode(c.mode).read /\ c.op = "plan" -> "selection"
                       [] ~for_mode(c.mode).read /\ c.op = "plan" -> "resolve"
                       [] OTHER -> "ended"
  OBVIOUS
<1>4. /\ pc \in {"summary", "selection", "resolve", "ended"}
      /\ pc = "resolve" => c.op = "plan" /\ c.mode = "refresh"
      /\ c \in Calls
  BY <1>1, <1>3, SetupShape DEF for_mode
<1>5. /\ s.pc = pc /\ s.call = c /\ s.stored = r.stored /\ s.certificate = r.certificate
      /\ s.kept = r.kept /\ s.result = r.result /\ s.todo = r.todo /\ s.steps = r.steps
      /\ s.outcome = r.outcome
      /\ s.search = r.search /\ Whole(s)
      /\ proc' = [proc EXCEPT ![p] = s]
  <2>1. Goes(p, [call |-> c, pc |-> pc])
    BY <1>2, <1>3
  <2> QED BY <1>1, <2>1, GoesFields
<1>6. /\ s.stored = None /\ s.certificate = None /\ s.kept = {} /\ s.result = None
      /\ s.search = None /\ s.todo = {} /\ s.steps = <<>> /\ s.outcome = None
  BY <1>1, <1>5 DEF Fresh
<1>7. s \in Processes
  BY <1>4, <1>5, InHand, MakesProcess DEF Points, Late, Beside, Filing, Lookup, Outcomes
<1>8. ~Answering(p)' /\ ~Answered(p)'
  BY <1>4, <1>5, <1>6, NoneAssumption DEF Answering, Answered, At, Late, Beside, Filing
<1>9. Control(p)'
  BY <1>1, <1>4, <1>5, <1>6, <1>8 DEF Control, ReadsAlternatives, Lookup, Late, Beside, Filing
<1>10. NoWorse(p)' /\ Handed(p)'
  BY <1>4, <1>5, <1>8 DEF NoWorse, Handed
<1>11. UserHolds(p)' /\ Improves(p)'
  BY <1>4, <1>5, <1>6, NoneAssumption DEF UserHolds, UserFiled, Improves, Lookup, Beside, Filing
<1>12. AnswerHolds(p)' /\ HoldsAlternatives(p)'
  BY <1>4, <1>5, <1>6, <1>8, NoneAssumption DEF AnswerHolds, HoldsAlternatives
<1>13. Local(p)'
  BY <1>9, <1>10, <1>11, <1>12 DEF Local
<1>14. left' \in [Procs -> Nat] /\ \A q \in Procs : left'[q] <= left[q]
  BY <1>1
<1>15. (OneUser(setup) => FilesAgree)' /\ (OneAnswer(setup) => AnswerFiles)'
  BY <1>1 DEF IInv, FilesAgree, OneSearch, AnswerFiles, Stands
<1> QED BY <1>1, <1>5, <1>7, <1>13, <1>14, <1>15, OneMoves

\* What a process that resolves a plan knows.
LEMMA Resolving ==
  ASSUME IInv, NEW p \in Procs, proc[p].pc = "resolve"
  PROVE  LET r == proc[p] IN
         /\ Typed /\ r.call.op = "plan" /\ r.call \in Calls /\ r.call \in setup.calls
         /\ OneUser(setup) /\ r.stored # None => Stands(r.stored)
         /\ OneUser(setup) /\ r.certificate # None => r.certificate.plan = r.stored
         /\ Steady(setup) /\ r.stored = None /\ r.call.mode # "refresh" =>
              r.call.keep \/ Replaceable(files.selection)
         /\ OneAnswer(setup) => AnswerHolds(p)
         /\ Single(setup) /\ r.call.keep /\ r.stored # None => Complete(r.kept)
BY InHand DEF Local, Control, UserHolds, UserFiled, Improves, HoldsAlternatives, Late, Beside, Filing

\* The stored plan answers: it is no slower than the plan in hand, or than the
\* makespan that plan carries.
LEMMA StoredStep ==
  ASSUME IInv, NEW p \in Procs, Reads, proc[p].pc = "resolve", proc[p].stored # None,
         Goes(p, [pc |-> "admit", result |-> proc[p].stored]),
         proc[p].call.incumbent \in setup.runs =>
           \/ setup.here[proc[p].stored] <= setup.here[proc[p].call.incumbent]
           \/ setup.here[proc[p].stored] <= setup.elsewhere[proc[p].call.incumbent]
  PROVE  IInv'
<1> DEFINE r == proc[p]
           s == proc'[p]
<1>1. /\ s.pc = "admit" /\ s.result = r.stored /\ s.call = r.call /\ s.stored = r.stored
      /\ s.certificate = r.certificate /\ s.kept = r.kept /\ s.todo = r.todo
      /\ s.steps = r.steps /\ s.outcome = r.outcome
      /\ s.search = r.search /\ Whole(s)
      /\ proc' = [proc EXCEPT ![p] = s]
  BY InHand, GoesFields
<1>2. s \in Processes
  BY <1>1, InHand, MakesProcess DEF Points, Late, Beside, Filing, Lookup, Outcomes
<1>3. /\ r.stored \in Plans /\ r.stored # Verdict
      /\ setup' = setup /\ files' = files /\ left' = left /\ ~Answered(p)'
  BY <1>1, InHand, NoneAssumption DEF Reads, Answered, At
<1>4. Control(p)'
  BY <1>1, <1>3, InHand DEF Local, Control, ReadsAlternatives, Lookup, Late, Beside, Filing
<1>5. NoWorse(p)'
  BY <1>1, <1>3 DEF NoWorse
<1>6. Handed(p)' /\ Improves(p)'
  BY <1>1, <1>3 DEF Handed, Improves
<1>7. (OneUser(setup) => UserHolds(p))'
  BY <1>1, <1>3, Resolving DEF UserHolds, UserFiled, Lookup, Beside, Filing, Stands
<1>8. (OneAnswer(setup) => AnswerHolds(p))'
  BY <1>1, <1>3, Resolving DEF AnswerHolds
<1>9. (Single(setup) => HoldsAlternatives(p))'
  BY <1>1, <1>3, Resolving DEF HoldsAlternatives
<1>10. Local(p)'
  BY <1>4, <1>5, <1>6, <1>7, <1>8, <1>9 DEF Local
<1> QED BY <1>1, <1>2, <1>10, ReaderMoves

\* ServeStored, and a required plan that is not stored.
LEMMA ServeStep ==
  ASSUME IInv, NEW p \in Procs, ServeStored(p) \/ refuse_miss(p)
  PROVE  IInv'
<1>1. CASE ServeStored(p)
  <2>1. /\ Reads /\ proc[p].pc = "resolve" /\ proc[p].stored # None
        /\ Goes(p, [pc |-> "admit", result |-> proc[p].stored])
        /\ proc[p].call.incumbent # None =>
             setup.elsewhere[proc[p].call.incumbent] >= setup.here[proc[p].stored]
    BY <1>1 DEF ServeStored, At, Suffices, Stored
  <2>2. ASSUME proc[p].call.incumbent \in setup.runs
        PROVE  setup.here[proc[p].stored] <= setup.elsewhere[proc[p].call.incumbent]
    <3>1. /\ proc[p].call.incumbent \in Plans /\ proc[p].call.incumbent # None
          /\ proc[p].stored \in Plans
          /\ setup.here[proc[p].stored] \in Nat
          /\ setup.elsewhere[proc[p].call.incumbent] \in Nat
      BY <2>1, <2>2, InHand, SetupShape, NoneAssumption
    <3> QED BY <2>1, <3>1
  <2> QED BY <2>1, <2>2, StoredStep
<1>2. CASE refuse_miss(p)
  BY <1>2, EndsStep DEF refuse_miss, At
<1> QED BY <1>1, <1>2

\* The lists of files still to replace are told apart by their lengths.
LEMMA StepsDiffer ==
  /\ Supersede # <<>> /\ Supersede # Last2 /\ Supersede # Last1
  /\ Last2 # <<>> /\ Last2 # Last1 /\ Last1 # <<>>
  /\ Head(Supersede) = "summary" /\ Tail(Supersede) = Last2
  /\ Head(Last2) = "certificate" /\ Tail(Last2) = Last1
  /\ Head(Last1) = "selection" /\ Tail(Last1) = <<>>
  /\ OldManifest # <<>>
<1>1. /\ Len(Supersede) = 3 /\ Len(Last2) = 2 /\ Len(Last1) = 1 /\ Len(<<>>) = 0
  BY DEF Supersede, Last2, Last1
<1>2. /\ Head(Supersede) = "summary" /\ Tail(Supersede) = Last2
      /\ Head(Last2) = "certificate" /\ Tail(Last2) = Last1
      /\ Head(Last1) = "selection" /\ Tail(Last1) = <<>>
  BY DEF Supersede, Last2, Last1
<1>3. OldManifest # <<>>
  BY DEF OldManifest
<1> QED BY <1>1, <1>2, <1>3

\* A search without an answer is recorded where no plan would be lost.
LEMMA SearchRefusesStep ==
  ASSUME IInv, NEW p \in Procs, SearchRefuses(p)
  PROVE  IInv'
<1> DEFINE r == proc[p]
           s == proc'[p]
<1>1. /\ Typed /\ r.pc = "resolve" /\ Reads /\ Verdict \in setup.found
      /\ setup' = setup /\ files' = files /\ left' = left
  BY InHand DEF SearchRefuses, Searches, At, Reads
<1>2. CASE ~(r.call.incumbent = None /\ Policy(p).write)
  BY <1>1, <1>2, EndsStep DEF SearchRefuses
<1>3. CASE r.call.incumbent = None /\ Policy(p).write
  <2>1. /\ s.pc = "write" /\ s.result = Verdict /\ s.steps = Supersede /\ s.call = r.call
        /\ s.stored = r.stored /\ s.certificate = r.certificate /\ s.kept = r.kept
        /\ s.todo = r.todo /\ s.outcome = r.outcome
        /\ s.search = Verdict /\ Whole(s)
        /\ proc' = [proc EXCEPT ![p] = s]
    <3>1. Goes(p, [pc |-> "write", result |-> Verdict, search |-> Verdict,
                   steps |-> Supersede])
      BY <1>3 DEF SearchRefuses
    <3> QED BY <1>1, <3>1, GoesFields
  <2>2. s \in Processes
    BY <2>1, InHand, MakesProcess DEF Points, Late, Beside, Filing, Lookup, Outcomes
  <2>3. r.stored = None
    BY <1>3 DEF SearchRefuses, Searches, Suffices, Stored
  <2>4. ~Answering(p)' /\ ~Answered(p)'
    BY <2>1 DEF Answering, Answered, At, Late, Beside, Filing
  <2>5. Control(p)'
    BY <1>1, <1>3, <2>1, <2>4, InHand, StepsDiffer, NoneAssumption
       DEF Local, Control, ReadsAlternatives, Lookup, Late, Beside, Filing
  <2>6. NoWorse(p)' /\ Handed(p)'
    BY <2>1, <2>4 DEF NoWorse, Handed
  <2>7. UserHolds(p)'
    BY <2>1, StepsDiffer DEF UserHolds, UserFiled, Lookup, Beside, Filing
  <2>8. (Steady(setup) => Improves(p))'
    BY <1>1, <2>1, <2>3, Resolving DEF Steady, KeepsNone, Improves, Replaceable
  <2>9. (OneAnswer(setup) => AnswerHolds(p))'
    BY <1>1, <2>1, Resolving DEF AnswerHolds
  <2>10. HoldsAlternatives(p)'
    BY <2>1, <2>4 DEF HoldsAlternatives
  <2>11. Local(p)'
    BY <2>5, <2>6, <2>7, <2>8, <2>9, <2>10 DEF Local
  <2> QED BY <1>1, <2>1, <2>2, <2>11, ReaderMoves
<1> QED BY <1>2, <1>3

\* The search's answer, kept no worse than the plan in hand.
LEMMA AnswerFacts ==
  ASSUME IInv, NEW p \in Procs, proc[p].pc = "resolve", NEW found \in Found(p)
  PROVE  LET incumbent == proc[p].call.incumbent
             result == answer_no_worse_than(found, incumbent) IN
         /\ found \in Plans /\ result \in Plans
         /\ incumbent \in setup.runs => setup.here[result] <= setup.here[incumbent]
         /\ OneAnswer(setup) => result = found /\ found \in setup.found
<1> DEFINE incumbent == proc[p].call.incumbent
           result == answer_no_worse_than(found, incumbent)
<1>1. Typed /\ proc[p].call \in setup.calls /\ setup.runs \subseteq Plans
      /\ setup.found \subseteq Plans \union {Verdict} /\ setup.here \in [Plans -> Nat]
  BY Resolving, SetupShape
<1>2. found \in Plans /\ (incumbent = None => found \in setup.found)
  BY <1>1, NoneAssumption DEF Found
<1>3. result \in Plans
  BY <1>1, <1>2 DEF answer_no_worse_than
<1>4. incumbent \in setup.runs => setup.here[result] <= setup.here[incumbent]
  BY <1>1, <1>2 DEF answer_no_worse_than
<1>5. incumbent = None => result = found /\ found \in setup.found
  BY <1>1, <1>2, NoneAssumption DEF answer_no_worse_than
<1>6. OneAnswer(setup) => incumbent = None
  BY <1>1 DEF OneAnswer
<1> QED BY <1>2, <1>3, <1>4, <1>5, <1>6

\* A search with an answer: the stored plan after all, or a plan to write.
LEMMA SearchAnswersStep ==
  ASSUME IInv, NEW p \in Procs, SearchAnswers(p)
  PROVE  IInv'
<1> DEFINE r == proc[p]
           s == proc'[p]
<1>1. /\ Typed /\ r.pc = "resolve" /\ Reads /\ Searches(p)
      /\ setup' = setup /\ files' = files /\ left' = left
  BY InHand DEF SearchAnswers, Searches, At, Reads
<1>2. PICK found \in Found(p) :
        LET result == answer_no_worse_than(found, r.call.incumbent)
            kept == IF r.call.keep THEN Alternatives(found, Labels) ELSE {}
        IN IF NoBetter(p, result)
           THEN Goes(p, [pc |-> "admit", result |-> Stored(p)])
           ELSE Goes(p, [result |-> result, search |-> found, kept |-> kept,
                         certificate |-> None, steps |-> Supersede,
                         pc |-> CASE ~Policy(p).write -> "admit"
                                  [] Policy(p).overwrite \/ Stored(p) # None -> "write"
                                  [] OTHER -> "compare"])
  BY DEF SearchAnswers
<1>3. PICK plan : plan = answer_no_worse_than(found, r.call.incumbent)
  OBVIOUS
<1>4. /\ plan \in Plans /\ plan # Verdict /\ plan # None
      /\ r.call.incumbent \in setup.runs =>
           setup.here[plan] <= setup.here[r.call.incumbent]
      /\ OneAnswer(setup) => plan \in setup.found /\ found \in setup.found
      /\ found \in Plans /\ found # Verdict /\ found # None
  BY <1>1, <1>3, AnswerFacts, NoneAssumption
<1>5. CASE NoBetter(p, plan)
  <2>1. /\ r.stored # None /\ Goes(p, [pc |-> "admit", result |-> r.stored])
        /\ setup.here[plan] >= setup.here[r.stored]
    BY <1>2, <1>3, <1>5 DEF NoBetter, Stored
  <2>2. ASSUME r.call.incumbent \in setup.runs
        PROVE  setup.here[r.stored] <= setup.here[r.call.incumbent]
    <3>1. /\ r.stored \in Plans /\ r.call.incumbent \in Plans
          /\ setup.here \in [Plans -> Nat]
      BY <1>1, <2>1, <2>2, InHand, SetupShape
    <3> QED BY <1>4, <2>1, <2>2, <3>1
  <2> QED BY <1>1, <2>1, <2>2, StoredStep
<1>6. CASE ~NoBetter(p, plan)
  <2>1. PICK kept : kept = IF r.call.keep THEN Alternatives(found, Labels) ELSE {}
    OBVIOUS
  <2>2. PICK pc : pc = CASE ~Policy(p).write -> "admit"
                         [] Policy(p).overwrite \/ Stored(p) # None -> "write"
                         [] OTHER -> "compare"
    OBVIOUS
  <2>3. /\ s.pc = pc /\ s.certificate = None /\ s.kept = kept /\ s.result = plan
        /\ s.steps = Supersede /\ s.call = r.call /\ s.stored = r.stored /\ s.todo = r.todo
        /\ s.outcome = r.outcome
        /\ s.search = found /\ Whole(s)
        /\ proc' = [proc EXCEPT ![p] = s]
    <3>1. Goes(p, [result |-> plan, search |-> found, kept |-> kept,
                   certificate |-> None, steps |-> Supersede, pc |-> pc])
      BY <1>2, <1>3, <1>6, <2>1, <2>2
    <3> QED BY <1>1, <3>1, GoesFields
  <2>4. /\ pc \in {"admit", "write", "compare"}
        /\ pc = "admit" => ~Policy(p).write
        /\ pc = "write" /\ r.call.mode # "refresh" => r.stored # None
        /\ pc = "compare" => r.call.mode # "refresh" /\ r.stored = None
    BY <2>2 DEF Policy, for_mode, Stored
  <2>5. kept \in SUBSET (Labels \X Plans)
    BY <1>4, <2>1 DEF Alternatives
  <2>6. s \in Processes
    BY <1>4, <2>3, <2>4, <2>5, InHand, MakesProcess DEF Points, Late, Beside, Filing, Lookup, Outcomes
  <2>7. ~Answered(p)'
    BY <2>3, <2>4 DEF Answered, At
  <2>8. Control(p)'
    BY <1>1, <1>4, <2>3, <2>4, <2>7, InHand, StepsDiffer
       DEF Local, Control, ReadsAlternatives, Lookup, Late, Beside, Filing
  <2>9. NoWorse(p)' /\ Handed(p)'
    BY <1>1, <1>4, <2>3, <2>4, <2>7 DEF NoWorse, Handed
  <2>10. UserHolds(p)'
    BY <1>1, <2>3, <2>4, StepsDiffer DEF UserHolds, UserFiled, Lookup, Beside, Filing, Policy
  <2>11. (Steady(setup) => Improves(p))'
    <3>1. ASSUME Steady(setup), pc = "write", r.call.mode # "refresh"
          PROVE  setup.here[plan] < setup.here[files.selection.plan]
      <4>1. r.stored \in Plans /\ r.stored # None /\ setup.here \in [Plans -> Nat]
        BY <1>1, <2>4, <3>1, InHand, SetupShape
      <4>2. files.selection.plan = r.stored
        BY <1>1, <3>1, <4>1, Resolving DEF Steady, Stands
      <4> QED BY <1>4, <1>6, <4>1, <4>2 DEF NoBetter, Stored
    <3>2. Steady(setup) /\ pc = "compare" => r.call.keep \/ Replaceable(files.selection)
      BY <1>1, <2>4, Resolving
    <3> QED BY <1>1, <1>4, <2>3, <2>4, <3>1, <3>2 DEF Improves, Replaceable
  <2>12. (OneAnswer(setup) => AnswerHolds(p))'
    BY <1>1, <1>4, <2>3, <2>4, Resolving DEF AnswerHolds
  <2>13. HoldsAlternatives(p)'
    <3>1. r.call.keep => Complete(kept)
      BY <1>4, <2>1 DEF Complete
    <3> QED BY <2>3, <2>4, <3>1 DEF HoldsAlternatives
  <2>14. Local(p)'
    BY <2>8, <2>9, <2>10, <2>11, <2>12, <2>13 DEF Local
  <2> QED BY <1>1, <2>3, <2>6, <2>14, ReaderMoves
<1> QED BY <1>5, <1>6

\* A fresh answer beside what is on disk: written, agreed with, or refused.
LEMMA CompareStep ==
  ASSUME IInv, NEW p \in Procs, Compare(p)
  PROVE  IInv'
<1> DEFINE r == proc[p]
           s == proc'[p]
<1>1. /\ Typed /\ Local(p) /\ r.pc = "compare" /\ Reads
      /\ setup' = setup /\ files' = files /\ left' = left
      /\ files.selection \in Selections \union {None}
  BY InHand DEF Compare, At, Reads, Files
<1>2. /\ r.result \in Plans /\ r.result # Verdict /\ r.result # None
      /\ r.steps = Supersede /\ r.call.op = "plan"
  BY <1>1, NoneAssumption DEF Local, Control, Answering, Late, Beside, Filing
<1>3. ASSUME NEW pc \in {"write", "list", "admit"}, Goes(p, [pc |-> pc]),
             pc = "write" => Replaceable(files.selection),
             pc # "write" => files.selection = Answer(p)
      PROVE  IInv'
  <2>1. /\ s.pc = pc /\ s.call = r.call /\ s.stored = r.stored /\ s.certificate = r.certificate
        /\ s.kept = r.kept /\ s.result = r.result /\ s.todo = r.todo /\ s.steps = r.steps
        /\ s.outcome = r.outcome
        /\ s.search = r.search /\ Whole(s)
        /\ proc' = [proc EXCEPT ![p] = s]
    BY <1>1, <1>3, GoesFields
  <2>2. s \in Processes
    BY <1>3, <2>1, InHand, MakesProcess DEF Points, Late, Beside, Filing, Lookup, Outcomes
  <2>3. ~Answered(p)' /\ Answering(p)
    BY <1>1, <1>3, <2>1 DEF Answering, Answered, At, Late, Beside, Filing
  <2>4. Control(p)'
    BY <1>1, <1>2, <1>3, <2>1, <2>3, StepsDiffer
       DEF Local, Control, ReadsAlternatives, Lookup, Late, Beside, Filing
  <2>5. NoWorse(p)'
    BY <1>1, <2>1, <2>3 DEF Local, NoWorse
  <2>6. Handed(p)' /\ Improves(p)'
    BY <1>1, <1>3, <2>1, <2>3 DEF Handed, Improves
  <2>7. (OneUser(setup) => UserHolds(p))'
    <3>1. pc # "write" => Stands(r.result)
      <4>1. pc # "write" => files.selection = Answer(p) /\ Answer(p) \in Selections
        BY <1>1, <1>2, <1>3, InHand DEF Answer, Selections, Calls, Local, Control, Filing
      <4> QED BY <4>1, NoneAssumption DEF Stands, Answer, Selections
    <3>2. OneUser(setup) => r.certificate = None
      BY <1>1, <1>2 DEF Local, UserHolds, UserFiled
    <3> QED BY <1>1, <1>2, <1>3, <2>1, <3>1, <3>2, StepsDiffer
         DEF UserHolds, UserFiled, Lookup, Beside, Filing, Stands
  <2>8. (OneAnswer(setup) => AnswerHolds(p))'
    BY <1>1, <1>3, <2>1 DEF Local, AnswerHolds
  <2>9. (Single(setup) => HoldsAlternatives(p))'
    BY <1>1, <1>3, <2>1, <2>3 DEF Local, HoldsAlternatives
  <2>10. Local(p)'
    BY <2>4, <2>5, <2>6, <2>7, <2>8, <2>9 DEF Local
  <2> QED BY <1>1, <2>1, <2>2, <2>10, ReaderMoves
<1>4. CASE Replaceable(files.selection)
  BY <1>3, <1>4 DEF Compare
<1>5. CASE ~Replaceable(files.selection) /\ files.selection = Answer(p)
  <2>1. Goes(p, [pc |-> Retains(p)]) /\ Retains(p) \in {"list", "admit"}
    BY <1>5 DEF Compare, Retains
  <2> QED BY <1>3, <1>5, <2>1
<1>6. CASE ~Replaceable(files.selection) /\ files.selection # Answer(p)
  <2>1. Ends(p, "differs")
    BY <1>6 DEF Compare
  <2> QED BY <1>1, <2>1, EndsStep
<1> QED BY <1>4, <1>5, <1>6

\* One file of the new record.
LEMMA WriteStepKeeps ==
  ASSUME IInv, NEW p \in Procs, WriteStep(p)
  PROVE  IInv'
<1> DEFINE r == proc[p]
           s == proc'[p]
<1>1. /\ Typed /\ Local(p) /\ r.pc = "write" /\ setup' = setup /\ left' = left
      /\ files \in Files /\ p \in setup.procs
      /\ r.result \in Plans \union {Verdict} /\ r.result # None /\ r.call.op = "plan"
      /\ r.steps \in {Last1, Last2, Supersede}
      /\ left \in [Procs -> Nat] /\ \A q \in Procs : left[q] <= left[q]
      /\ r.call.incumbent \in Plans \union {None}
  BY InHand DEF WriteStep, At, Local, Control, Late, Beside, Filing, Typed, Calls
<1>2. /\ Answering(p) <=> r.result # Verdict
      /\ r.result # Verdict => r.result \in Plans
  BY <1>1 DEF Answering, Answered, At, Late, Beside, Filing
<1>3. ASSUME NEW rest \in {Last1, Last2}, files' \in Files,
             files'.selection = files.selection,
             OneUser(setup) => files'.summary = None,
             files'.summary \in {files.summary, None},
             files'.certificate \in {files.certificate, None},
             rest = Last1 => files'.certificate = None,
             files'.resolutions = files.resolutions, files'.manifest = files.manifest,
             Goes(p, [steps |-> rest, pc |-> "write", outcome |-> None])
      PROVE  IInv'
  <2>1. /\ s.pc = "write" /\ s.steps = rest /\ s.outcome = None /\ s.call = r.call
        /\ s.stored = r.stored /\ s.certificate = r.certificate /\ s.kept = r.kept
        /\ s.result = r.result /\ s.todo = r.todo
        /\ s.search = r.search /\ Whole(s)
        /\ proc' = [proc EXCEPT ![p] = s]
    BY <1>1, <1>3, GoesFields
  <2>2. s \in Processes
    BY <1>3, <2>1, InHand, MakesProcess DEF Points, Late, Beside, Filing, Lookup, Outcomes
  <2>3. ~Answered(p)' /\ (Answering(p)' <=> Answering(p))
    BY <1>2, <2>1 DEF Answering, Answered, At, Late, Beside, Filing
  <2>4. Control(p)'
    BY <1>1, <1>3, <2>1, <2>3, StepsDiffer
       DEF Local, Control, ReadsAlternatives, Lookup, Late, Beside, Filing
  <2>5. NoWorse(p)'
    BY <1>1, <2>1, <2>3 DEF Local, NoWorse
  <2>6. Handed(p)' /\ (Steady(setup) => Improves(p))'
    BY <1>1, <1>3, <2>1, <2>3 DEF Local, Handed, Improves
  <2>7. (OneUser(setup) => UserHolds(p))'
    BY <1>1, <1>3, <2>1, StepsDiffer DEF Local, UserHolds, UserFiled, Lookup, Beside, Filing
  <2>8. (OneAnswer(setup) => AnswerHolds(p))'
    BY <1>1, <1>3, <2>1, NoneAssumption DEF Local, AnswerHolds
  <2>9. (Single(setup) => HoldsAlternatives(p))'
    BY <1>1, <2>1, <2>3 DEF Local, HoldsAlternatives
  <2>10. Local(p)'
    BY <2>4, <2>5, <2>6, <2>7, <2>8, <2>9 DEF Local
  <2>11. (OneUser(setup) => FilesAgree)' /\ (OneAnswer(setup) => AnswerFiles)'
    BY <1>1, <1>3 DEF IInv, FilesAgree, OneSearch, AnswerFiles, Stands
  <2> QED BY <1>1, <1>3, <2>1, <2>2, <2>10, <2>11, OneMoves
<1>4. CASE r.steps = Supersede
  <2>1. /\ files' = [files EXCEPT !["summary"] = None]
        /\ Goes(p, [steps |-> Last2, pc |-> "write", outcome |-> None])
    BY <1>4, StepsDiffer DEF WriteStep
  <2>2. /\ files' \in Files /\ files'.selection = files.selection
        /\ files'.summary = None /\ files'.certificate = files.certificate
        /\ files'.resolutions = files.resolutions /\ files'.manifest = files.manifest
    BY <1>1, <2>1 DEF Files
  <2> QED BY <1>3, <2>1, <2>2, StepsDiffer
<1>5. CASE r.steps = Last2
  <2>1. /\ files' = [files EXCEPT !["certificate"] = None]
        /\ Goes(p, [steps |-> Last1, pc |-> "write", outcome |-> None])
    BY <1>5, StepsDiffer DEF WriteStep
  <2>2. /\ files' \in Files /\ files'.selection = files.selection
        /\ files'.summary = files.summary /\ files'.certificate = None
        /\ files'.resolutions = files.resolutions /\ files'.manifest = files.manifest
    BY <1>1, <2>1 DEF Files
  <2>3. OneUser(setup) => files.summary = None
    BY <1>1, <1>5 DEF Local, UserHolds, UserFiled
  <2> QED BY <1>3, <2>1, <2>2, <2>3
<1>6. CASE r.steps = Last1
  <2> DEFINE next == IF r.result = Verdict THEN "ended" ELSE Retains(p)
             outcome == IF r.result = Verdict THEN "refused" ELSE None
  <2>1. /\ files' = [files EXCEPT !["selection"] = Answer(p)]
        /\ Goes(p, [steps |-> <<>>, pc |-> next, outcome |-> outcome])
    BY <1>6, StepsDiffer DEF WriteStep
  <2>2. Answer(p) \in Selections /\ Answer(p) # None
    <3>1. r.search \in Plans \union {Verdict}
      BY <1>1, InHand DEF Local, Control
    <3> QED BY <1>1, <3>1, NoneAssumption DEF Answer, Selections
  <2>3. /\ files' \in Files /\ files'.selection = Answer(p)
        /\ files'.summary = files.summary /\ files'.certificate = files.certificate
        /\ files'.resolutions = files.resolutions /\ files'.manifest = files.manifest
    BY <1>1, <2>1, <2>2 DEF Files
  <2>4. /\ r.result = Verdict => next = "ended" /\ outcome = "refused"
        /\ r.result # Verdict => next \in {"list", "admit"} /\ outcome = None
    BY DEF Retains
  <2> HIDE DEF next, outcome
  <2>5. /\ s.pc = next /\ s.steps = <<>> /\ s.outcome = outcome /\ s.call = r.call
        /\ s.stored = r.stored /\ s.certificate = r.certificate /\ s.kept = r.kept
        /\ s.result = r.result /\ s.todo = r.todo
        /\ s.search = r.search /\ Whole(s)
        /\ proc' = [proc EXCEPT ![p] = s]
    BY <1>1, <2>1, GoesFields, SMTT(60)
  <2>6. s \in Processes
    BY <2>4, <2>5, InHand, MakesProcess DEF Points, Late, Beside, Filing, Lookup, Outcomes
  <2>7. ~Answered(p)' /\ (Answering(p)' <=> Answering(p))
    BY <1>2, <2>4, <2>5 DEF Answering, Answered, At, Late, Beside, Filing
  <2>8. Control(p)'
    BY <1>1, <1>2, <2>4, <2>5, <2>7
       DEF Local, Control, ReadsAlternatives, Lookup, Late, Beside, Filing
  <2>9. NoWorse(p)'
    BY <1>1, <2>5, <2>7 DEF Local, NoWorse
  <2>10. Handed(p)' /\ Improves(p)'
    BY <2>4, <2>5, <2>7 DEF Handed, Improves
  <2>11. (OneUser(setup) => UserHolds(p))'
    <3>1. Stands(r.result)'
      BY <2>2, <2>3, <2>5 DEF Stands, Answer
    <3>2. OneUser(setup) /\ r.result # Verdict => r.certificate = None
      BY <1>1 DEF Local, UserHolds, UserFiled
    <3> QED BY <1>1, <2>4, <2>5, <3>1, <3>2 DEF UserHolds, UserFiled, Lookup, Beside, Filing, Stands
  <2>12. (OneAnswer(setup) => AnswerHolds(p))'
    BY <1>1, <2>2, <2>3, <2>4, <2>5, NoneAssumption DEF Local, AnswerHolds
  <2>13. (Single(setup) => HoldsAlternatives(p))'
    BY <1>1, <2>4, <2>5, <2>7 DEF Local, HoldsAlternatives
  <2>14. Local(p)'
    BY <2>8, <2>9, <2>10, <2>11, <2>12, <2>13 DEF Local
  <2>15. OneUser(setup) => files.summary = None /\ files.certificate = None
    BY <1>1, <1>6 DEF Local, UserHolds, UserFiled
  <2>16. (OneUser(setup) => FilesAgree)'
    BY <1>1, <2>3, <2>15 DEF IInv, FilesAgree, OneSearch
  <2>17. (OneAnswer(setup) => AnswerFiles)'
    <3>1. OneAnswer(setup) => /\ r.result \in setup.found /\ r.search \in setup.found
                              /\ r.call.incumbent = None
      BY <1>1 DEF Local, AnswerHolds, Control, OneAnswer
    <3>2. Answer(p).plan = r.result /\ Answer(p).search = r.search /\ Answer(p).evidence = r.call.incumbent
      BY DEF Answer
    <3> QED BY <1>1, <2>2, <2>3, <3>1, <3>2 DEF IInv, AnswerFiles
  <2> QED BY <1>1, <2>2, <2>3, <2>5, <2>6, <2>14, <2>16, <2>17, OneMoves
<1> QED BY <1>1, <1>4, <1>5, <1>6

\* Filing the alternatives beside a written plan changes nothing a process
\* knows of the selection, its certificate or its summary.
LEMMA FilingKeeps ==
  ASSUME IInv, NEW p \in Procs, proc[p].pc \in Filing,
         setup' = setup, left' = left, files' \in Files,
         files'.selection = files.selection, files'.certificate = files.certificate,
         files'.summary = files.summary,
         \A l \in Labels : files'.resolutions[l] \in {None, files.resolutions[l], proc[p].search},
         proc'[p].pc \in Filing \union {"admit"},
         proc'[p].call = proc[p].call, proc'[p].stored = proc[p].stored,
         proc'[p].certificate = proc[p].certificate, proc'[p].kept = proc[p].kept,
         proc'[p].result = proc[p].result, proc'[p].todo \in SUBSET Labels,
         proc'[p].steps \in {<<>>, OldManifest, proc[p].steps},
         proc'[p].outcome = proc[p].outcome,
         proc'[p].search = proc[p].search, Whole(proc'[p]), proc' = [proc EXCEPT ![p] = proc'[p]],
         (OneUser(setup) => UserFiled(p) /\ OneSearch)'
  PROVE  IInv'
<1> DEFINE r == proc[p]
           s == proc'[p]
<1>1. /\ Typed /\ Local(p) /\ p \in setup.procs
      /\ left \in [Procs -> Nat] /\ \A q \in Procs : left[q] <= left[q]
      /\ r.result \in Plans /\ r.result # Verdict /\ r.result # None
      /\ r.search \in Plans /\ r.search # None
      /\ Answering(p) /\ Answering(p)' /\ ~Answered(p)'
  BY InHand, NoneAssumption
     DEF Local, Control, Typed, Answering, Answered, At, Late, Beside, Filing
<1>2. s \in Processes
  BY InHand, MakesProcess DEF Points, Late, Beside, Filing, Lookup, Outcomes
<1>3. Control(p)'
  BY <1>1 DEF Local, Control, ReadsAlternatives, Lookup, Late, Beside, Filing
<1>4. NoWorse(p)'
  BY <1>1 DEF Local, NoWorse
<1>5. Handed(p)' /\ Improves(p)'
  BY <1>1 DEF Handed, Improves, Filing
<1>6. (OneUser(setup) => UserHolds(p))'
  BY <1>1 DEF Local, UserHolds, Lookup, Beside, Filing, Stands, Policy
<1>7. (OneAnswer(setup) => AnswerHolds(p))'
  BY <1>1 DEF Local, AnswerHolds, Filing
<1>8. (Single(setup) => HoldsAlternatives(p))'
  BY <1>1 DEF Local, HoldsAlternatives, Filing
<1>9. Local(p)'
  BY <1>3, <1>4, <1>5, <1>6, <1>7, <1>8 DEF Local
<1>10. (OneUser(setup) => FilesAgree)'
  BY DEF IInv, FilesAgree, Stands
<1>11. (OneAnswer(setup) => AnswerFiles)'
  <2>1. OneAnswer(setup) => r.search \in setup.found
    BY <1>1 DEF Local, AnswerHolds
  <2> QED BY <2>1 DEF IInv, AnswerFiles
<1> QED BY <1>1, <1>2, <1>9, <1>10, <1>11, OneMoves

\* The directory of alternatives is listed, emptied, filled and declared
\* complete.
LEMMA FilingSteps ==
  ASSUME IInv, NEW p \in Procs,
         ListResolutions(p) \/ RemoveResolution(p) \/ WriteResolution(p) \/ PublishManifest(p)
           \/ DirectoryGone(p)
  PROVE  IInv'
<1> DEFINE r == proc[p]
           s == proc'[p]
<1>1. /\ Typed /\ files \in Files /\ r.pc \in Filing
      /\ setup' = setup /\ left' = left /\ r.todo \in SUBSET Labels
      /\ r.search \in Plans
      /\ OneUser(setup) => UserFiled(p) /\ OneSearch
  BY InHand DEF ListResolutions, RemoveResolution, WriteResolution, PublishManifest,
                DirectoryGone, At, Reads, Local, Control, Answering, Late, Beside, Filing,
                IInv, UserHolds, FilesAgree
<1>2. CASE ListResolutions(p)
  <2>1. PICK made \in SUBSET Labels :
          Goes(p, [pc |-> "remove",
                   todo |-> made \union {l \in Labels : files.resolutions[l] # None},
                   steps |-> IF files.manifest = None THEN <<>> ELSE <<"manifest">>])
    BY <1>2 DEF ListResolutions
  <2>2. PICK todo \in SUBSET Labels, steps \in {<<>>, OldManifest} :
          /\ Goes(p, [pc |-> "remove", todo |-> todo, steps |-> steps])
          /\ files.manifest # None => steps = OldManifest
    BY <2>1 DEF OldManifest
  <2>3. /\ s.pc = "remove" /\ s.todo = todo /\ s.steps = steps /\ s.call = r.call
        /\ s.stored = r.stored /\ s.certificate = r.certificate /\ s.kept = r.kept
        /\ s.result = r.result /\ s.outcome = r.outcome
        /\ s.search = r.search /\ Whole(s)
        /\ proc' = [proc EXCEPT ![p] = s]
    BY <1>1, <2>2, GoesFields
  <2>4. files' = files
    BY <1>2 DEF ListResolutions, Reads
  <2>5. (OneUser(setup) => UserFiled(p) /\ OneSearch)'
    BY <1>1, <2>2, <2>3, <2>4, StepsDiffer DEF UserFiled, OneSearch
  <2> QED BY <1>1, <2>2, <2>3, <2>4, <2>5, FilingKeeps DEF Filing
<1>3. CASE RemoveResolution(p)
  <2>1. r.pc = "remove"
    BY <1>3 DEF RemoveResolution, At
  <2>2. ASSUME NEW l \in r.todo, files' = [files EXCEPT !.resolutions[l] = None],
               Goes(p, [todo |-> r.todo \ {l}])
        PROVE  IInv'
    <3>1. /\ s.pc = r.pc /\ s.todo = r.todo \ {l} /\ s.call = r.call
          /\ s.stored = r.stored /\ s.certificate = r.certificate /\ s.kept = r.kept
          /\ s.result = r.result /\ s.steps = r.steps /\ s.outcome = r.outcome
          /\ s.search = r.search /\ Whole(s)
          /\ proc' = [proc EXCEPT ![p] = s]
      BY <1>1, <2>2, GoesFields
    <3>2. /\ files' \in Files /\ files'.selection = files.selection
          /\ files'.certificate = files.certificate /\ files'.summary = files.summary
          /\ files'.manifest = files.manifest
          /\ \A m \in Labels : files'.resolutions[m] \in {None, files.resolutions[m]}
      <4>1. l \in Labels /\ files'.resolutions = [files.resolutions EXCEPT ![l] = None]
        BY <1>1, <2>2 DEF Files
      <4> QED BY <1>1, <2>2, <4>1 DEF Files
    <3>3. (OneUser(setup) => UserFiled(p) /\ OneSearch)'
      BY <1>1, <2>1, <3>1, <3>2 DEF UserFiled, OneSearch
    <3> QED BY <1>1, <2>1, <3>1, <3>2, <3>3, FilingKeeps DEF Filing
  <2>3. ASSUME files' = [files EXCEPT !.manifest = None], Goes(p, [steps |-> <<>>])
        PROVE  IInv'
    <3>1. /\ s.pc = r.pc /\ s.todo = r.todo /\ s.call = r.call
          /\ s.stored = r.stored /\ s.certificate = r.certificate /\ s.kept = r.kept
          /\ s.result = r.result /\ s.steps = <<>> /\ s.outcome = r.outcome
          /\ s.search = r.search /\ Whole(s)
          /\ proc' = [proc EXCEPT ![p] = s]
      BY <1>1, <2>3, GoesFields
    <3>2. /\ files' \in Files /\ files'.selection = files.selection
          /\ files'.certificate = files.certificate /\ files'.summary = files.summary
          /\ files'.manifest = None /\ files'.resolutions = files.resolutions
      BY <1>1, <2>3 DEF Files
    <3>3. (OneUser(setup) => UserFiled(p) /\ OneSearch)'
      BY <1>1, <2>1, <3>1, <3>2 DEF UserFiled, OneSearch
    <3> QED BY <1>1, <2>1, <3>1, <3>2, <3>3, FilingKeeps DEF Filing
  <2>4. ASSUME files' = files, r.steps = <<>>, Goes(p, [pc |-> "retain", todo |-> Labels])
        PROVE  IInv'
    <3>1. /\ s.pc = "retain" /\ s.todo = Labels /\ s.call = r.call
          /\ s.stored = r.stored /\ s.certificate = r.certificate /\ s.kept = r.kept
          /\ s.result = r.result /\ s.steps = r.steps /\ s.outcome = r.outcome
          /\ s.search = r.search /\ Whole(s)
          /\ proc' = [proc EXCEPT ![p] = s]
      BY <1>1, <2>4, GoesFields
    <3>2. (OneUser(setup) => UserFiled(p) /\ OneSearch)'
      BY <1>1, <2>1, <2>4, <3>1 DEF UserFiled, OneSearch
    <3> QED BY <1>1, <2>4, <3>1, <3>2, FilingKeeps DEF Filing
  <2> QED BY <1>3, <2>2, <2>3, <2>4 DEF RemoveResolution
<1>4. CASE WriteResolution(p)
  <2>1. PICK l \in r.todo :
          /\ files' = [files EXCEPT !.resolutions[l] = r.search]
          /\ Goes(p, [todo |-> r.todo \ {l},
                      pc |-> IF r.todo = {l} THEN "publish" ELSE "retain"])
    BY <1>4 DEF WriteResolution
  <2>2. PICK next \in {"publish", "retain"} :
          /\ Goes(p, [todo |-> r.todo \ {l}, pc |-> next])
          /\ next = "publish" => r.todo = {l}
    BY <2>1
  <2>3. /\ s.pc = next /\ s.todo = r.todo \ {l} /\ s.call = r.call /\ s.stored = r.stored
        /\ s.certificate = r.certificate /\ s.kept = r.kept /\ s.result = r.result
        /\ s.steps = r.steps /\ s.outcome = r.outcome
        /\ s.search = r.search /\ Whole(s)
        /\ proc' = [proc EXCEPT ![p] = s]
    BY <1>1, <2>2, GoesFields
  <2>4. /\ files' \in Files /\ files'.selection = files.selection
        /\ files'.certificate = files.certificate /\ files'.summary = files.summary
        /\ files'.manifest = files.manifest
        /\ \A m \in Labels :
             files'.resolutions[m] = IF m = l THEN r.search ELSE files.resolutions[m]
    <3>1. l \in Labels /\ files'.resolutions = [files.resolutions EXCEPT ![l] = r.search]
      BY <1>1, <2>1 DEF Files
    <3> QED BY <1>1, <2>1, <3>1 DEF Files
  <2>5. (OneUser(setup) => UserFiled(p) /\ OneSearch)'
    <3>1. r.pc = "retain"
      BY <1>4 DEF WriteResolution, At
    <3> QED BY <1>1, <2>2, <2>3, <2>4, <3>1 DEF UserFiled, OneSearch
  <2> QED BY <1>1, <2>2, <2>3, <2>4, <2>5, FilingKeeps DEF Filing
<1>5. CASE PublishManifest(p)
  <2>1. files' = [files EXCEPT !.manifest = Labels] /\ Goes(p, [pc |-> "admit"])
        /\ r.pc = "publish"
    BY <1>5 DEF PublishManifest, At
  <2>2. /\ s.pc = "admit" /\ s.call = r.call /\ s.stored = r.stored
        /\ s.certificate = r.certificate /\ s.kept = r.kept /\ s.result = r.result
        /\ s.todo = r.todo /\ s.steps = r.steps /\ s.outcome = r.outcome
        /\ s.search = r.search /\ Whole(s)
        /\ proc' = [proc EXCEPT ![p] = s]
    BY <1>1, <2>1, GoesFields
  <2>3. /\ files' \in Files /\ files'.selection = files.selection
        /\ files'.certificate = files.certificate /\ files'.summary = files.summary
        /\ files'.resolutions = files.resolutions
    BY <1>1, <2>1 DEF Files
  <2>4. (OneUser(setup) => UserFiled(p) /\ OneSearch)'
    BY <1>1, <2>1, <2>2, <2>3 DEF UserFiled, OneSearch
  <2> QED BY <1>1, <2>2, <2>3, <2>4, FilingKeeps DEF Filing
<1>6. CASE DirectoryGone(p)
  BY <1>6, EndsStep DEF DirectoryGone
<1> QED BY <1>2, <1>3, <1>4, <1>5, <1>6

\* A caller is handed the certificate of its plan, for its facts.
LEMMA HandedStep ==
  ASSUME IInv, NEW p \in Procs, Reads, proc[p].pc = "admit",
         NEW pc \in {"certify", "ended"},
         proc'[p].pc = pc, proc'[p].call = proc[p].call, proc'[p].stored = proc[p].stored,
         proc'[p].kept = proc[p].kept, proc'[p].result = proc[p].result,
         proc'[p].todo = proc[p].todo, proc'[p].steps = proc[p].steps,
         proc'[p].search = proc[p].search,
         proc'[p].outcome \in {None, "answered"}, Whole(proc'[p]),
         proc' = [proc EXCEPT ![p] = proc'[p]],
         proc'[p].certificate \in Certificates,
         Single(setup) => Certified(p)',
         pc = "certify" => /\ for_mode(proc[p].call.mode).write /\ files.selection # None
                           /\ proc'[p].outcome = None
  PROVE  IInv'
<1> DEFINE r == proc[p]
           s == proc'[p]
<1>1. /\ Typed /\ Local(p) /\ setup' = setup /\ files' = files /\ left' = left
      /\ r.result \in Plans /\ r.result # None /\ r.call.op = "plan" /\ Answering(p)
  BY InHand, NoneAssumption DEF Reads, Local, Control, Answering, Late, Beside, Filing
<1>2. s \in Processes
  BY InHand, MakesProcess DEF Points, Late, Beside, Filing, Lookup, Outcomes
<1>3. Control(p)'
  BY <1>1 DEF Local, Control, ReadsAlternatives, Lookup, Late, Beside, Filing
<1>4. NoWorse(p)'
  BY <1>1 DEF Local, NoWorse
<1>5. Improves(p)' /\ (Single(setup) => Handed(p))'
  BY <1>1, NoneAssumption DEF Improves, Handed, Single
<1>6. (OneUser(setup) => UserHolds(p))'
  BY <1>1 DEF Local, UserHolds, UserFiled, Lookup, Beside, Filing, Stands, Policy
<1>7. (OneAnswer(setup) => AnswerHolds(p))'
  BY <1>1, NoneAssumption DEF Local, AnswerHolds, Certified, Single
<1>8. (Single(setup) => HoldsAlternatives(p))'
  BY <1>1 DEF Local, HoldsAlternatives
<1>9. Local(p)'
  BY <1>3, <1>4, <1>5, <1>6, <1>7, <1>8 DEF Local
<1> QED BY <1>1, <1>2, <1>9, ReaderMoves

\* The stored certificate is served, or a layout is built.
LEMMA AdmitSteps ==
  ASSUME IInv, NEW p \in Procs, ServeCertificate(p) \/ BuildLayout(p)
  PROVE  IInv'
<1> DEFINE r == proc[p]
           s == proc'[p]
           made == [plan |-> r.result, facts |-> r.call.facts]
<1>1. /\ Typed /\ Local(p) /\ r.pc = "admit" /\ Reads
      /\ r.result \in Plans /\ r.call.facts \in Nat
      /\ r.certificate \in Certificates \union {None}
  BY InHand DEF ServeCertificate, BuildLayout, At, Local, Control, Answering, Late, Beside, Filing, Calls
<1>2. CASE ServeCertificate(p)
  <2>1. /\ Goes(p, [pc |-> "ended", outcome |-> "answered"])
        /\ r.certificate \in Certificates /\ r.certificate # None
        /\ r.certificate.facts = r.call.facts
    BY <1>1, <1>2 DEF ServeCertificate, ForTheseFacts, Ends
  <2>2. /\ s.pc = "ended" /\ s.outcome = "answered" /\ s.call = r.call /\ s.stored = r.stored
        /\ s.certificate = r.certificate /\ s.kept = r.kept /\ s.result = r.result
        /\ s.todo = r.todo /\ s.steps = r.steps
        /\ s.search = r.search /\ Whole(s)
        /\ proc' = [proc EXCEPT ![p] = s]
    BY <1>1, <2>1, GoesFields
  <2>3. OneUser(setup) \/ OneAnswer(setup) => r.certificate.plan = r.result
    <3>1. OneUser(setup) => r.certificate.plan = r.result
      BY <1>1, <2>1 DEF Local, UserHolds, UserFiled
    <3>2. OneAnswer(setup) => r.certificate.plan \in setup.found /\ r.result \in setup.found
      BY <1>1, <2>1, NoneAssumption DEF Local, AnswerHolds
    <3> QED BY <3>1, <3>2 DEF OneAnswer
  <2>4. Single(setup) => Certified(p)'
    BY <2>1, <2>2, <2>3 DEF Single, Certified, Certificates
  <2> QED BY <1>1, <2>1, <2>2, <2>4, HandedStep
<1>3. CASE BuildLayout(p) /\ r.result \notin setup.certifies
  BY <1>1, <1>3, EndsStep DEF BuildLayout
<1>4. CASE BuildLayout(p) /\ r.result \in setup.certifies
  <2>1. PICK pc \in {"certify", "ended"}, outcome \in {None, "answered"} :
          /\ Goes(p, [certificate |-> made, pc |-> pc, outcome |-> outcome])
          /\ pc = "certify" => Policy(p).write /\ files.selection # None /\ outcome = None
    BY <1>4 DEF BuildLayout
  <2>2. made \in Certificates
    BY <1>1 DEF Certificates
  <2>3. /\ s.pc = pc /\ s.certificate = made /\ s.outcome = outcome /\ s.call = r.call
        /\ s.stored = r.stored /\ s.kept = r.kept /\ s.result = r.result /\ s.todo = r.todo
        /\ s.steps = r.steps
        /\ s.search = r.search /\ Whole(s)
        /\ proc' = [proc EXCEPT ![p] = s]
    <3> HIDE DEF made
    <3> QED BY <1>1, <2>1, GoesFields
  <2>4. Certified(p)'
    BY <2>3 DEF Certified
  <2>5. pc = "certify" => /\ for_mode(r.call.mode).write /\ files.selection # None
                          /\ outcome = None
    BY <2>1 DEF Policy
  <2> QED BY <1>1, <2>2, <2>3, <2>4, <2>5, HandedStep
<1> QED BY <1>2, <1>3, <1>4

\* The certificate is filed beside the selection it was made for.
LEMMA CertifyStep ==
  ASSUME IInv, NEW p \in Procs, Certify(p)
  PROVE  IInv'
<1> DEFINE r == proc[p]
           s == proc'[p]
<1>1. /\ Typed /\ Local(p) /\ r.pc = "certify" /\ setup' = setup /\ left' = left
      /\ files' = [files EXCEPT !.certificate = r.certificate]
      /\ Goes(p, [pc |-> "summarise"]) /\ files \in Files /\ p \in setup.procs
      /\ r.result \in Plans /\ r.result # None /\ r.call.op = "plan" /\ Answering(p)
      /\ r.certificate \in Certificates \union {None} /\ for_mode(r.call.mode).write
      /\ left \in [Procs -> Nat] /\ \A q \in Procs : left[q] <= left[q]
  BY InHand, NoneAssumption
     DEF Certify, At, Local, Control, Answering, Late, Beside, Filing, Typed
<1>2. /\ files' \in Files /\ files'.selection = files.selection
      /\ files'.certificate = r.certificate /\ files'.summary = files.summary
      /\ files'.resolutions = files.resolutions /\ files'.manifest = files.manifest
  BY <1>1 DEF Files
<1>3. /\ s.pc = "summarise" /\ s.call = r.call /\ s.stored = r.stored
      /\ s.certificate = r.certificate /\ s.kept = r.kept /\ s.result = r.result
      /\ s.todo = r.todo /\ s.steps = r.steps /\ s.outcome = r.outcome
      /\ s.search = r.search /\ Whole(s)
      /\ proc' = [proc EXCEPT ![p] = s]
  BY <1>1, GoesFields
<1>4. s \in Processes
  BY <1>3, InHand, MakesProcess DEF Points, Late, Beside, Filing, Lookup, Outcomes
<1>5. Answering(p)' /\ ~Answered(p)'
  BY <1>1, <1>3 DEF Answering, Answered, At
<1>6. Control(p)'
  BY <1>1, <1>3, <1>5 DEF Local, Control, ReadsAlternatives, Lookup, Late, Beside, Filing
<1>7. NoWorse(p)'
  BY <1>1, <1>3 DEF Local, NoWorse
<1>8. /\ Improves(p)'
      /\ Single(setup) => Certified(p)
      /\ Certified(p) => Handed(p)'
  BY <1>1, <1>3, <1>5 DEF Local, Improves, Handed, Certified
<1>9. (OneUser(setup) => UserHolds(p))'
  BY <1>1, <1>2, <1>3 DEF Local, UserHolds, UserFiled, Lookup, Beside, Filing, Stands, Policy
<1>10. (OneAnswer(setup) => AnswerHolds(p))'
  BY <1>1, <1>2, <1>3 DEF Local, AnswerHolds
<1>11. (Single(setup) => HoldsAlternatives(p))'
  BY <1>1, <1>3 DEF Local, HoldsAlternatives
<1>12. Local(p)'
  <2>1. (Single(setup) => Handed(p))'
    BY <1>1, <1>8 DEF Single, OneUser, OneAnswer
  <2> QED BY <1>1, <1>6, <1>7, <1>8, <1>9, <1>10, <1>11, <2>1 DEF Local
<1>13. (OneUser(setup) => FilesAgree)'
  <2>1. OneUser(setup) => Stands(r.result) /\ r.certificate.plan = r.result
    BY <1>1, <1>8 DEF Local, UserHolds, UserFiled, Beside, Filing, Policy, Certified, Single
  <2> QED BY <1>1, <1>2, <2>1 DEF IInv, FilesAgree, OneSearch, Stands
<1>14. (OneAnswer(setup) => AnswerFiles)'
  <2>1. OneAnswer(setup) =>
          /\ r.certificate # None => r.certificate.plan \in setup.found
          /\ files.selection # None
    BY <1>1 DEF Local, AnswerHolds
  <2> QED BY <1>1, <1>2, <2>1 DEF IInv, AnswerFiles
<1> QED BY <1>1, <1>2, <1>3, <1>4, <1>12, <1>13, <1>14, OneMoves

\* The summary follows, and the call is answered.
LEMMA WriteSummaryStep ==
  ASSUME IInv, NEW p \in Procs, WriteSummary(p)
  PROVE  IInv'
<1> DEFINE r == proc[p]
           s == proc'[p]
<1>1. /\ Typed /\ Local(p) /\ r.pc = "summarise" /\ setup' = setup /\ left' = left
      /\ files' = IF Policy(p).write THEN [files EXCEPT !.summary = r.result] ELSE files
      /\ files \in Files /\ p \in setup.procs /\ r.result \in Plans /\ r.result # None
      /\ r.call.op = "plan" <=> Answering(p)
      /\ left \in [Procs -> Nat] /\ \A q \in Procs : left[q] <= left[q]
  BY InHand, NoneAssumption
     DEF WriteSummary, At, Local, Control, Answering, Answered, Late, Beside, Filing, Typed
<1>2. PICK outcome \in {"answered", "summary"} :
        /\ Goes(p, [pc |-> "ended", outcome |-> outcome])
        /\ outcome = "answered" <=> r.call.op = "plan"
  BY DEF WriteSummary, Ends
<1>3. /\ files' \in Files /\ files'.selection = files.selection
      /\ files'.certificate = files.certificate
      /\ files'.summary = IF Policy(p).write THEN r.result ELSE files.summary
      /\ files'.resolutions = files.resolutions /\ files'.manifest = files.manifest
  BY <1>1 DEF Files
<1>4. /\ s.pc = "ended" /\ s.outcome = outcome /\ s.call = r.call /\ s.stored = r.stored
      /\ s.certificate = r.certificate /\ s.kept = r.kept /\ s.result = r.result
      /\ s.todo = r.todo /\ s.steps = r.steps
      /\ s.search = r.search /\ Whole(s)
      /\ proc' = [proc EXCEPT ![p] = s]
  BY <1>1, <1>2, GoesFields
<1>5. s \in Processes
  BY <1>2, <1>4, InHand, MakesProcess DEF Points, Late, Beside, Filing, Lookup, Outcomes
<1>6. /\ Answering(p)' <=> Answering(p)
      /\ Answered(p)' <=> r.call.op = "plan"
  BY <1>1, <1>2, <1>4 DEF Answering, Answered, At, Late, Beside, Filing
<1>7. Control(p)'
  BY <1>1, <1>4, <1>6 DEF Local, Control, ReadsAlternatives, Lookup, Late, Beside, Filing
<1>8. NoWorse(p)'
  BY <1>1, <1>4, <1>6 DEF Local, NoWorse
<1>9. Improves(p)' /\ (Handed(p) => Handed(p)') /\ UserHolds(p)'
  BY <1>1, <1>4, <1>6 DEF Improves, Handed, Certified, UserHolds, UserFiled, Lookup, Beside, Filing
<1>10. (OneAnswer(setup) => AnswerHolds(p))'
  BY <1>1, <1>3, <1>4 DEF Local, AnswerHolds
<1>11. (Single(setup) => HoldsAlternatives(p))'
  BY <1>1, <1>4, <1>6 DEF Local, HoldsAlternatives
<1>12. Local(p)'
  BY <1>1, <1>7, <1>8, <1>9, <1>10, <1>11 DEF Local
<1>13. (OneUser(setup) => FilesAgree)'
  <2>1. OneUser(setup) /\ Policy(p).write => Stands(r.result)
    BY <1>1 DEF Local, UserHolds, UserFiled
  <2> QED BY <1>1, <1>3, <2>1 DEF IInv, FilesAgree, OneSearch, Stands
<1>14. (OneAnswer(setup) => AnswerFiles)'
  <2>1. OneAnswer(setup) => r.result \in setup.found /\ files.selection # None
    BY <1>1 DEF Local, AnswerHolds
  <2> QED BY <1>1, <1>3, <2>1 DEF IInv, AnswerFiles
<1> QED BY <1>1, <1>3, <1>4, <1>5, <1>12, <1>13, <1>14, OneMoves

-----------------------------------------------------------------------------
\* The directory is empty and no process has begun.
LEMMA InitHolds ==
  ASSUME Init
  PROVE  IInv
<1>1. /\ setup \in Setups /\ setup \in SetupType /\ files = Empty
      /\ proc = [p \in Procs |-> Fresh]
      /\ left = [p \in Procs |-> IF p \in setup.procs THEN setup.each ELSE 0]
  BY SetupsTyped DEF Init
<1>2. /\ files.selection = None /\ files.certificate = None /\ files.summary = None
      /\ files.manifest = None
      /\ \A l \in Labels : files.resolutions[l] = None
  BY <1>1 DEF Empty
<1>3. Typed
  <2>1. Fresh \in Processes
    BY DEF Fresh, Processes, NoCall, Calls, Modes, Points, Outcomes
  <2>2. files \in Files
    BY <1>1 DEF Empty, Files
  <2>3. left \in [Procs -> Nat]
    BY <1>1 DEF SetupType
  <2> QED BY <1>1, <2>1, <2>2, <2>3 DEF Typed
<1>4. ASSUME NEW p \in Procs PROVE Local(p)
  <2>1. /\ proc[p] = Fresh /\ proc[p].pc = "idle" /\ proc[p].call = NoCall
        /\ proc[p].stored = None /\ proc[p].certificate = None /\ proc[p].result = None
        /\ proc[p].outcome = None /\ NoCall.keep = FALSE /\ proc[p].search = None
    BY <1>1 DEF Fresh, NoCall
  <2>2. left[p] > 0 => p \in setup.procs
    <3>1. p \notin setup.procs => left[p] = 0
      BY <1>1
    <3> QED BY <3>1
  <2>3. ~Answering(p) /\ ~Answered(p)
    BY <2>1, NoneAssumption DEF Answering, Answered, At, Late, Beside, Filing
  <2>4. Control(p)
    BY <2>1, <2>2, <2>3 DEF Control, ReadsAlternatives, Lookup, Late, Beside, Filing
  <2>5. NoWorse(p) /\ Handed(p) /\ Improves(p) /\ UserHolds(p)
    BY <2>1, <2>3 DEF NoWorse, Handed, Improves, UserHolds, UserFiled, Lookup, Beside, Filing
  <2>6. AnswerHolds(p) /\ HoldsAlternatives(p)
    BY <2>1, <2>3, NoneAssumption DEF AnswerHolds, HoldsAlternatives
  <2> QED BY <2>4, <2>5, <2>6 DEF Local
<1>5. FilesAgree /\ AnswerFiles
  BY <1>2 DEF FilesAgree, OneSearch, AnswerFiles
<1> QED BY <1>3, <1>4, <1>5 DEF IInv

\* Every step of every process keeps the invariant.
LEMMA NextHolds ==
  ASSUME IInv, [Next]_vars
  PROVE  IInv'
<1>1. CASE UNCHANGED vars
  <2>1. setup' = setup /\ files' = files /\ proc' = proc /\ left' = left
    BY <1>1 DEF vars
  <2>2. Typed'
    BY <2>1 DEF IInv, Typed
  <2>3. ASSUME NEW p \in Procs PROVE Local(p)'
    <3>1. Local(p)
      BY DEF IInv
    <3>2. (Answering(p)' <=> Answering(p)) /\ (Answered(p)' <=> Answered(p))
      BY <2>1 DEF Answering, Answered, At
    <3>3. Control(p)'
      BY <2>1, <3>1, <3>2 DEF Local, Control
    <3>4. (NoWorse(p) => NoWorse(p)') /\ (Handed(p) => Handed(p)')
          /\ (Improves(p) => Improves(p)') /\ (AnswerHolds(p) => AnswerHolds(p)')
          /\ (HoldsAlternatives(p) => HoldsAlternatives(p)')
      BY <2>1, <3>2 DEF NoWorse, Handed, Certified, Improves, AnswerHolds, HoldsAlternatives,
                        ReadSoFar
    <3>5. UserHolds(p) => UserHolds(p)'
      BY <2>1 DEF UserHolds, UserFiled, Stands, Policy
    <3> QED BY <2>1, <3>1, <3>3, <3>4, <3>5 DEF Local
  <2>4. (OneUser(setup) => FilesAgree)' /\ (OneAnswer(setup) => AnswerFiles)'
    BY <2>1 DEF IInv, FilesAgree, OneSearch, AnswerFiles, Stands
  <2> QED BY <2>2, <2>3, <2>4 DEF IInv
<1>2. ASSUME NEW p \in Procs, Step(p) PROVE IInv'
  BY <1>2, CallStep, FreshStep, ReadSummaryStep, ReadSelectionStep, ReadManifestStep,
     ReadResolutionStep, CertificateSteps, ServeStep, SearchRefusesStep, SearchAnswersStep,
     CompareStep, WriteStepKeeps, FilingSteps, AdmitSteps, CertifyStep, WriteSummaryStep
     DEF Step
<1> QED BY <1>1, <1>2 DEF Next

\* The invariant holds of every behaviour of the store's entry.
THEOREM StoreInvariant == Spec => []IInv
<1>1. Init => IInv
  BY InitHolds
<1>2. IInv /\ [Next]_vars => IInv'
  BY NextHolds
<1> QED BY <1>1, <1>2, PTL DEF Spec

-----------------------------------------------------------------------------
(* The theorems. *)

\* A request handed a plan that runs and places here never answers worse than
\* it, for any number of processes, plans, calls and crashes and whatever the
\* search answers: a fresh answer is held to the plan as it runs here, the
\* stored one to the makespan the plan carries.
THEOREM StoreAnswersNoWorse == Spec => []AnswersNoWorse
<1>1. IInv => AnswersNoWorse
  BY DEF IInv, Typed, Local, NoWorse, Answering, AnswersNoWorse, Stored
<1> QED BY <1>1, StoreInvariant, PTL

\* What stands beside a plan is about that plan, and a caller is handed the
\* certificate of its plan, for its facts: wherever a process is interrupted,
\* when one process at a time uses the entry, and for any number of processes
\* when every search of the request gives the same answer.
THEOREM StoreBesideItsPlan ==
  ASSUME \A s \in Setups : OneUser(s) \/ OneAnswer(s)
  PROVE  Spec => []BesideItsPlan
<1>1. ASSUME IInv PROVE BesideItsPlan
  <2>1. OneUser(setup) \/ OneAnswer(setup)
    BY <1>1 DEF IInv, Typed
  <2>2. \A p \in Procs : Answered(p) => Certified(p)
    BY <1>1, <2>1 DEF IInv, Local, Handed, Single
  <2>3. ASSUME OneAnswer(setup), files.selection # None, NEW plan \in setup.found
        PROVE  files.selection.plan = plan
    BY <1>1, <2>3 DEF IInv, AnswerFiles, OneAnswer
  <2>4. files.certificate # None => Stands(files.certificate.plan)
    BY <1>1, <2>1, <2>3 DEF IInv, FilesAgree, OneSearch, AnswerFiles, Stands
  <2>5. files.summary # None => Stands(files.summary)
    BY <1>1, <2>1, <2>3 DEF IInv, FilesAgree, OneSearch, AnswerFiles, Stands
  <2> QED BY <2>2, <2>4, <2>5 DEF BesideItsPlan, Certified, Stands
<1> QED BY <1>1, StoreInvariant, PTL

\* Only the write of a record replaces the selection, with its answer.
LEMMA SelectionWritten ==
  ASSUME IInv, [Next]_vars, files'.selection # files.selection
  PROVE  \E p \in Procs : /\ proc[p].pc = "write" /\ proc[p].result # None
                          /\ files'.selection = Answer(p)
<1>1. files' # files
  OBVIOUS
<1>2. PICK p \in Procs : Step(p)
  BY <1>1 DEF Next, vars
<1>3. Typed /\ Local(p) /\ files \in Files /\ proc[p].steps \in {<<>>, Last1, Last2, Supersede, OldManifest}
  BY InHand
<1>4. CASE WriteStep(p)
  <2>1. /\ proc[p].pc = "write" /\ proc[p].result # None
        /\ proc[p].steps \in {Last1, Last2, Supersede}
    BY <1>3, <1>4 DEF WriteStep, At, Local, Control
  <2>2. /\ proc[p].steps = Supersede => files' = [files EXCEPT !["summary"] = None]
        /\ proc[p].steps = Last2 => files' = [files EXCEPT !["certificate"] = None]
        /\ proc[p].steps = Last1 => files' = [files EXCEPT !["selection"] = Answer(p)]
    BY <1>4, StepsDiffer DEF WriteStep
  <2>3. files'.selection = Answer(p)
    BY <1>3, <2>1, <2>2 DEF Files
  <2> QED BY <2>1, <2>3
<1>5. CASE RemoveResolution(p) \/ WriteResolution(p) \/ PublishManifest(p)
             \/ Certify(p) \/ WriteSummary(p)
  <2>1. files'.selection = files.selection
    BY <1>3, <1>5 DEF RemoveResolution, WriteResolution, PublishManifest, Certify,
                      WriteSummary, Files
  <2> QED BY <2>1
<1> QED BY <1>1, <1>2, <1>4, <1>5
     DEF Step, Call, Return, Crash, ReadSummary, ReadSelection, ReadManifest,
         ReadResolution, CertificateExists, ReadCertificate, ServeStored, refuse_miss,
         SearchRefuses, SearchAnswers, Compare, ListResolutions, DirectoryGone,
         ServeCertificate, BuildLayout, Reads

\* The store never gets worse: unless a refresh asks for it, a stored plan is
\* replaced only by a strictly faster one.  For one process at a time, when a
\* request that keeps alternatives is not refused by a later search
\* (write_verdict does not look at the plan it replaces), and for any number of
\* processes when every search gives the same answer.
THEOREM StorePlanKept ==
  ASSUME \A s \in Setups : Steady(s) \/ OneAnswer(s)
  PROVE  Spec => PlanKept
<1> DEFINE Kept == files.selection # None /\ files.selection.plan # Verdict
                     /\ files'.selection # files.selection =>
                     \/ Refreshing
                     \/ /\ files'.selection.plan # Verdict
                        /\ setup.here[files'.selection.plan] < setup.here[files.selection.plan]
<1>1. ASSUME IInv, [Next]_vars PROVE Kept
  <2>1. SUFFICES ASSUME files.selection # None, files.selection.plan # Verdict,
                        files'.selection # files.selection
                 PROVE  \/ Refreshing
                        \/ /\ files'.selection.plan # Verdict
                           /\ setup.here[files'.selection.plan]
                                < setup.here[files.selection.plan]
    OBVIOUS
  <2>2. PICK p \in Procs : /\ proc[p].pc = "write" /\ proc[p].result # None
                           /\ files'.selection = Answer(p)
    BY <1>1, <2>1, SelectionWritten
  <2>3. Local(p) /\ files \in Files /\ setup \in Setups
    BY <1>1, InHand DEF Typed
  <2>4. /\ Answer(p).plan = proc[p].result /\ Answer(p).search = proc[p].search
        /\ Answer(p).evidence = proc[p].call.incumbent
    BY DEF Answer
  <2>5. CASE OneAnswer(setup)
    <3>1. /\ proc[p].result \in setup.found /\ proc[p].search \in setup.found
          /\ proc[p].call.incumbent = None
      BY <2>2, <2>3, <2>5 DEF Local, AnswerHolds, Control, OneAnswer
    <3>2. files.selection \in Selections /\ files.selection.plan \in setup.found
          /\ files.selection.search \in setup.found /\ files.selection.evidence = None
      BY <1>1, <2>1, <2>3, <2>5 DEF IInv, AnswerFiles, Files
    <3>3. files.selection.plan = proc[p].result /\ files.selection.search = proc[p].search
      BY <2>5, <3>1, <3>2 DEF OneAnswer
    <3>4. files.selection = Answer(p)
      BY <3>1, <3>2, <3>3 DEF Answer, Selections
    <3> QED BY <2>1, <2>2, <3>4
  <2>6. CASE Steady(setup)
    <3>1. proc[p].call.mode = "refresh" => Refreshing
      BY <2>2 DEF Refreshing, At
    <3>2. proc[p].call.mode # "refresh" =>
            /\ proc[p].result # Verdict
            /\ setup.here[proc[p].result] < setup.here[files.selection.plan]
      BY <2>1, <2>2, <2>3, <2>6 DEF Local, Improves, Replaceable
    <3> QED BY <2>2, <2>4, <3>1, <3>2
  <2> QED BY <2>3, <2>5, <2>6
<1>2. IInv /\ [Next]_vars => [Kept]_vars
  BY <1>1
<1>3. Spec => [][Kept]_vars
  BY <1>2, StoreInvariant, PTL DEF Spec
<1> QED BY <1>3 DEF PlanKept

\* Retention is whole: a caller that asks for the alternatives and is answered
\* has every one of them, all from one search: wherever one process at a time is
\* interrupted and whatever its searches find, and for any number of processes
\* when every search of the request gives the same answer.
THEOREM StoreRetentionWhole ==
  ASSUME \A s \in Setups : OneUser(s) \/ OneAnswer(s) \/ KeepsNone(s)
  PROVE  Spec => []RetentionWhole
<1>1. ASSUME IInv PROVE RetentionWhole
  <2>1. ASSUME NEW p \in Procs, Answered(p), proc[p].call.keep
        PROVE  \E found \in Plans : proc[p].kept = Alternatives(found, Labels)
    <3>1. Local(p) /\ setup \in Setups
      BY <1>1 DEF IInv, Typed
    <3>2. Answering(p) /\ proc[p].call.op = "plan" /\ proc[p].call \in setup.calls
      BY <2>1, <3>1 DEF Local, Control, Answering, Answered, At
    <3>3. Single(setup)
      BY <2>1, <3>1, <3>2 DEF KeepsNone, Single
    <3> QED BY <2>1, <3>1, <3>2, <3>3 DEF Local, HoldsAlternatives, Complete
  <2> QED BY <2>1 DEF RetentionWhole
<1> QED BY <1>1, StoreInvariant, PTL
=============================================================================
