----------------------------- MODULE Experiment -----------------------------
(***************************************************************************)
(* One paired comparison of two Travel versions (experiments.py): the      *)
(* process that runs it, and any number of later processes that only read  *)
(* its cloud runs back (--resume-from, and every release promotion).       *)
(*                                                                         *)
(* A process keeps its evidence in a private folder of exclusive, synced   *)
(* files.  A file torn by a crash does not parse, so for every reader it   *)
(* is a file that is not there.  The deployments an experiment names (the  *)
(* models of both versions and the judge) are one generation number: their *)
(* complete ARM resources are compared, so a change is never undone        *)
(* without a trace.                                                        *)
(***************************************************************************)
EXTENDS Naturals, Sequences, FiniteSets

CONSTANTS
    Original,       \* the process that runs the experiment
    Readers,        \* processes that resume it or promote from it
    Turns,          \* model calls of both sides together
    MaxGeneration   \* bound on the changes of the deployments

ASSUME ExperimentAssumption ==
    /\ Original \notin Readers
    /\ Turns \in Nat
    /\ MaxGeneration \in Nat

VARIABLES
    live,       \* generation of the deployments in the account
    stage,      \* how far each process is
    side,       \* the side whose run each process reads
    captured,   \* the generation each process believes it reports on
    expired,    \* the process's deadline has passed
    folder,     \* durable files in each process's folder
    results,    \* the verdict each process read, per side
    answers,    \* turns.jsonl of the original: who answered each turn
    evaluations,\* evaluations created in the cloud
    runs        \* the evaluation runs in the cloud, per side

account  == <<live>>
process  == <<stage, side, captured, expired, folder, results>>
service  == <<evaluations, runs>>
vars     == <<account, process, answers, service>>

Processes   == {Original} \cup Readers
Sides       == {"baseline", "candidate"}
Generations == 0..MaxGeneration
Verdicts    == {"pass", "fail"}
Unknown     == "unknown"

RunCreated  == [s \in Sides |-> IF s = "baseline" THEN "baseline-run-created.json"
                                                 ELSE "candidate-run-created.json"]
Captures    == {"targets.json", "prices.json", "manifest.json", "samples.json"}
RunIds      == {"eval.json"} \cup {RunCreated[s] : s \in Sides}
Closing     == {"targets-after.json", "summary.json", "finished.json", "error.json"}
Files       == Captures \cup RunIds \cup Closing

Ended     == {"done", "failed", "crashed"}
Timed     == {"collecting", "sampled", "created", "submitting", "submitted", "polling", "reading"}
Stages    == {"idle", "started", "targeted", "priced", "loaded", "matched",
              "compared", "checked", "summarised", "finished"} \cup Timed \cup Ended
Active(p) == stage[p] \notin {"idle"} \cup Ended

\* A run that is being graded holds grades of some samples only.
RunStates == [status : {"absent", "queued", "in_progress", "completed", "failed"},
              created : Nat, verdict : Verdicts \cup {Unknown}, graders : SUBSET Generations]
AbsentRun == [status |-> "absent", created |-> 0, verdict |-> Unknown, graders |-> {}]

Init ==
    /\ live = 0
    /\ stage = [p \in Processes |-> IF p = Original THEN "started" ELSE "idle"]
    /\ side = [p \in Processes |-> "baseline"]
    /\ captured = [p \in Processes |-> 0]
    /\ expired = [p \in Processes |-> FALSE]
    /\ folder = [p \in Processes |-> {}]
    /\ results = [p \in Processes |-> [s \in Sides |-> Unknown]]
    /\ answers = <<>>
    /\ evaluations = 0
    /\ runs = [s \in Sides |-> AbsentRun]

-----------------------------------------------------------------------------
\* Process p moves from one stage to another, having written some files.
Step(p, from, to, files) ==
    /\ stage[p] = from
    /\ stage' = [stage EXCEPT ![p] = to]
    /\ folder' = [folder EXCEPT ![p] = @ \cup files]

\* The exception handler of main records the error.
Abort(p, from) == Step(p, from, "failed", {"error.json"})

-----------------------------------------------------------------------------
(***************************************************************************)
(* run_experiment                                                          *)
(***************************************************************************)
ReadTargets ==
    /\ Step(Original, "started", "targeted", {"targets.json"})
    /\ captured' = [captured EXCEPT ![Original] = live]
    /\ UNCHANGED <<account, side, expired, results, answers, service>>

ResolvePrices ==
    /\ Step(Original, "targeted", "priced", {"prices.json"})
    /\ UNCHANGED <<account, side, captured, expired, results, answers, service>>

WriteManifest ==
    /\ Step(Original, "priced", "collecting", {"manifest.json"})
    /\ UNCHANGED <<account, side, captured, expired, results, answers, service>>

\* Mutant of RunTurn: the dataset has no end.
RunTurnAgain ==
    /\ stage[Original] = "collecting"
    /\ ~expired[Original]
    /\ answers' = Append(answers, live)
    /\ UNCHANGED <<account, process, service>>

\* collect: one model call, its record appended before it is validated.
RunTurn ==
    /\ stage[Original] = "collecting"
    /\ ~expired[Original]
    /\ Len(answers) < Turns
    /\ answers' = Append(answers, live)
    /\ UNCHANGED <<account, process, service>>

\* Mutant of WriteSamples: the samples are saved while turns are missing.
WriteSamplesEarly ==
    /\ Step(Original, "collecting", "sampled", {"samples.json"})
    /\ UNCHANGED <<account, side, captured, expired, results, answers, service>>

WriteSamples ==
    /\ Len(answers) = Turns
    /\ Step(Original, "collecting", "sampled", {"samples.json"})
    /\ UNCHANGED <<account, side, captured, expired, results, answers, service>>

\* evaluate_pair: the cloud creates first, the file that names it comes after.
CreateEvaluation ==
    /\ Step(Original, "sampled", "created", {})
    /\ ~expired[Original]
    /\ evaluations' = evaluations + 1
    /\ UNCHANGED <<account, side, captured, expired, results, answers, runs>>

WriteEvaluation ==
    /\ Step(Original, "created", "submitting", {"eval.json"})
    /\ UNCHANGED <<account, side, captured, expired, results, answers, service>>

CreateRun ==
    LET s == side[Original] IN
    /\ Step(Original, "submitting", "submitted", {})
    /\ ~expired[Original]
    /\ runs' = [runs EXCEPT ![s].status = "queued", ![s].created = @ + 1]
    /\ UNCHANGED <<account, side, captured, expired, results, answers, evaluations>>

\* Both runs are submitted before either is polled, the baseline first.
WriteRun ==
    LET s == side[Original] IN
    /\ Step(Original, "submitted",
            IF s = "baseline" THEN "submitting" ELSE "polling", {RunCreated[s]})
    /\ side' = [side EXCEPT ![Original] = IF s = "baseline" THEN "candidate" ELSE "baseline"]
    /\ UNCHANGED <<account, captured, expired, results, answers, service>>

-----------------------------------------------------------------------------
(***************************************************************************)
(* resume_experiment                                                       *)
(***************************************************************************)
\* The original's evidence fixes what may be reported; without it the reader fails.
LoadEvidence(p) ==
    /\ stage[p] = "idle"
    /\ IF Captures \subseteq folder[Original]
       THEN Step(p, "idle", "loaded", {"manifest.json"})
       ELSE Abort(p, "idle")
    /\ captured' = [captured EXCEPT ![p] = captured[Original]]
    /\ UNCHANGED <<account, side, expired, results, answers, service>>

\* Mutant of MatchTargets: the live deployments are not compared.
MatchTargetsBlind(p) ==
    /\ Step(p, "loaded", "matched", {})
    /\ captured' = [captured EXCEPT ![p] = live]
    /\ UNCHANGED <<account, side, expired, results, answers, service>>

MatchTargets(p) ==
    /\ IF live = captured[p] THEN Step(p, "loaded", "matched", {}) ELSE Abort(p, "loaded")
    /\ UNCHANGED <<account, side, captured, expired, results, answers, service>>

\* Mutant of LoadRuns: missing runs are submitted again.
LoadRunsResubmitting(p) ==
    /\ Step(p, "matched", "polling", {})
    /\ runs' = [s \in Sides |-> IF RunCreated[s] \in folder[Original] THEN runs[s]
                                ELSE [runs[s] EXCEPT !.status = "queued", !.created = @ + 1]]
    /\ UNCHANGED <<account, side, captured, expired, results, answers, evaluations>>

LoadRuns(p) ==
    /\ IF RunIds \subseteq folder[Original] THEN Step(p, "matched", "polling", {})
                                            ELSE Abort(p, "matched")
    /\ UNCHANGED <<account, side, captured, expired, results, answers, service>>

-----------------------------------------------------------------------------
(***************************************************************************)
(* read_evaluation_runs, for the original and for readers.  Polling a run  *)
(* that is not terminal changes nothing, so only the last poll is a step.  *)
(***************************************************************************)
Poll(p) ==
    LET status == runs[side[p]].status IN
    /\ ~expired[p]
    /\ status \in {"completed", "failed"}
    /\ IF status = "completed" THEN Step(p, "polling", "reading", {}) ELSE Abort(p, "polling")
    /\ UNCHANGED <<account, side, captured, expired, results, answers, service>>

\* The output items, paired and counted (module OutputItems models this).
ReadItems(p) ==
    LET s == side[p] IN
    /\ ~expired[p]
    /\ Step(p, "reading", IF s = "baseline" THEN "polling" ELSE "compared", {})
    /\ results' = [results EXCEPT ![p][s] = runs[s].verdict]
    /\ side' = [side EXCEPT ![p] = "candidate"]
    /\ UNCHANGED <<account, captured, expired, answers, service>>

\* Only the original captures the deployments a second time.
ReadTargetsAgain ==
    /\ Step(Original, "compared", IF live = captured[Original] THEN "checked" ELSE "failed",
            {"targets-after.json"} \cup IF live = captured[Original] THEN {} ELSE {"error.json"})
    /\ UNCHANGED <<account, side, captured, expired, results, answers, service>>

Summarise(p) ==
    /\ Step(p, IF p = Original THEN "checked" ELSE "compared", "summarised", {"summary.json"})
    /\ UNCHANGED <<account, side, captured, expired, results, answers, service>>

Finish(p) ==
    /\ Step(p, "summarised", "finished", {"finished.json"})
    /\ UNCHANGED <<account, side, captured, expired, results, answers, service>>

Return(p) ==
    /\ Step(p, "finished", "done", {})
    /\ UNCHANGED <<account, side, captured, expired, results, answers, service>>

-----------------------------------------------------------------------------
(***************************************************************************)
(* Deadlines, errors, crashes and the cloud.                               *)
(***************************************************************************)
Expire(p) ==
    /\ IF p = Original THEN Active(p) ELSE stage[p] \in {"polling", "reading"}
    /\ expired' = [expired EXCEPT ![p] = TRUE]
    /\ UNCHANGED <<account, stage, side, captured, folder, results, answers, service>>

\* Mutant of DeadlineExceeded: waiting for a run ignores the deadline.
DeadlineExceededOnce(p) ==
    /\ expired[p]
    /\ stage[p] \in Timed \ {"created", "submitted", "polling"}
    /\ stage[p] = "collecting" => Len(answers) < Turns
    /\ Abort(p, stage[p])
    /\ UNCHANGED <<account, side, captured, expired, results, answers, service>>

\* remaining() raises before the next call of a stage that makes calls.
DeadlineExceeded(p) ==
    /\ expired[p]
    /\ stage[p] \in Timed \ {"created", "submitted"}
    /\ stage[p] = "collecting" => Len(answers) < Turns
    /\ Abort(p, stage[p])
    /\ UNCHANGED <<account, side, captured, expired, results, answers, service>>

\* A refused or malformed answer, a scanner finding, an interrupt: at any point,
\* even after finished.json is written.
Fail(p) ==
    /\ Active(p)
    /\ Abort(p, stage[p])
    /\ UNCHANGED <<account, side, captured, expired, results, answers, service>>

Crash(p) ==
    /\ Active(p)
    /\ Step(p, stage[p], "crashed", {})
    /\ UNCHANGED <<account, side, captured, expired, results, answers, service>>

\* The service grades a run with the judge that is deployed at that moment.
Grade(s) ==
    /\ runs[s].status \in {"queued", "in_progress"}
    /\ \/ runs' = [runs EXCEPT ![s].status = "in_progress", ![s].graders = @ \cup {live}]
       \/ /\ runs[s].status = "in_progress"
          /\ \E verdict \in Verdicts :
               runs' = [runs EXCEPT ![s].status = "completed", ![s].verdict = verdict]
       \/ runs' = [runs EXCEPT ![s].status = "failed"]
    /\ UNCHANGED <<account, process, answers, evaluations>>

Redeploy ==
    /\ live < MaxGeneration
    /\ live' = live + 1
    /\ UNCHANGED <<process, answers, service>>

-----------------------------------------------------------------------------
RunExperiment ==
    \/ ReadTargets \/ ResolvePrices \/ WriteManifest \/ RunTurn \/ WriteSamples
    \/ CreateEvaluation \/ WriteEvaluation \/ CreateRun \/ WriteRun \/ ReadTargetsAgain

ResumeExperiment(p) == LoadEvidence(p) \/ MatchTargets(p) \/ LoadRuns(p)

ReadBack(p) ==
    Poll(p) \/ ReadItems(p) \/ Summarise(p) \/ Finish(p) \/ Return(p) \/ DeadlineExceeded(p)

Next ==
    \/ RunExperiment
    \/ \E p \in Readers : ResumeExperiment(p)
    \/ \E p \in Processes : ReadBack(p) \/ Expire(p) \/ Fail(p) \/ Crash(p)
    \/ \E s \in Sides : Grade(s)
    \/ Redeploy

\* Every call has a request timeout, so a process that is not waiting for the
\* cloud goes on; and time passes.  The cloud promises nothing.
Fairness ==
    /\ WF_vars(RunExperiment)
    /\ \A p \in Readers : WF_vars(stage[p] # "idle" /\ ResumeExperiment(p))
    /\ \A p \in Processes : WF_vars(ReadBack(p)) /\ WF_vars(Expire(p))

Spec == Init /\ [][Next]_vars /\ Fairness

-----------------------------------------------------------------------------
(***************************************************************************)
(* Properties.                                                             *)
(***************************************************************************)

\* Every variable stays in its set.
TypeOK ==
    /\ live \in Generations
    /\ stage \in [Processes -> Stages]
    /\ side \in [Processes -> Sides]
    /\ captured \in [Processes -> Generations]
    /\ expired \in [Processes -> BOOLEAN]
    /\ folder \in [Processes -> SUBSET Files]
    /\ results \in [Processes -> [Sides -> Verdicts \cup {Unknown}]]
    /\ answers \in Seq(Generations) /\ Len(answers) <= Turns
    /\ evaluations \in Nat
    /\ runs \in [Sides -> RunStates]

\* Write-ahead order: once the last identifier is on disk, everything a later
\* process loads is on disk too, all turns are recorded, and the runs it names
\* exist (experiments.py:433-470, 654-697).
EvidenceSuffices ==
    RunCreated["candidate"] \in folder[Original] =>
        /\ Captures \cup RunIds \subseteq folder[Original]
        /\ Len(answers) = Turns
        /\ \A s \in Sides : runs[s].status # "absent"

\* Both runs are submitted before polling: whatever the baseline's result is,
\* and even if it fails, the candidate's run exists (experiments.py:454).
BaselineCannotSuppress ==
    \A p \in Processes :
        stage[p] \in {"polling", "reading", "compared"} => runs["candidate"].status # "absent"

\* The evidence outlives the process that made it: what a later process reads is
\* complete, and the candidate was submitted, wherever the original died.
EvidenceOutlives == EvidenceSuffices /\ BaselineCannotSuppress

\* However often it is resumed, an experiment pays for one evaluation and one
\* run per side (docs/demo-guide.md:272).
NothingRepeated ==
    /\ evaluations <= 1
    /\ \A s \in Sides : runs[s].created <= 1

\* Everyone who reports on the experiment reports the same final verdicts.
ReportsAgree ==
    \A p, q \in Processes :
        {"summary.json"} \subseteq folder[p] \cap folder[q] =>
            results[p] = results[q] /\ \A s \in Sides : results[p][s] \in Verdicts

\* To resume, by whomever and however often, is to report on the one experiment
\* that was paid for.
ResumedAsOne == NothingRepeated /\ ReportsAgree

\* A summary names the deployments that really answered: no turn was served by
\* another generation (experiments.py:644-650, 689-691).
AnsweredByTheNamed ==
    \A p \in Processes : "summary.json" \in folder[p] =>
        \A n \in 1..Len(answers) : answers[n] = captured[p]

\* The original's summary names the judge that graded (experiments.py:644-650).
OriginalGradedByTheNamed ==
    "summary.json" \in folder[Original] =>
        \A s \in Sides : runs[s].graders = {captured[Original]}

\* Between its two captures nothing the original names has changed, and a reader
\* that matches the captures names what answered.
NamedTruly == AnsweredByTheNamed /\ OriginalGradedByTheNamed

\* The same for every summary.  experiments.py:691 says a reader "cannot
\* silently relabel the original experiment", and demo-guide.md:254 that both
\* sides are judged by "the same pinned judge".
GradedByTheNamed ==
    \A p \in Processes : "summary.json" \in folder[p] =>
        \A s \in Sides : runs[s].graders = {captured[p]}

\* Every process ends, even if no run ever completes: the deadline covers the
\* whole wait (experiments.py:274-278, 482-488).
EveryProcessEnds ==
    \A p \in Processes : Active(p) ~> ~Active(p)
=============================================================================
