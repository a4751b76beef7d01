------------------------- MODULE ExperimentProofs -------------------------
(***************************************************************************)
(* Proofs about Experiment, for any number of readers, turns and changes   *)
(* of the deployments.                                                     *)
(***************************************************************************)
EXTENDS Experiment, TLAPS

-----------------------------------------------------------------------------
(* Type correctness. *)

\* Every variable of Experiment stays in its set (experiments.py).
THEOREM TypeCorrect == Spec => []TypeOK
<1>1. Init => TypeOK
  BY ExperimentAssumption DEF Init, TypeOK, Generations, Processes, Stages, Timed, Ended, Sides,
     Files, RunStates, AbsentRun
<1>2. TypeOK /\ [Next]_vars => TypeOK'
  <2> SUFFICES ASSUME TypeOK, [Next]_vars PROVE TypeOK'
    OBVIOUS
  <2>0. /\ Original \in Processes
        /\ Readers \subseteq Processes
        /\ \A s \in Sides : RunCreated[s] \in Files
        /\ {"baseline", "candidate"} = Sides
        /\ Captures \cup Closing \subseteq Files
        /\ "eval.json" \in Files
    BY DEF Processes, Sides, RunCreated, Files, RunIds, Captures, Closing
  <2> USE DEF TypeOK
  <2>1. ASSUME NEW p \in Processes, ReadBack(p) \/ Expire(p) \/ Fail(p) \/ Crash(p)
        PROVE  TypeOK'
    <3>1. stage' \in [Processes -> Stages]
      BY <2>1 DEF ReadBack, Poll, ReadItems, Summarise, Finish, Return, DeadlineExceeded, Expire,
         Fail, Crash, Step, Abort, Stages, Ended, Timed
    <3>2. folder' \in [Processes -> SUBSET Files]
      BY <2>0, <2>1 DEF ReadBack, Poll, ReadItems, Summarise, Finish, Return, DeadlineExceeded,
         Expire, Fail, Crash, Step, Abort, Closing
    <3>3. side' \in [Processes -> Sides] /\ expired' \in [Processes -> BOOLEAN]
      BY <2>0, <2>1 DEF ReadBack, Poll, ReadItems, Summarise, Finish, Return, DeadlineExceeded,
         Expire, Fail, Crash
    <3>4. results' \in [Processes -> [Sides -> Verdicts \cup {Unknown}]]
      <4>1. \A s \in Sides : runs[s].verdict \in Verdicts \cup {Unknown}
        BY DEF RunStates
      <4>2. CASE ReadItems(p)
        BY <4>1, <4>2 DEF ReadItems
      <4>3. CASE ~ReadItems(p)
        BY <2>1, <4>3 DEF ReadBack, Poll, Summarise, Finish, Return, DeadlineExceeded, Expire,
           Fail, Crash
      <4> QED
        BY <4>2, <4>3
    <3>5. UNCHANGED <<account, captured, answers, service>>
      BY <2>1 DEF ReadBack, Poll, ReadItems, Summarise, Finish, Return, DeadlineExceeded, Expire,
         Fail, Crash
    <3> QED
      BY <3>1, <3>2, <3>3, <3>4, <3>5 DEF account, service
  <2>2. ASSUME NEW p \in Readers, ResumeExperiment(p) PROVE TypeOK'
    <3>1. stage' \in [Processes -> Stages]
      BY <2>0, <2>2 DEF ResumeExperiment, LoadEvidence, MatchTargets, LoadRuns, Step, Abort,
         Stages, Ended, Timed
    <3>2. folder' \in [Processes -> SUBSET Files]
      BY <2>0, <2>2 DEF ResumeExperiment, LoadEvidence, MatchTargets, LoadRuns, Step, Abort,
         Captures, Closing
    <3>3. captured' \in [Processes -> Generations]
      BY <2>0, <2>2 DEF ResumeExperiment, LoadEvidence, MatchTargets, LoadRuns
    <3>4. UNCHANGED <<account, side, expired, results, answers, service>>
      BY <2>2 DEF ResumeExperiment, LoadEvidence, MatchTargets, LoadRuns
    <3> QED
      BY <3>1, <3>2, <3>3, <3>4 DEF account, service
  <2>3. CASE RunExperiment
    <3>1. stage' \in [Processes -> Stages]
      BY <2>0, <2>3 DEF RunExperiment, ReadTargets, ResolvePrices, WriteManifest, RunTurn,
         WriteSamples, CreateEvaluation, WriteEvaluation, CreateRun, WriteRun, ReadTargetsAgain,
         Step, Stages, Ended, Timed, process
    <3>2. folder' \in [Processes -> SUBSET Files]
      BY <2>0, <2>3 DEF RunExperiment, ReadTargets, ResolvePrices, WriteManifest, RunTurn,
         WriteSamples, CreateEvaluation, WriteEvaluation, CreateRun, WriteRun, ReadTargetsAgain,
         Step, Captures, Closing, process
    <3>3. side' \in [Processes -> Sides] /\ captured' \in [Processes -> Generations]
      BY <2>0, <2>3 DEF RunExperiment, ReadTargets, ResolvePrices, WriteManifest, RunTurn,
         WriteSamples, CreateEvaluation, WriteEvaluation, CreateRun, WriteRun, ReadTargetsAgain,
         process
    <3>4. answers' \in Seq(Generations) /\ Len(answers') <= Turns
      <4>1. CASE RunTurn
        BY <4>1, ExperimentAssumption DEF RunTurn
      <4>2. CASE ~RunTurn
        BY <2>3, <4>2 DEF RunExperiment, ReadTargets, ResolvePrices, WriteManifest,
           WriteSamples, CreateEvaluation, WriteEvaluation, CreateRun, WriteRun, ReadTargetsAgain
      <4> QED
        BY <4>1, <4>2
    <3>5. evaluations' \in Nat /\ runs' \in [Sides -> RunStates]
      <4>1. CASE CreateRun
        <5> DEFINE r == runs[side[Original]]
        <5>1. side[Original] \in Sides /\ r \in RunStates
          BY <2>0
        <5>2. r.created + 1 \in Nat
          BY <5>1 DEF RunStates
        <5>3. runs' \in [Sides -> RunStates]
          BY <2>0, <4>1, <5>1, <5>2 DEF CreateRun, RunStates
        <5>4. evaluations' \in Nat
          BY <4>1 DEF CreateRun
        <5> QED
          BY <5>3, <5>4
      <4>2. CASE ~CreateRun
        BY <2>3, <4>2 DEF RunExperiment, ReadTargets, ResolvePrices, WriteManifest, RunTurn,
           WriteSamples, CreateEvaluation, WriteEvaluation, WriteRun, ReadTargetsAgain, service
      <4> QED
        BY <4>1, <4>2
    <3>6. UNCHANGED <<account, expired, results>>
      BY <2>3 DEF RunExperiment, ReadTargets, ResolvePrices, WriteManifest, RunTurn,
         WriteSamples, CreateEvaluation, WriteEvaluation, CreateRun, WriteRun, ReadTargetsAgain,
         process
    <3> QED
      BY <3>1, <3>2, <3>3, <3>4, <3>5, <3>6 DEF account
  <2>4. ASSUME NEW s \in Sides, Grade(s) PROVE TypeOK'
    <3>1. runs' \in [Sides -> RunStates]
      <4>1. CASE runs' = [runs EXCEPT ![s].status = "in_progress", ![s].graders = @ \cup {live}]
        <5> DEFINE graded == [runs[s] EXCEPT !.status = "in_progress",
                                             !.graders = @ \cup {live}]
        <5>1. runs[s] \in RunStates /\ live \in Generations
          OBVIOUS
        <5>2. graded \in RunStates
          BY <5>1 DEF RunStates
        <5>3. runs' = [runs EXCEPT ![s] = graded]
          BY <4>1
        <5> HIDE DEF graded
        <5> QED
          BY <5>2, <5>3
      <4>2. CASE \E verdict \in Verdicts :
                   runs' = [runs EXCEPT ![s].status = "completed", ![s].verdict = verdict]
        <5>1. PICK verdict \in Verdicts :
                runs' = [runs EXCEPT ![s].status = "completed", ![s].verdict = verdict]
          BY <4>2
        <5>2. verdict \in Verdicts \cup {Unknown}
          BY <5>1
        <5> DEFINE done == [runs[s] EXCEPT !.status = "completed", !.verdict = verdict]
        <5>3. runs[s] \in RunStates
          OBVIOUS
        <5>4. done \in RunStates
          BY <5>2, <5>3 DEF RunStates
        <5>5. runs' = [runs EXCEPT ![s] = done]
          BY <5>1
        <5> HIDE DEF done
        <5> QED
          BY <5>4, <5>5
      <4>3. CASE runs' = [runs EXCEPT ![s].status = "failed"]
        BY <4>3 DEF RunStates
      <4> QED
        BY <2>4, <4>1, <4>2, <4>3 DEF Grade
    <3> QED
      BY <2>4, <3>1 DEF Grade, account, process
  <2>5. CASE Redeploy
    BY <2>5, ExperimentAssumption DEF Redeploy, Generations, process, service
  <2>6. CASE UNCHANGED vars
    BY <2>6 DEF vars, account, process, service
  <2> QED
    BY <2>1, <2>2, <2>3, <2>4, <2>5, <2>6 DEF Next
<1> QED
  BY <1>1, <1>2, PTL DEF Spec

-----------------------------------------------------------------------------
(***************************************************************************)
(* The evidence is written ahead.  Each file implies the ones before it,   *)
(* and the original's stage implies the files it has behind it.            *)
(***************************************************************************)
Collecting == {"started", "targeted", "priced", "collecting"}
Reporting  == {"polling", "reading", "compared", "checked", "summarised", "finished"}

FilesInOrder ==
    LET F == folder[Original] IN
    /\ "manifest.json" \in F => {"targets.json", "prices.json"} \subseteq F
    /\ "samples.json" \in F => "manifest.json" \in F /\ Len(answers) = Turns
    /\ "eval.json" \in F => "samples.json" \in F
    /\ RunCreated["baseline"] \in F => "eval.json" \in F /\ runs["baseline"].status # "absent"
    /\ RunCreated["candidate"] \in F =>
           RunCreated["baseline"] \in F /\ runs["candidate"].status # "absent"

FilesBehind ==
    LET F == folder[Original]
        at == stage[Original] IN
    /\ at \in Collecting => "samples.json" \notin F
    /\ at \in Collecting \cup {"sampled", "created"} => side[Original] = "baseline"
    /\ at \in {"targeted", "priced"} => "targets.json" \in F
    /\ at = "priced" => "prices.json" \in F
    /\ at = "collecting" => "manifest.json" \in F
    /\ at \in {"sampled", "created"} => "samples.json" \in F
    /\ at \in {"submitting", "submitted"} =>
           "eval.json" \in F /\ (side[Original] = "candidate" => RunCreated["baseline"] \in F)
    /\ at = "submitted" => runs[side[Original]].status # "absent"

ReportersHaveRuns ==
    \A p \in Processes : stage[p] \in Reporting => RunCreated["candidate"] \in folder[Original]

EvidenceInv == FilesInOrder /\ FilesBehind /\ ReportersHaveRuns

\* The evidence is in order at every moment.
LEMMA EvidenceInvariant == Spec => []EvidenceInv
<1>1. Init => EvidenceInv
  BY DEF Init, EvidenceInv, FilesInOrder, FilesBehind, ReportersHaveRuns, Collecting, Reporting,
     Processes
<1>2. TypeOK /\ EvidenceInv /\ [Next]_vars => EvidenceInv'
  <2> SUFFICES ASSUME TypeOK, EvidenceInv, [Next]_vars PROVE EvidenceInv'
    OBVIOUS
  <2>0. Original \in Processes /\ Readers \subseteq Processes /\ Sides = {"baseline", "candidate"}
    BY DEF Processes, Sides
  <2> USE <2>0 DEF TypeOK, EvidenceInv, FilesInOrder, FilesBehind, ReportersHaveRuns, Collecting,
      Reporting, RunCreated, Step, Abort
  <2>1. CASE ReadTargets
    BY <2>1 DEF ReadTargets, service
  <2>2. CASE ResolvePrices
    BY <2>2 DEF ResolvePrices, service
  <2>3. CASE WriteManifest
    BY <2>3 DEF WriteManifest, service
  <2>4. CASE RunTurn
    BY <2>4 DEF RunTurn, process, service
  <2>5. CASE WriteSamples
    BY <2>5 DEF WriteSamples, service
  <2>6. CASE CreateEvaluation
    BY <2>6 DEF CreateEvaluation, service
  <2>7. CASE WriteEvaluation
    BY <2>7 DEF WriteEvaluation, service
  <2>8. CASE CreateRun
    BY <2>8 DEF CreateRun, service
  <2>9. CASE WriteRun
    BY <2>9 DEF WriteRun, service
  <2>10. CASE ReadTargetsAgain
    BY <2>10 DEF ReadTargetsAgain, service
  <2>11. ASSUME NEW p \in Readers, LoadEvidence(p) PROVE EvidenceInv'
    BY <2>11, ExperimentAssumption DEF LoadEvidence, service
  <2>12. ASSUME NEW p \in Readers, MatchTargets(p) PROVE EvidenceInv'
    BY <2>12 DEF MatchTargets, service
  <2>13. ASSUME NEW p \in Readers, LoadRuns(p) PROVE EvidenceInv'
    BY <2>13 DEF LoadRuns, RunIds, service
  <2>14. ASSUME NEW p \in Processes, Poll(p) PROVE EvidenceInv'
    BY <2>14 DEF Poll, service
  <2>15. ASSUME NEW p \in Processes, ReadItems(p) PROVE EvidenceInv'
    BY <2>15 DEF ReadItems, service
  <2>16. ASSUME NEW p \in Processes, Summarise(p) PROVE EvidenceInv'
    BY <2>16 DEF Summarise, service
  <2>17. ASSUME NEW p \in Processes, Finish(p) PROVE EvidenceInv'
    BY <2>17 DEF Finish, service
  <2>18. ASSUME NEW p \in Processes, Return(p) PROVE EvidenceInv'
    BY <2>18 DEF Return, service
  <2>19. ASSUME NEW p \in Processes, DeadlineExceeded(p) PROVE EvidenceInv'
    BY <2>19 DEF DeadlineExceeded, service
  <2>20. ASSUME NEW p \in Processes, Expire(p) PROVE EvidenceInv'
    BY <2>20 DEF Expire, service
  <2>21. ASSUME NEW p \in Processes, Fail(p) PROVE EvidenceInv'
    BY <2>21 DEF Fail, service
  <2>22. ASSUME NEW p \in Processes, Crash(p) PROVE EvidenceInv'
    BY <2>22 DEF Crash, service
  <2>23. ASSUME NEW s \in Sides, Grade(s) PROVE EvidenceInv'
    <3>1. \A t \in Sides : runs[t].status # "absent" => runs'[t].status # "absent"
      BY <2>23 DEF Grade, RunStates
    <3>2. UNCHANGED <<stage, side, folder, answers>>
      BY <2>23 DEF Grade, process
    <3> QED
      BY <3>1, <3>2
  <2>24. CASE Redeploy
    BY <2>24 DEF Redeploy, process, service
  <2>25. CASE UNCHANGED vars
    BY <2>25 DEF vars, process, service
  <2> QED
    BY <2>1, <2>2, <2>3, <2>4, <2>5, <2>6, <2>7, <2>8, <2>9, <2>10, <2>11, <2>12, <2>13, <2>14,
       <2>15, <2>16, <2>17, <2>18, <2>19, <2>20, <2>21, <2>22, <2>23, <2>24, <2>25
       DEF Next, RunExperiment, ResumeExperiment, ReadBack
<1> QED
  BY <1>1, <1>2, TypeCorrect, PTL DEF Spec

\* Whatever crashes or fails, an identifier on disk stands on everything a later
\* process has to load (experiments.py:433-470, 654-704).
THEOREM EvidenceKept == Spec => []EvidenceSuffices
<1>1. EvidenceInv => EvidenceSuffices
  BY DEF EvidenceInv, FilesInOrder, EvidenceSuffices, Captures, RunIds, Sides, RunCreated
<1> QED
  BY <1>1, EvidenceInvariant, PTL

\* No process reads a run before both were submitted (experiments.py:455).
THEOREM BothSubmitted == Spec => []BaselineCannotSuppress
<1>1. EvidenceInv => BaselineCannotSuppress
  BY DEF EvidenceInv, FilesInOrder, ReportersHaveRuns, Reporting, BaselineCannotSuppress
<1> QED
  BY <1>1, EvidenceInvariant, PTL

-----------------------------------------------------------------------------
(***************************************************************************)
(* What has been paid for, by the original's stage.                        *)
(***************************************************************************)
PaidInv ==
    LET at == stage[Original] IN
    /\ NothingRepeated
    /\ at \in Collecting \cup {"sampled"} => evaluations = 0
    /\ at \in Collecting \cup {"sampled", "created"} => \A s \in Sides : runs[s].created = 0
    /\ at = "submitting" => runs[side[Original]].created = 0
    /\ (at \in {"submitting", "submitted"} /\ side[Original] = "baseline") =>
           runs["candidate"].created = 0
    /\ \A s \in Sides : runs[s].status = "absent" <=> runs[s].created = 0

\* The cloud's side of the experiment, at every moment.
LEMMA PaidInvariant == Spec => []PaidInv
<1>1. Init => PaidInv
  BY DEF Init, PaidInv, NothingRepeated, AbsentRun, Collecting, Processes, Closing, Unknown
<1>2. TypeOK /\ TypeOK' /\ EvidenceInv /\ PaidInv /\ [Next]_vars => PaidInv'
  <2> SUFFICES ASSUME TypeOK, TypeOK', EvidenceInv, PaidInv, [Next]_vars PROVE PaidInv'
    OBVIOUS
  <2>0. Original \in Processes /\ Readers \subseteq Processes /\ Original \notin Readers
        /\ Sides = {"baseline", "candidate"}
    BY ExperimentAssumption DEF Processes, Sides
  <2> USE <2>0 DEF TypeOK, EvidenceInv, FilesBehind, PaidInv, NothingRepeated, Collecting, Step,
     Abort, RunStates
  <2>1. CASE ReadTargets
    BY <2>1 DEF ReadTargets, service, account
  <2>2. CASE ResolvePrices
    BY <2>2 DEF ResolvePrices, service, account
  <2>3. CASE WriteManifest
    BY <2>3 DEF WriteManifest, service, account
  <2>4. CASE RunTurn
    BY <2>4 DEF RunTurn, process, service, account
  <2>5. CASE WriteSamples
    BY <2>5 DEF WriteSamples, service, account
  <2>6. CASE CreateEvaluation
    BY <2>6 DEF CreateEvaluation, service, account
  <2>7. CASE WriteEvaluation
    BY <2>7 DEF WriteEvaluation, service, account
  <2>8. CASE CreateRun
    BY <2>8 DEF CreateRun, service, account
  <2>9. CASE WriteRun
    BY <2>9 DEF WriteRun, service, account
  <2>10. CASE ReadTargetsAgain
    BY <2>10 DEF ReadTargetsAgain, service, account
  <2>11. ASSUME NEW p \in Readers, LoadEvidence(p) PROVE PaidInv'
    BY <2>11 DEF LoadEvidence, Captures, service, account
  <2>12. ASSUME NEW p \in Readers, MatchTargets(p) PROVE PaidInv'
    BY <2>12 DEF MatchTargets, service, account
  <2>13. ASSUME NEW p \in Readers, LoadRuns(p) PROVE PaidInv'
    BY <2>13 DEF LoadRuns, RunIds, service, account
  <2>14. ASSUME NEW p \in Processes, Poll(p) PROVE PaidInv'
    BY <2>14 DEF Poll, service, account
  <2>15. ASSUME NEW p \in Processes, ReadItems(p) PROVE PaidInv'
    BY <2>15 DEF ReadItems, service, account
  <2>16. ASSUME NEW p \in Processes, Summarise(p) PROVE PaidInv'
    BY <2>16 DEF Summarise, service, account
  <2>17. ASSUME NEW p \in Processes, Finish(p) PROVE PaidInv'
    BY <2>17 DEF Finish, service, account
  <2>18. ASSUME NEW p \in Processes, Return(p) PROVE PaidInv'
    BY <2>18 DEF Return, service, account
  <2>19. ASSUME NEW p \in Processes, DeadlineExceeded(p) PROVE PaidInv'
    BY <2>19 DEF DeadlineExceeded, service, account
  <2>20. ASSUME NEW p \in Processes, Expire(p) PROVE PaidInv'
    BY <2>20 DEF Expire, service, account
  <2>21. ASSUME NEW p \in Processes, Fail(p) PROVE PaidInv'
    BY <2>21 DEF Fail, service, account
  <2>22. ASSUME NEW p \in Processes, Crash(p) PROVE PaidInv'
    BY <2>22 DEF Crash, service, account
  <2>23. ASSUME NEW s \in Sides, Grade(s) PROVE PaidInv'
    <3>1. \A t \in Sides : /\ runs'[t].created = runs[t].created
                           /\ runs'[t].status = "absent" <=> runs[t].status = "absent"
      BY <2>23 DEF Grade, RunStates
    <3>2. UNCHANGED <<stage, side, evaluations>>
      BY <2>23 DEF Grade, process
    <3> QED
      BY <3>1, <3>2
  <2>24. CASE Redeploy
    BY <2>24 DEF Redeploy, process, service, account
  <2>25. CASE UNCHANGED vars
    BY <2>25 DEF vars, process, service, account
  <2> QED
    BY <2>1, <2>2, <2>3, <2>4, <2>5, <2>6, <2>7, <2>8, <2>9, <2>10, <2>11, <2>12, <2>13, <2>14,
       <2>15, <2>16, <2>17, <2>18, <2>19, <2>20, <2>21, <2>22, <2>23, <2>24, <2>25
       DEF Next, RunExperiment, ResumeExperiment, ReadBack
<1> QED
  BY <1>1, <1>2, TypeCorrect, EvidenceInvariant, PTL DEF Spec

\* An experiment pays once, however often it is resumed (docs/demo-guide.md:272).
THEOREM PaidOnce == Spec => []NothingRepeated
<1>1. PaidInv => NothingRepeated
  BY DEF PaidInv
<1> QED
  BY <1>1, PaidInvariant, PTL

-----------------------------------------------------------------------------
(***************************************************************************)
(* A verdict is final once it can be read.                                 *)
(***************************************************************************)
VerdictInv ==
    /\ \A s \in Sides : runs[s].status = "completed" => runs[s].verdict \in Verdicts
    /\ \A q \in Processes, s \in Sides : results[q][s] # Unknown =>
           runs[s].status = "completed" /\ results[q][s] = runs[s].verdict
    /\ \A q \in Processes : stage[q] = "reading" => runs[side[q]].status = "completed"
    /\ \A q \in Processes : (stage[q] \in {"polling", "reading"} /\ side[q] = "candidate") =>
           results[q]["baseline"] # Unknown
    /\ \A q \in Processes : stage[q] \in {"idle", "loaded", "matched"} => side[q] = "baseline"
    /\ \A q \in Processes :
           (stage[q] \in {"compared", "checked", "summarised"} \/ "summary.json" \in folder[q]) =>
               \A s \in Sides : results[q][s] # Unknown

\* Nothing read is ever taken back.
LEMMA VerdictInvariant == Spec => []VerdictInv
<1>1. Init => VerdictInv
  BY DEF Init, VerdictInv, AbsentRun, Collecting, Processes, Closing, Unknown
<1>2. TypeOK /\ TypeOK' /\ EvidenceInv /\ PaidInv /\ VerdictInv /\ [Next]_vars => VerdictInv'
  <2> SUFFICES ASSUME TypeOK, TypeOK', EvidenceInv, PaidInv, VerdictInv, [Next]_vars
               PROVE  VerdictInv'
    OBVIOUS
  <2>0. Original \in Processes /\ Readers \subseteq Processes /\ Original \notin Readers
        /\ Sides = {"baseline", "candidate"}
    BY ExperimentAssumption DEF Processes, Sides
  <2> USE <2>0 DEF TypeOK, VerdictInv, Step, Abort
  <2>1. CASE ReadTargets
    BY <2>1 DEF ReadTargets, service, account
  <2>2. CASE ResolvePrices
    BY <2>2 DEF ResolvePrices, service, account
  <2>3. CASE WriteManifest
    BY <2>3 DEF WriteManifest, service, account
  <2>4. CASE RunTurn
    BY <2>4 DEF RunTurn, process, service, account
  <2>5. CASE WriteSamples
    BY <2>5 DEF WriteSamples, service, account
  <2>6. CASE CreateEvaluation
    BY <2>6 DEF CreateEvaluation, service, account
  <2>7. CASE WriteEvaluation
    BY <2>7 DEF WriteEvaluation, service, account
  <2>8. CASE CreateRun
    BY <2>8 DEF CreateRun, PaidInv, service, account
  <2>9. CASE WriteRun
    BY <2>9 DEF WriteRun, RunCreated, service, account
  <2>10. CASE ReadTargetsAgain
    BY <2>10 DEF ReadTargetsAgain, service, account
  <2>11. ASSUME NEW p \in Readers, LoadEvidence(p) PROVE VerdictInv'
    BY <2>11 DEF LoadEvidence, Captures, service, account
  <2>12. ASSUME NEW p \in Readers, MatchTargets(p) PROVE VerdictInv'
    BY <2>12 DEF MatchTargets, service, account
  <2>13. ASSUME NEW p \in Readers, LoadRuns(p) PROVE VerdictInv'
    BY <2>13 DEF LoadRuns, RunIds, service, account
  <2>14. ASSUME NEW p \in Processes, Poll(p) PROVE VerdictInv'
    <3>1. CASE runs[side[p]].status = "completed"
      BY <2>14, <3>1 DEF Poll, service, account
    <3>2. CASE runs[side[p]].status # "completed"
      BY <2>14, <3>2 DEF Poll, service, account
    <3> QED
      BY <3>1, <3>2
  <2>15. ASSUME NEW p \in Processes, ReadItems(p) PROVE VerdictInv'
    <3>1. PICK s \in Sides : s = side[p]
      OBVIOUS
    <3>2. runs[s].status = "completed" /\ runs[s].verdict \in Verdicts
      BY <2>15, <3>1 DEF ReadItems
    <3>3. runs[s].verdict # Unknown
      BY <3>2 DEF Verdicts, Unknown
    <3>4. \A q \in Processes, t \in Sides :
            results'[q][t] = IF q = p /\ t = s THEN runs[s].verdict ELSE results[q][t]
      BY <2>15, <3>1 DEF ReadItems
    <3>5. UNCHANGED runs
      BY <2>15 DEF ReadItems, service
    <3>6. s = "candidate" => results[p]["baseline"] # Unknown
      BY <2>15, <3>1 DEF ReadItems
    <3>7. /\ stage' = [stage EXCEPT ![p] = IF s = "baseline" THEN "polling" ELSE "compared"]
          /\ folder' = [folder EXCEPT ![p] = @ \cup {}]
          /\ side' = [side EXCEPT ![p] = "candidate"]
      BY <2>15, <3>1 DEF ReadItems
    <3> QED
      BY <3>1, <3>2, <3>3, <3>4, <3>5, <3>6, <3>7
  <2>16. ASSUME NEW p \in Processes, Summarise(p) PROVE VerdictInv'
    BY <2>16 DEF Summarise, service, account
  <2>17. ASSUME NEW p \in Processes, Finish(p) PROVE VerdictInv'
    BY <2>17 DEF Finish, service, account
  <2>18. ASSUME NEW p \in Processes, Return(p) PROVE VerdictInv'
    BY <2>18 DEF Return, service, account
  <2>19. ASSUME NEW p \in Processes, DeadlineExceeded(p) PROVE VerdictInv'
    BY <2>19 DEF DeadlineExceeded, service, account
  <2>20. ASSUME NEW p \in Processes, Expire(p) PROVE VerdictInv'
    BY <2>20 DEF Expire, service, account
  <2>21. ASSUME NEW p \in Processes, Fail(p) PROVE VerdictInv'
    BY <2>21 DEF Fail, service, account
  <2>22. ASSUME NEW p \in Processes, Crash(p) PROVE VerdictInv'
    BY <2>22 DEF Crash, service, account
  <2>23. ASSUME NEW s \in Sides, Grade(s) PROVE VerdictInv'
    <3>1. \A t \in Sides : runs[t].status = "completed" => runs'[t] = runs[t]
      BY <2>23 DEF Grade, RunStates
    <3>2. \A t \in Sides : runs'[t].status = "completed" => runs'[t].verdict \in Verdicts
      BY <2>23 DEF Grade, RunStates
    <3>3. UNCHANGED <<stage, side, folder, results>>
      BY <2>23 DEF Grade, process
    <3> QED
      BY <3>1, <3>2, <3>3
  <2>24. CASE Redeploy
    BY <2>24 DEF Redeploy, process, service, account
  <2>25. CASE UNCHANGED vars
    BY <2>25 DEF vars, process, service, account
  <2> QED
    BY <2>1, <2>2, <2>3, <2>4, <2>5, <2>6, <2>7, <2>8, <2>9, <2>10, <2>11, <2>12, <2>13, <2>14,
       <2>15, <2>16, <2>17, <2>18, <2>19, <2>20, <2>21, <2>22, <2>23, <2>24, <2>25
       DEF Next, RunExperiment, ResumeExperiment, ReadBack
<1> QED
  BY <1>1, <1>2, TypeCorrect, EvidenceInvariant, PaidInvariant, PTL DEF Spec

\* Everyone reports the same, final verdicts (experiments.py:473-513).
THEOREM ReportsAreOne == Spec => []ReportsAgree
<1>1. TypeOK /\ VerdictInv => ReportsAgree
  <2> SUFFICES ASSUME TypeOK, VerdictInv, NEW q \in Processes, NEW r \in Processes,
                      "summary.json" \in folder[q], "summary.json" \in folder[r]
               PROVE  results[q] = results[r] /\ \A s \in Sides : results[q][s] \in Verdicts
    BY DEF ReportsAgree
  <2>1. \A s \in Sides : /\ results[q][s] = runs[s].verdict
                         /\ results[r][s] = runs[s].verdict
                         /\ runs[s].verdict \in Verdicts
    BY DEF VerdictInv
  <2>2. results[q] \in [Sides -> Verdicts \cup {Unknown}]
        /\ results[r] \in [Sides -> Verdicts \cup {Unknown}]
    BY DEF TypeOK
  <2> QED
    BY <2>1, <2>2
<1> QED
  BY <1>1, TypeCorrect, VerdictInvariant, PTL

-----------------------------------------------------------------------------
(***************************************************************************)
(* Generations only grow, so two readings that agree enclose everything    *)
(* that happened between them.                                             *)
(***************************************************************************)
Reported(q) ==
    \/ "summary.json" \in folder[q]
    \/ stage[q] \in IF q = Original THEN {"checked", "summarised"}
                                    ELSE {"matched"} \cup Reporting

\* Every answer came from the deployments q captured.
Enclosed(q) ==
    /\ "samples.json" \in folder[Original]
    /\ \A n \in 1..Len(answers) : answers[n] = captured[q]

GenerationInv ==
    /\ stage[Original] = "started" => answers = <<>> /\ folder[Original] = {}
    /\ captured[Original] <= live
    /\ \A n \in 1..Len(answers) : captured[Original] <= answers[n] /\ answers[n] <= live
    /\ \A q \in Readers : stage[q] = "idle" => "summary.json" \notin folder[q]
    /\ \A q \in Readers : stage[q] = "loaded" =>
           captured[q] = captured[Original] /\ "samples.json" \in folder[Original]
    /\ \A q \in Processes : Reported(q) => Enclosed(q)

\* A step of one process that reports nothing new keeps the order.
LEMMA GenerationFrame ==
    ASSUME NEW p \in Processes, GenerationInv, UNCHANGED <<live, captured, answers>>,
           \A q \in Processes \ {p} : stage'[q] = stage[q] /\ folder'[q] = folder[q],
           folder[p] \subseteq folder'[p],
           "summary.json" \in folder'[p] <=> "summary.json" \in folder[p],
           stage'[p] \notin {"started", "idle", "loaded"},
           Reported(p)' => Reported(p) \/ Enclosed(p)
    PROVE  GenerationInv'
<1>0. Original \in Processes /\ Readers \subseteq Processes
  BY DEF Processes
<1>1. \A q \in Processes : Reported(q)' => Enclosed(q)
  <2>1. \A q \in Processes \ {p} : Reported(q)' => Reported(q)
    BY DEF Reported
  <2> QED
    BY <2>1 DEF GenerationInv, Enclosed
<1>2. "samples.json" \in folder[Original] => "samples.json" \in folder'[Original]
  BY <1>0
<1>3. \A q \in Processes : stage'[q] \in {"started", "idle", "loaded"} =>
          stage'[q] = stage[q] /\ folder'[q] = folder[q]
  OBVIOUS
<1>4. /\ stage'[Original] = "started" => answers' = <<>> /\ folder'[Original] = {}
      /\ captured'[Original] <= live'
      /\ \A n \in 1..Len(answers') : captured'[Original] <= answers'[n] /\ answers'[n] <= live'
  BY <1>0, <1>3 DEF GenerationInv
<1>5. \A q \in Readers : stage'[q] = "idle" => "summary.json" \notin folder'[q]
  BY <1>0, <1>3 DEF GenerationInv
<1>6. \A q \in Readers : stage'[q] = "loaded" =>
          captured'[q] = captured'[Original] /\ "samples.json" \in folder'[Original]
  BY <1>0, <1>2, <1>3 DEF GenerationInv
<1>7. \A q \in Processes : Reported(q)' => Enclosed(q)'
  BY <1>1, <1>2 DEF Enclosed
<1> QED
  BY <1>4, <1>5, <1>6, <1>7 DEF GenerationInv

\* What was captured, what answered and what is deployed keep their order.
LEMMA GenerationInvariant == Spec => []GenerationInv
<1>1. Init => GenerationInv
  BY DEF Init, GenerationInv, Reported, Reporting, Collecting, Step, Abort, Generations,
     AbsentRun, Collecting, Processes, Closing, Unknown
<1>2. TypeOK /\ TypeOK' /\ EvidenceInv /\ GenerationInv /\ [Next]_vars => GenerationInv'
  <2> SUFFICES ASSUME TypeOK, TypeOK', EvidenceInv, GenerationInv, [Next]_vars PROVE GenerationInv'
    OBVIOUS
  <2>0. Original \in Processes /\ Readers \subseteq Processes /\ Original \notin Readers
        /\ Sides = {"baseline", "candidate"}
    BY ExperimentAssumption DEF Processes, Sides
  <2> USE <2>0 DEF TypeOK, GenerationInv, Enclosed, Reported, Reporting, Collecting, Step, Abort,
     Generations
  <2>1. CASE ReadTargets
    BY SMTT(30), <2>1 DEF ReadTargets, service, account
  <2>2. CASE ResolvePrices
    BY <2>2 DEF ResolvePrices, service, account
  <2>3. CASE WriteManifest
    BY <2>3 DEF WriteManifest, service, account
  <2>4. CASE RunTurn
    <3>0. /\ live \in Nat /\ \A q \in Processes : captured[q] \in Nat
          /\ \A n \in 1..Len(answers) : answers[n] \in Nat
      BY SMTT(30), ExperimentAssumption
    <3>1. /\ Len(answers') = Len(answers) + 1
          /\ \A n \in 1..Len(answers') :
                answers'[n] = IF n = Len(answers) + 1 THEN live ELSE answers[n]
      BY SMTT(30), <2>4 DEF RunTurn
    <3>2. UNCHANGED <<stage, captured, folder, live>> /\ stage[Original] = "collecting"
      BY <2>4 DEF RunTurn, process, account
    <3>3. "samples.json" \notin folder[Original]
      BY <3>2 DEF EvidenceInv, FilesBehind
    <3>4. \A n \in 1..Len(answers') : captured[Original] <= answers'[n] /\ answers'[n] <= live
      <4> SUFFICES ASSUME NEW n \in 1..Len(answers')
                   PROVE  captured[Original] <= answers'[n] /\ answers'[n] <= live
        OBVIOUS
      <4>0. captured[Original] <= live
        OBVIOUS
      <4>1. CASE n = Len(answers) + 1
        <5>1. answers'[n] = live
          BY <3>1, <4>1
        <5> QED
          BY <3>0, <4>0, <5>1
      <4>2. CASE n \in 1..Len(answers)
        <5>1. answers'[n] = answers[n]
          BY <3>1, <4>2
        <5> QED
          BY <4>2, <5>1
      <4> QED
        BY <3>1, <4>1, <4>2
    <3> QED
      BY <3>2, <3>3, <3>4
  <2>5. CASE WriteSamples
    BY <2>5 DEF WriteSamples, service, account
  <2>6. CASE CreateEvaluation
    BY <2>6 DEF CreateEvaluation, service, account
  <2>7. CASE WriteEvaluation
    BY <2>7 DEF WriteEvaluation, service, account
  <2>8. CASE CreateRun
    <3>1. /\ UNCHANGED <<live, captured, answers>> /\ stage[Original] = "submitting"
          /\ \A q \in Processes \ {Original} : stage'[q] = stage[q] /\ folder'[q] = folder[q]
          /\ folder'[Original] = folder[Original] /\ stage'[Original] = "submitted"
      BY <2>8 DEF CreateRun, account
    <3> HIDE DEF GenerationInv, TypeOK
    <3> QED
      BY <3>1, GenerationFrame
  <2>9. CASE WriteRun
    <3>1. \A q \in Processes : "summary.json" \in folder'[q] <=> "summary.json" \in folder[q]
      BY <2>9 DEF WriteRun, RunCreated
    <3>2. /\ stage[Original] = "submitted" /\ stage'[Original] \in {"submitting", "polling"}
          /\ \A q \in Readers : stage'[q] = stage[q]
          /\ folder[Original] \subseteq folder'[Original]
          /\ UNCHANGED <<live, captured, answers>>
      BY <2>9 DEF WriteRun, account
    <3> QED
      BY <3>1, <3>2 DEF Processes
  <2>10. CASE ReadTargetsAgain
    <3>0. /\ live \in Nat /\ \A q \in Processes : captured[q] \in Nat
          /\ \A n \in 1..Len(answers) : answers[n] \in Nat
      BY SMTT(30), ExperimentAssumption
    <3>1. "samples.json" \in folder[Original] /\ folder[Original] \subseteq folder'[Original]
      BY <2>10 DEF ReadTargetsAgain, EvidenceInv, FilesInOrder, ReportersHaveRuns
    <3>2. CASE live = captured[Original]
      <4>1. \A n \in 1..Len(answers) : answers[n] = captured[Original]
        BY <3>0, <3>2
      <4> QED
        BY <2>10, <3>1, <3>2, <4>1 DEF ReadTargetsAgain, service, account
    <3>3. CASE live # captured[Original]
      BY <2>10, <3>1, <3>3 DEF ReadTargetsAgain, service, account
    <3> QED
      BY <3>2, <3>3
  <2>11. ASSUME NEW p \in Readers, LoadEvidence(p) PROVE GenerationInv'
    <3>1. /\ UNCHANGED <<live, answers>> /\ stage[p] = "idle"
          /\ captured' = [captured EXCEPT ![p] = captured[Original]]
          /\ \A q \in Processes \ {p} : stage'[q] = stage[q] /\ folder'[q] = folder[q]
          /\ "summary.json" \in folder'[p] <=> "summary.json" \in folder[p]
          /\ \/ stage'[p] = "loaded" /\ "samples.json" \in folder[Original]
             \/ stage'[p] = "failed"
      BY <2>11 DEF LoadEvidence, Captures, account
    <3>2. "summary.json" \notin folder[p]
      BY <3>1
    <3> QED
      BY <3>1, <3>2
  <2>12. ASSUME NEW p \in Readers, MatchTargets(p) PROVE GenerationInv'
    <3>0. /\ live \in Nat /\ \A q \in Processes : captured[q] \in Nat
          /\ \A n \in 1..Len(answers) : answers[n] \in Nat
      BY SMTT(30), ExperimentAssumption
    <3>a. /\ UNCHANGED <<live, captured, answers>> /\ stage[p] = "loaded"
          /\ \A q \in Processes \ {p} : stage'[q] = stage[q] /\ folder'[q] = folder[q]
          /\ "summary.json" \in folder'[p] <=> "summary.json" \in folder[p]
          /\ stage'[p] \in {"matched", "failed"} /\ folder[p] \subseteq folder'[p]
          /\ stage'[p] = "matched" => live = captured[p]
      BY <2>12 DEF MatchTargets, account
    <3>1. CASE live = captured[p]
      <4>1. captured[p] = captured[Original] /\ "samples.json" \in folder[Original]
        BY <3>a
      <4>2. \A n \in 1..Len(answers) : answers[n] = captured[p]
        BY <3>0, <3>1, <4>1
      <4>3. Enclosed(p)
        BY <4>1, <4>2
      <4> HIDE DEF GenerationInv, TypeOK, Reported, Enclosed
      <4> QED
        BY <3>a, <4>3, GenerationFrame
    <3>2. CASE live # captured[p]
      BY <3>a, <3>2
    <3> QED
      BY <3>1, <3>2
  <2>13. ASSUME NEW p \in Readers, LoadRuns(p) PROVE GenerationInv'
    <3>1. /\ UNCHANGED <<live, captured, answers>> /\ stage[p] = "matched"
          /\ \A q \in Processes \ {p} : stage'[q] = stage[q] /\ folder'[q] = folder[q]
          /\ folder[p] \subseteq folder'[p]
          /\ "summary.json" \in folder'[p] <=> "summary.json" \in folder[p]
          /\ stage'[p] \in {"polling", "failed"}
      BY <2>13 DEF LoadRuns, account
    <3> HIDE DEF GenerationInv, TypeOK
    <3> QED
      BY <3>1, GenerationFrame
  <2>14. ASSUME NEW p \in Processes, Poll(p) PROVE GenerationInv'
    <3>1. /\ UNCHANGED <<live, captured, answers>> /\ stage[p] = "polling"
          /\ \A q \in Processes \ {p} : stage'[q] = stage[q] /\ folder'[q] = folder[q]
          /\ folder[p] \subseteq folder'[p]
          /\ "summary.json" \in folder'[p] <=> "summary.json" \in folder[p]
          /\ stage'[p] \in {"reading", "failed"}
      BY <2>14 DEF Poll, account
    <3> HIDE DEF GenerationInv, TypeOK
    <3> QED
      BY <3>1, GenerationFrame
  <2>15. ASSUME NEW p \in Processes, ReadItems(p) PROVE GenerationInv'
    <3>1. /\ UNCHANGED <<live, captured, answers, folder>> /\ stage[p] = "reading"
          /\ \A q \in Processes \ {p} : stage'[q] = stage[q]
          /\ stage'[p] \in {"polling", "compared"}
      BY <2>15 DEF ReadItems, account
    <3> QED
      BY <3>1
  <2>16. ASSUME NEW p \in Processes, Summarise(p) PROVE GenerationInv'
    BY <2>16 DEF Summarise, service, account
  <2>17. ASSUME NEW p \in Processes, Finish(p) PROVE GenerationInv'
    BY <2>17 DEF Finish, service, account
  <2>18. ASSUME NEW p \in Processes, Return(p) PROVE GenerationInv'
    BY <2>18 DEF Return, service, account
  <2>19. ASSUME NEW p \in Processes, DeadlineExceeded(p) PROVE GenerationInv'
    <3>1. /\ UNCHANGED <<live, captured, answers>> /\ stage'[p] = "failed"
          /\ \A q \in Processes \ {p} : stage'[q] = stage[q] /\ folder'[q] = folder[q]
          /\ folder[p] \subseteq folder'[p]
          /\ "summary.json" \in folder'[p] <=> "summary.json" \in folder[p]
      BY <2>19 DEF DeadlineExceeded, account
    <3> HIDE DEF GenerationInv, TypeOK
    <3> QED
      BY <3>1, GenerationFrame
  <2>20. ASSUME NEW p \in Processes, Expire(p) PROVE GenerationInv'
    BY <2>20 DEF Expire, service, account
  <2>21. ASSUME NEW p \in Processes, Fail(p) PROVE GenerationInv'
    BY <2>21 DEF Fail, service, account
  <2>22. ASSUME NEW p \in Processes, Crash(p) PROVE GenerationInv'
    BY <2>22 DEF Crash, service, account
  <2>23. ASSUME NEW s \in Sides, Grade(s) PROVE GenerationInv'
    BY <2>23 DEF Grade, process, service, account
  <2>24. CASE Redeploy
    <3>0. /\ live \in Nat /\ \A q \in Processes : captured[q] \in Nat
          /\ \A n \in 1..Len(answers) : answers[n] \in Nat
      BY SMTT(30), ExperimentAssumption
    <3>1. UNCHANGED <<stage, captured, answers, folder>> /\ live' = live + 1
      BY <2>24 DEF Redeploy, process
    <3>2. captured[Original] <= live'
          /\ \A n \in 1..Len(answers) : captured[Original] <= answers[n] /\ answers[n] <= live'
      BY <3>0, <3>1
    <3> QED
      BY <3>1, <3>2
  <2>25. CASE UNCHANGED vars
    BY <2>25 DEF vars, process, service, account
  <2> QED
    BY <2>1, <2>2, <2>3, <2>4, <2>5, <2>6, <2>7, <2>8, <2>9, <2>10, <2>11, <2>12, <2>13, <2>14,
       <2>15, <2>16, <2>17, <2>18, <2>19, <2>20, <2>21, <2>22, <2>23, <2>24, <2>25
       DEF Next, RunExperiment, ResumeExperiment, ReadBack
<1> QED
  BY <1>1, <1>2, TypeCorrect, EvidenceInvariant, PTL DEF Spec

\* A summary names the deployments that answered (experiments.py:644-650, 688-698).
THEOREM AnswersNamed == Spec => []AnsweredByTheNamed
<1>1. GenerationInv => AnsweredByTheNamed
  BY DEF GenerationInv, Reported, Enclosed, AnsweredByTheNamed
<1> QED
  BY <1>1, GenerationInvariant, PTL

-----------------------------------------------------------------------------
(* The judges of the original's runs. *)

GraderInv ==
    /\ \A s \in Sides : \A g \in runs[s].graders : captured[Original] <= g /\ g <= live
    /\ \A s \in Sides : runs[s].status = "absent" => runs[s].graders = {}
    /\ \A s \in Sides : runs[s].status \in {"in_progress", "completed"} => runs[s].graders # {}
    /\ Reported(Original) => \A s \in Sides : /\ runs[s].status = "completed"
                                             /\ runs[s].graders = {captured[Original]}

\* A step that touches no run and reports nothing new keeps the judges.
LEMMA GraderFrame ==
    ASSUME GraderInv, UNCHANGED <<live, runs>>, captured'[Original] = captured[Original],
           Reported(Original)' => Reported(Original)
    PROVE  GraderInv'
BY DEF GraderInv

\* A completed run was graded between the two captures.
LEMMA GraderInvariant == Spec => []GraderInv
<1>1. Init => GraderInv
  BY DEF Init, GraderInv, Reported, Reporting, Step, Abort, Generations, AbsentRun, Collecting,
     Processes, Closing, Unknown
<1>2. TypeOK /\ TypeOK' /\ EvidenceInv /\ PaidInv /\ VerdictInv /\ GenerationInv
         /\ GraderInv /\ [Next]_vars => GraderInv'
  <2> SUFFICES ASSUME TypeOK, TypeOK', EvidenceInv, PaidInv, VerdictInv,
                      GenerationInv, GraderInv, [Next]_vars
               PROVE  GraderInv'
    OBVIOUS
  <2>0. Original \in Processes /\ Readers \subseteq Processes /\ Original \notin Readers
        /\ Sides = {"baseline", "candidate"}
    BY ExperimentAssumption DEF Processes, Sides
  <2> USE <2>0 DEF TypeOK, GraderInv, Reported, Reporting, Step, Abort, Generations
  <2>1. CASE ReadTargets
    <3>1. \A s \in Sides : runs[s].graders = {}
      BY <2>1 DEF ReadTargets, PaidInv, Collecting
    <3> QED
      BY <2>1, <3>1 DEF ReadTargets, EvidenceInv, FilesInOrder, FilesBehind, GenerationInv,
         service,
         account
  <2>2. CASE ResolvePrices
    BY <2>2 DEF ResolvePrices, service, account
  <2>3. CASE WriteManifest
    BY <2>3 DEF WriteManifest, service, account
  <2>4. CASE RunTurn
    BY <2>4 DEF RunTurn, process, service, account
  <2>5. CASE WriteSamples
    BY <2>5 DEF WriteSamples, service, account
  <2>6. CASE CreateEvaluation
    BY <2>6 DEF CreateEvaluation, service, account
  <2>7. CASE WriteEvaluation
    BY <2>7 DEF WriteEvaluation, service, account
  <2>8. CASE CreateRun
    <3>1. PICK t \in Sides : t = side[Original]
      OBVIOUS
    <3>2. runs[t].status = "absent"
      BY <2>8, <3>1 DEF CreateRun, PaidInv
    <3>3. /\ \A r \in Sides : runs'[r].graders = runs[r].graders
          /\ \A r \in Sides \ {t} : runs'[r] = runs[r]
          /\ runs'[t].status = "queued"
      <4>1. runs' = [runs EXCEPT ![t].status = "queued", ![t].created = @ + 1]
        BY <2>8, <3>1 DEF CreateRun
      <4>2. runs'[t] = [runs[t] EXCEPT !.status = "queued", !.created = @ + 1]
        BY <4>1
      <4>3. runs[t] \in RunStates
        BY <3>1
      <4>4. runs'[t].graders = runs[t].graders /\ runs'[t].status = "queued"
        BY <4>2, <4>3 DEF RunStates
      <4> QED
        BY <4>1, <4>4
    <3>4. /\ UNCHANGED <<captured, live>>
          /\ folder'[Original] = folder[Original] /\ stage'[Original] = "submitted"
      BY <2>8 DEF CreateRun, account
    <3> QED
      BY <3>2, <3>3, <3>4
  <2>9. CASE WriteRun
    <3>1. "summary.json" \in folder'[Original] <=> "summary.json" \in folder[Original]
      BY <2>9 DEF WriteRun, RunCreated
    <3>2. /\ UNCHANGED <<captured, live, runs>>
          /\ stage'[Original] \in {"submitting", "polling"}
      BY <2>9 DEF WriteRun, account, service
    <3> QED
      BY <3>1, <3>2
  <2>10. CASE ReadTargetsAgain
    <3>0. /\ live \in Nat /\ captured[Original] \in Nat
          /\ \A t \in Sides : \A g \in runs[t].graders : g \in Nat
      BY ExperimentAssumption DEF RunStates
    <3>1. UNCHANGED <<captured, live, runs>>
      BY <2>10 DEF ReadTargetsAgain, account, service
    <3>2. CASE live = captured[Original]
      <4>1. \A t \in Sides : runs[t].status = "completed"
        BY <2>10 DEF ReadTargetsAgain, VerdictInv
      <4>2. \A t \in Sides : \A g \in runs[t].graders : g = captured[Original]
        BY <3>0, <3>2
      <4>3. \A t \in Sides : runs[t].graders = {captured[Original]}
        BY <4>1, <4>2
      <4> QED
        BY <3>1, <4>1, <4>3
    <3>3. CASE live # captured[Original]
      BY <2>10, <3>1, <3>3 DEF ReadTargetsAgain
    <3> QED
      BY <3>2, <3>3
  <2>11. ASSUME NEW p \in Readers, LoadEvidence(p) PROVE GraderInv'
    <3>1. /\ UNCHANGED <<live, runs>> /\ captured'[Original] = captured[Original]
          /\ stage'[Original] = stage[Original] /\ folder'[Original] = folder[Original]
      BY <2>11 DEF LoadEvidence, account, service
    <3> QED
      BY <3>1
  <2>12. ASSUME NEW p \in Readers, MatchTargets(p) PROVE GraderInv'
    <3>1. /\ UNCHANGED <<live, runs, captured>>
          /\ stage'[Original] = stage[Original] /\ folder'[Original] = folder[Original]
      BY <2>12 DEF MatchTargets, service, account
    <3> HIDE DEF GraderInv, TypeOK
    <3> QED
      BY <3>1, GraderFrame
  <2>13. ASSUME NEW p \in Readers, LoadRuns(p) PROVE GraderInv'
    <3>1. /\ UNCHANGED <<live, runs, captured>>
          /\ stage'[Original] = stage[Original] /\ folder'[Original] = folder[Original]
      BY <2>13 DEF LoadRuns, service, account
    <3> HIDE DEF GraderInv, TypeOK
    <3> QED
      BY <3>1, GraderFrame
  <2>14. ASSUME NEW p \in Processes, Poll(p) PROVE GraderInv'
    BY <2>14 DEF Poll, service, account
  <2>15. ASSUME NEW p \in Processes, ReadItems(p) PROVE GraderInv'
    BY <2>15 DEF ReadItems, service, account
  <2>16. ASSUME NEW p \in Processes, Summarise(p) PROVE GraderInv'
    BY <2>16 DEF Summarise, service, account
  <2>17. ASSUME NEW p \in Processes, Finish(p) PROVE GraderInv'
    BY <2>17 DEF Finish, service, account
  <2>18. ASSUME NEW p \in Processes, Return(p) PROVE GraderInv'
    BY <2>18 DEF Return, service, account
  <2>19. ASSUME NEW p \in Processes, DeadlineExceeded(p) PROVE GraderInv'
    BY <2>19 DEF DeadlineExceeded, service, account
  <2>20. ASSUME NEW p \in Processes, Expire(p) PROVE GraderInv'
    BY <2>20 DEF Expire, service, account
  <2>21. ASSUME NEW p \in Processes, Fail(p) PROVE GraderInv'
    BY <2>21 DEF Fail, service, account
  <2>22. ASSUME NEW p \in Processes, Crash(p) PROVE GraderInv'
    BY <2>22 DEF Crash, service, account
  <2>23. ASSUME NEW s \in Sides, Grade(s) PROVE GraderInv'
    <3>0. /\ live \in Nat /\ captured[Original] \in Nat
          /\ \A t \in Sides : \A g \in runs[t].graders : g \in Nat
      BY ExperimentAssumption DEF RunStates
    <3>1. \A t \in Sides : t # s => runs'[t] = runs[t]
      BY <2>23 DEF Grade
    <3>2. /\ \A g \in runs'[s].graders : g \in runs[s].graders \/ g = live
          /\ runs'[s].status # "absent"
          /\ runs'[s].status \in {"in_progress", "completed"} => runs'[s].graders # {}
      <4>0. runs[s] \in RunStates
        OBVIOUS
      <4>1. CASE runs'[s] = [runs[s] EXCEPT !.status = "in_progress", !.graders = @ \cup {live}]
        BY <4>0, <4>1 DEF RunStates
      <4>2. ASSUME NEW verdict \in Verdicts, runs[s].status = "in_progress",
                   runs'[s] = [runs[s] EXCEPT !.status = "completed", !.verdict = verdict]
            PROVE  runs'[s].status = "completed" /\ runs'[s].graders = runs[s].graders
        BY <4>0, <4>2 DEF RunStates
      <4>3. CASE runs'[s] = [runs[s] EXCEPT !.status = "failed"]
        BY <4>0, <4>3 DEF RunStates
      <4> QED
        BY <2>23, <4>1, <4>2, <4>3 DEF Grade
    <3>3. UNCHANGED <<captured, live, stage, folder>> /\ runs[s].status # "completed"
      BY <2>23 DEF Grade, account, process
    <3>4. \A t \in Sides : \A g \in runs'[t].graders : captured[Original] <= g /\ g <= live
      BY <3>0, <3>1, <3>2 DEF GenerationInv
    <3> QED
      BY <3>1, <3>2, <3>3, <3>4
  <2>24. CASE Redeploy
    <3>0. /\ live \in Nat /\ captured[Original] \in Nat
          /\ \A t \in Sides : \A g \in runs[t].graders : g \in Nat
      BY ExperimentAssumption DEF RunStates
    <3>1. UNCHANGED <<captured, runs, stage, folder>> /\ live' = live + 1
      BY <2>24 DEF Redeploy, process, service
    <3>2. \A t \in Sides : \A g \in runs[t].graders : captured[Original] <= g /\ g <= live'
      BY <3>0, <3>1
    <3> QED
      BY <3>1, <3>2
  <2>25. CASE UNCHANGED vars
    BY <2>25 DEF vars, process, service, account
  <2> QED
    BY <2>1, <2>2, <2>3, <2>4, <2>5, <2>6, <2>7, <2>8, <2>9, <2>10, <2>11, <2>12, <2>13, <2>14,
       <2>15, <2>16, <2>17, <2>18, <2>19, <2>20, <2>21, <2>22, <2>23, <2>24, <2>25
       DEF Next, RunExperiment, ResumeExperiment, ReadBack
<1> QED
  BY <1>1, <1>2, TypeCorrect, EvidenceInvariant, PaidInvariant, VerdictInvariant,
     GenerationInvariant, PTL DEF Spec

\* The original's summary names the judge that graded (experiments.py:644-650).
THEOREM JudgeNamed == Spec => []OriginalGradedByTheNamed
<1>1. GraderInv => OriginalGradedByTheNamed
  BY DEF GraderInv, Reported, OriginalGradedByTheNamed
<1> QED
  BY <1>1, GraderInvariant, PTL

-----------------------------------------------------------------------------
\* Wherever a process dies, the folder is one a later process can go on from, and
\* the candidate was submitted before anything was read (experiments.py:455-482).
THEOREM EvidenceIsEnough == Spec => []EvidenceOutlives
<1>1. EvidenceSuffices /\ BaselineCannotSuppress => EvidenceOutlives
  BY DEF EvidenceOutlives
<1> QED
  BY <1>1, EvidenceKept, BothSubmitted, PTL

\* Any number of readers resume one experiment: nothing is generated or graded
\* twice, and all summaries say the same (docs/demo-guide.md:272).
THEOREM ResumedAsTheOne == Spec => []ResumedAsOne
<1>1. NothingRepeated /\ ReportsAgree => ResumedAsOne
  BY DEF ResumedAsOne
<1> QED
  BY <1>1, PaidOnce, ReportsAreOne, PTL

\* Though deployments change at any time, a summary names those that answered, and
\* the original's the judge that graded (experiments.py:644-650).
THEOREM SummariesName == Spec => []NamedTruly
<1>1. AnsweredByTheNamed /\ OriginalGradedByTheNamed => NamedTruly
  BY DEF NamedTruly
<1> QED
  BY <1>1, AnswersNamed, JudgeNamed, PTL
=============================================================================
