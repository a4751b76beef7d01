----------------------------- MODULE Rehearsal -----------------------------
(***************************************************************************)
(* Rehearsals of the Field app (demo.py): a presenter scales the app from  *)
(* zero to one replica, runs one work order inside the new revision, gives *)
(* the capacity back in a finally block and passes once the cloud is seen  *)
(* at rest and the run's own telemetry has arrived.  A resumed rehearsal   *)
(* finishes recorded evidence and repeats nothing.  Nothing keeps two      *)
(* presenters, or a presenter and a deployment, apart: the app is shared.  *)
(***************************************************************************)
EXTENDS Naturals, FiniteSets

CONSTANTS
    Rehearsals,     \* the presenters' processes, each with its evidence directory
    MaxRevision,    \* bound: revisions of the app
    Scenarios,      \* bound: who rehearses, and how many setbacks and resumptions
                    \* there may be: [crew, faults, resumes]
    None            \* nothing there

ASSUME BoundsAssumption ==
    /\ MaxRevision \in Nat \ {0}
    /\ \A s \in Scenarios : s.faults \in Nat /\ s.resumes \in Nat

VARIABLES
    \* the app in the cloud
    latest,     \* the newest revision
    ready,      \* the newest revision that became ready
    floor,      \* floor[v]: the minimum of replicas revision v was made with
    active,     \* the revisions not yet deactivated
    running,    \* the revisions that have a replica
    deploying,  \* whether a resource-group deployment is under way
    setbacks,   \* how many more templates may be deployed, processes killed, and
                \* runs give a wrong answer or no spans
    resumes,    \* how many more processes may be started again
    \* the rehearsals
    place,      \* the step a process is about to take, or how it ended
    look,       \* what a process that waits for rest reads next
    seen,       \* the revision a process read last
    before,     \* the revision that was ready at first
    failing,    \* processes that an exception is taking through finally
    resumed,    \* processes that were started again with --resume
    executed,   \* executed[r]: the revision field-execution.json names
    inferences, \* inferences[r]: how often the work order was run for r
    wrong,      \* the runs whose answer is not about the work order
    spans,      \* the runs whose spans reach Application Insights
    held,       \* history: the runs whose replica has not stopped since
    stranded    \* processes that died, or failed to scale down, above zero

app == <<latest, ready, floor, active, running>>
cloud == <<app, deploying, setbacks>>
local == <<look, seen, before>>
past == <<resumed, resumes>>
evidence == <<executed, inferences, wrong, spans, held>>
rehearsal == <<cloud, place, local, failing, resumed, resumes, evidence, stranded>>

Revisions == 1 .. MaxRevision
Phases == {"inspect", "deployments", "scaleUp", "revision", "replica", "execute", "check",
          "scaleDown", "rest", "verify", "witness", "telemetry"}
Ends == {"passed", "failed", "dead"}
Scaled == {"revision", "replica", "execute", "check", "scaleDown"}

RehearsalInit ==
    /\ latest = 1 /\ ready = 1 /\ floor = [v \in Revisions |-> 0]
    /\ active = {1} /\ running = {} /\ deploying = FALSE
    /\ \E s \in Scenarios :
          /\ setbacks = s.faults /\ resumes = s.resumes
          /\ place = [r \in Rehearsals |-> IF r \in s.crew THEN "inspect" ELSE "failed"]
    /\ look = [r \in Rehearsals |-> "app"]
    /\ seen = [r \in Rehearsals |-> None]
    /\ before = [r \in Rehearsals |-> None]
    /\ failing = {} /\ resumed = {} /\ stranded = {}
    /\ executed = [r \in Rehearsals |-> None]
    /\ inferences = [r \in Rehearsals |-> 0]
    /\ wrong = {} /\ spans = {} /\ held = {}

-----------------------------------------------------------------------------
(* The container app, as Azure runs it in single-revision mode. *)

\* A template with another minimum is a new revision; the same is no change.
SetFloor(n) ==
    /\ n # floor[latest] => latest < MaxRevision
    /\ latest' = IF n = floor[latest] THEN latest ELSE latest + 1
    /\ floor' = [floor EXCEPT ![latest'] = n]
    /\ active' = active \cup {latest'}
    /\ UNCHANGED <<ready, running>>

\* A new revision starts a replica, and is ready when that answers.
BecomeReady ==
    /\ ready # latest
    /\ ready' = latest /\ running' = running \cup {latest}
    /\ UNCHANGED <<latest, floor, active, deploying, setbacks>>

\* What came before the revision that is ready goes away, some time.
DeactivateOld ==
    /\ active # active \cap ready .. latest
    /\ active' = active \cap ready .. latest
    /\ running' = running \cap ready .. latest
    /\ floor' = [v \in Revisions |-> IF v < ready THEN 0 ELSE floor[v]]
    /\ UNCHANGED <<latest, ready, deploying, setbacks>>

StopReplica(v) ==
    /\ v \in running /\ floor[v] = 0
    /\ running' = running \ {v}
    /\ UNCHANGED <<latest, ready, floor, active, deploying, setbacks>>

StartDeployment ==
    /\ ~ deploying /\ setbacks > 0
    /\ deploying' = TRUE /\ setbacks' = setbacks - 1
    /\ UNCHANGED app

\* container-apps.bicep declares no minimum of replicas.
FinishDeployment ==
    /\ deploying
    /\ SetFloor(0)
    /\ deploying' = FALSE /\ UNCHANGED setbacks

Service ==
    /\ \/ BecomeReady \/ DeactivateOld \/ \E v \in Revisions : StopReplica(v)
       \/ StartDeployment \/ FinishDeployment
    /\ held' = {r \in held : executed[r] \in running'}
    /\ UNCHANGED <<place, local, failing, past, executed, inferences, wrong, spans, stranded>>

-----------------------------------------------------------------------------
(* rehearse_field *)

Moves(r, from, to) == place[r] = from /\ place' = [place EXCEPT ![r] = to]

\* What an ended process knew is gone; its evidence stays.
Forget(r) ==
    /\ seen' = [seen EXCEPT ![r] = None]
    /\ look' = [look EXCEPT ![r] = "app"]
    /\ failing' = failing \ {r}

\* An exception inside the try block goes through finally, outside it ends r.
Throw(r) ==
    /\ place[r] \in {"scaleUp", "revision", "replica", "execute", "check"}
    /\ place' = [place EXCEPT ![r] = "scaleDown"]
    /\ failing' = failing \cup {r}
    /\ UNCHANGED <<cloud, local, past, evidence, stranded>>

Refuse(r) ==
    /\ place[r] \in {"inspect", "deployments", "rest", "verify", "witness", "telemetry"}
    /\ place' = [place EXCEPT ![r] = "failed"]
    /\ Forget(r)
    /\ UNCHANGED <<cloud, before, past, evidence, stranded>>

Inspect(r) ==
    /\ floor[latest] = 0
    /\ Moves(r, "inspect", "deployments")
    /\ before' = [before EXCEPT ![r] = ready]
    /\ UNCHANGED <<cloud, look, seen, failing, past, evidence, stranded>>

\* field-before and field-restoration are written here.
Deployments(r) ==
    /\ ~ deploying
    /\ Moves(r, "deployments", "scaleUp")
    /\ UNCHANGED <<cloud, local, failing, past, evidence, stranded>>

\* The reply may be lost: finally scales down either way.
ScaleUp(r) ==
    /\ Moves(r, "scaleUp", "revision")
    /\ SetFloor(1)
    /\ UNCHANGED <<deploying, setbacks, local, failing, past, evidence, stranded>>

SeeRevision(r) ==
    /\ ready # before[r]
    /\ Moves(r, "revision", "replica")
    /\ seen' = [seen EXCEPT ![r] = ready]
    /\ UNCHANGED <<cloud, look, before, failing, past, evidence, stranded>>

SeeReplica(r) ==
    /\ place[r] = "replica"
    /\ place' = [place EXCEPT ![r] = IF seen[r] \in running THEN "execute" ELSE "revision"]
    /\ UNCHANGED <<cloud, local, failing, past, evidence, stranded>>

\* The smoke program: the model may be wrong, and what its flush of the spans
\* returns is not looked at.
RunSmoke(r) ==
    /\ inferences' = [inferences EXCEPT ![r] = @ + 1]
    /\ \/ spans' = spans \cup {r} /\ UNCHANGED <<wrong, setbacks>>
       \/ /\ setbacks > 0 /\ setbacks' = setbacks - 1
          /\ \/ wrong' = wrong \cup {r} /\ spans' = spans \cup {r}
             \/ UNCHANGED <<wrong, spans>>

\* It runs in the replica of the revision seen; its console may still be lost.
Execute(r) ==
    /\ place[r] = "execute" /\ seen[r] \in running
    /\ RunSmoke(r)
    /\ \/ /\ executed' = [executed EXCEPT ![r] = seen[r]] /\ held' = held \cup {r}
          /\ place' = [place EXCEPT ![r] = "check"] /\ UNCHANGED failing
       \/ /\ place' = [place EXCEPT ![r] = "scaleDown"]
          /\ failing' = failing \cup {r} /\ UNCHANGED <<executed, held>>
    /\ UNCHANGED <<app, deploying, local, past, stranded>>

\* The answer names what the work order is about; otherwise Throw.
CheckAnswer(r) ==
    /\ r \notin wrong
    /\ Moves(r, "check", "scaleDown")
    /\ UNCHANGED <<cloud, local, failing, past, evidence, stranded>>

\* Mutant of ScaleDown: only a successful execution scales down.
ScaleDownWhenDone(r) ==
    /\ IF r \in failing THEN UNCHANGED app ELSE SetFloor(0)
    /\ Moves(r, "scaleDown", "rest")
    /\ look' = [look EXCEPT ![r] = "app"]
    /\ UNCHANGED <<deploying, setbacks, seen, before, failing, past, evidence, stranded>>

ScaleDown(r) ==
    /\ SetFloor(0)
    /\ Moves(r, "scaleDown", "rest")
    /\ look' = [look EXCEPT ![r] = "app"]
    /\ UNCHANGED <<deploying, setbacks, seen, before, failing, past, evidence, stranded>>

\* The command that scales down fails, and its exception replaces the first.
ScaleDownFails(r) ==
    /\ Moves(r, "scaleDown", "failed")
    /\ stranded' = stranded \cup {r}
    /\ Forget(r)
    /\ UNCHANGED <<cloud, before, past, evidence>>

-----------------------------------------------------------------------------
(* _wait_for_restoration: the app, then its revisions and replicas. *)

Waiting(r) == place[r] \in {"rest", "witness"}

AfterRest(r) ==
    CASE place[r] = "witness" -> "telemetry"
      [] r \in failing     -> "failed"
      [] OTHER             -> "verify"

\* A minimum above zero ends the wait (Refuse), a newer revision keeps it up.
LookAtApp(r) ==
    /\ Waiting(r) /\ look[r] = "app"
    /\ floor[latest] = 0 /\ ready = latest
    /\ look' = [look EXCEPT ![r] = "revisions"]
    /\ seen' = [seen EXCEPT ![r] = ready]
    /\ UNCHANGED <<cloud, place, before, failing, past, evidence, stranded>>

\* Mutant of LookAtRevisions: an old revision that is still active is ignored.
LookAtRevisionsBlindly(r) ==
    /\ Waiting(r) /\ look[r] = "revisions"
    /\ look' = [look EXCEPT ![r] = "replicas"]
    /\ UNCHANGED <<cloud, place, seen, before, failing, past, evidence, stranded>>

\* An old revision that is still active makes it look again.
LookAtRevisions(r) ==
    /\ Waiting(r) /\ look[r] = "revisions"
    /\ look' = [look EXCEPT ![r] = IF active \subseteq {seen[r]} THEN "replicas" ELSE "app"]
    /\ UNCHANGED <<cloud, place, seen, before, failing, past, evidence, stranded>>

\* field-restored is written when the revision has no replica; after finally,
\* the exception that led there ends r.
LookAtReplicas(r) ==
    /\ Waiting(r) /\ look[r] = "replicas"
    /\ IF seen[r] \in running
       THEN look' = [look EXCEPT ![r] = "app"] /\ UNCHANGED <<place, seen, failing>>
       ELSE /\ place' = [place EXCEPT ![r] = AfterRest(r)]
            /\ Forget(r)
    /\ UNCHANGED <<cloud, before, past, evidence, stranded>>

-----------------------------------------------------------------------------
(* verify_field_evidence *)

ReadEvidence(r) ==
    /\ executed[r] # None /\ r \notin wrong
    /\ Moves(r, "verify", "witness")
    /\ UNCHANGED <<cloud, local, failing, past, evidence, stranded>>

Telemetry(r) ==
    /\ r \in spans
    /\ Moves(r, "telemetry", "passed")
    /\ UNCHANGED <<cloud, local, failing, past, evidence, stranded>>

\* Mutant of Resume: a resumed rehearsal starts over.
ResumeAfresh(r) ==
    /\ place[r] \in {"failed", "dead"} /\ r \notin resumed /\ before[r] # None
    /\ resumes > 0 /\ resumes' = resumes - 1
    /\ place' = [place EXCEPT ![r] = "scaleUp"]
    /\ resumed' = resumed \cup {r}
    /\ UNCHANGED <<cloud, local, failing, evidence, stranded>>

\* --resume on the evidence directory of a run that failed or was killed.
Resume(r) ==
    /\ place[r] \in {"failed", "dead"} /\ r \notin resumed /\ before[r] # None
    /\ resumes > 0 /\ resumes' = resumes - 1
    /\ place' = [place EXCEPT ![r] = "verify"]
    /\ resumed' = resumed \cup {r}
    /\ UNCHANGED <<cloud, local, failing, evidence, stranded>>

Die(r) ==
    /\ place[r] \notin Ends /\ setbacks > 0
    /\ setbacks' = setbacks - 1
    /\ place' = [place EXCEPT ![r] = "dead"]
    /\ stranded' = IF place[r] \in Scaled THEN stranded \cup {r} ELSE stranded
    /\ Forget(r)
    /\ UNCHANGED <<app, deploying, before, past, evidence>>

-----------------------------------------------------------------------------
\* Every command and request has a timeout, and every wait a deadline.
Act(r) ==
    \/ Inspect(r) \/ Deployments(r) \/ ScaleUp(r) \/ SeeRevision(r) \/ SeeReplica(r)
    \/ Execute(r) \/ CheckAnswer(r) \/ Throw(r) \/ Refuse(r) \/ ScaleDown(r) \/ ScaleDownFails(r)
    \/ LookAtApp(r) \/ LookAtRevisions(r) \/ LookAtReplicas(r)
    \/ ReadEvidence(r) \/ Telemetry(r)

RehearsalNext ==
    \/ Service
    \/ \E r \in Rehearsals : Act(r) \/ Resume(r) \/ Die(r)

RehearsalSpec == RehearsalInit /\ [][RehearsalNext]_rehearsal

\* A deadline ends every wait of a process, and its finally block goes on.
GoOn(r) == Throw(r) \/ Refuse(r) \/ ScaleDown(r) \/ ScaleDownFails(r)
Fairness == \A r \in Rehearsals : WF_rehearsal(GoOn(r))
RehearsalFairSpec == RehearsalSpec /\ Fairness

-----------------------------------------------------------------------------
(* Types: revisions are numbered, and every process is at a step or ended. *)
RehearsalTypes ==
    /\ latest \in Revisions /\ ready \in 1 .. latest /\ floor \in [Revisions -> 0 .. 1]
    /\ running \cup {latest} \subseteq active /\ active \subseteq 1 .. latest
    /\ deploying \in BOOLEAN /\ setbacks \in Nat /\ resumes \in Nat
    /\ place \in [Rehearsals -> Phases \cup Ends]
    /\ look \in [Rehearsals -> {"app", "revisions", "replicas"}]
    /\ seen \in [Rehearsals -> Revisions \cup {None}]
    /\ before \in [Rehearsals -> Revisions \cup {None}]
    /\ failing \subseteq Rehearsals /\ resumed \subseteq Rehearsals
    /\ stranded \subseteq Rehearsals
    /\ executed \in [Rehearsals -> Revisions \cup {None}]
    /\ inferences \in [Rehearsals -> Nat]
    /\ held \subseteq Rehearsals /\ wrong \subseteq Rehearsals
    /\ spans \subseteq Rehearsals

(* demo.py:281-285: the minimum is above zero only while a process is       *)
(* between its scaling up and its finally, or because one was killed or    *)
(* failed there: two presenters never leave it up for each other.          *)
CapacityHasOwner ==
    floor[latest] = 1 => stranded # {} \/ \E r \in Rehearsals : place[r] \in Scaled

(* A passing summary claims no actual replicas (demo.py:335-346): the       *)
(* replica that ran the work order has stopped, though the summary may     *)
(* come from another process, and other rehearsals scale up meanwhile.     *)
PassedReplicaStopped ==
    \A r \in Rehearsals : place[r] = "passed" => r \notin held

(* A rehearsal passes on the one right answer of its own run and on that   *)
(* run's telemetry, also when it is finished by another process.           *)
PassedOnOwnRun ==
    \A r \in Rehearsals :
        place[r] = "passed" => inferences[r] = 1 /\ r \in spans \ wrong

(* Both together are what a passing summary says of its run, and neither   *)
(* the process that writes it nor the other presenters change it.          *)
PassedIsTrue == PassedOnOwnRun /\ PassedReplicaStopped

(* "Finish a recorded execution without repeating inference or scaling"    *)
(* (demo.py:291).                                                          *)
ResumeRepeatsNothing ==
    [][\A r \in resumed : /\ inferences'[r] = inferences[r]
                          /\ place'[r] \notin Scaled]_rehearsal

(* The minimum goes back to zero unless a process was killed or could not  *)
(* scale down, though nothing is assumed of the cloud.                     *)
CapacityGivenBack == floor[latest] = 1 ~> floor[latest] = 0 \/ stranded # {}
=============================================================================
