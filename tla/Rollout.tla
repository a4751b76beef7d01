------------------------------- MODULE Rollout -------------------------------
(***************************************************************************)
(* The deployment workflow of the Travel agent, .github/workflows/         *)
(* travel.yml, over the resources infra/travel.bicep declares.  A release  *)
(* (the major version of the agent definition) is a bundle of an identity, *)
(* a container app and a project connection; an agent version reaches its  *)
(* tools through the connection of its release, by name, for as long as it *)
(* exists.  Run n of the workflow builds image n and generates credential  *)
(* n.  Runs exclude one another (the concurrency group), but a resource    *)
(* deployment goes on in the cloud after the run that submitted it died.   *)
(***************************************************************************)
EXTENDS Naturals, FiniteSets

CONSTANTS Releases,     \* the majors definition_version may take
          MaxRuns,      \* how often the workflow is dispatched
          None          \* nothing there

Runs == 1 .. MaxRuns

(* A run's plan; what it deploys, and the agent version it creates. *)
Plans == [release : Releases, rotate : BOOLEAN,
          image : Runs \cup {None}, previous : Releases \cup {None}]
Apps == [image : Runs, key : Runs]
Versions == [release : Releases, image : Runs]
Jobs == [version : Runs, image : Runs, enabled : BOOLEAN]

ASSUME RunsAssumption == MaxRuns \in Nat \ {0}
ASSUME NoneAssumption ==
    /\ None \notin Releases /\ None \notin Nat
    /\ None \notin Plans /\ None \notin Apps /\ None \notin Versions /\ None \notin Jobs

VARIABLES
    runs,           \* runs dispatched so far; the last one is the current run
    pc,             \* the step the current run is about to take, or "idle"
    plan,           \* plan[n]: what run n was asked and what it resolved
    stage,          \* stage[n]: what the deployments run n submitted did so far
    identities,     \* releases that have an identity
    apps,           \* apps[r]: image and credential of release r's container app
    connections,    \* connections[r]: the credential release r's connection sends
    created,        \* created[n]: the agent version run n created
    passed,         \* the versions that passed the evaluation
    retired,        \* the versions whose bundle an operator removed
    finished,       \* the runs that ended in success
    job             \* the traffic job

vars == <<runs, pc, plan, stage, identities, apps, connections, created,
          passed, retired, finished, job>>
bundles == <<identities, apps, connections>>
history == <<created, passed, retired, finished>>

Steps == {"admit", "resolve", "submit", "deploy", "verify", "candidate",
          "evaluate", "submitJob", "job", "retain", "boundary"}
Active == {"identity", "app", "connection", "job"}
Stages == {"none", "tool", "done", "failed"} \cup Active

-----------------------------------------------------------------------------
(* What a run sees *)

Connected == {r \in Releases : connections[r] # None}
Deployed == {r \in Releases : apps[r] # None}

Release(n) == plan[n].release

\* Mutant of Reconciles: a partial deployment of another release is tolerated.
ReconcilesPartly(r) ==
    /\ Deployed = identities
    /\ Connected \subseteq Deployed

(* Apps and identities agree, every connection has both, and only the
   release being deployed may still lack its connection. *)
Reconciles(r) ==
    /\ Deployed = identities
    /\ Connected \subseteq Deployed
    /\ Deployed \ Connected \subseteq {r}

CanRotate(n) ==
    /\ plan[n].rotate
    /\ Reconciles(Release(n))
    /\ Cardinality(Connected) \in 1 .. 2
    /\ Release(n) \in Connected

\* Mutant of CanStart: a release that exists may be deployed again.
CanStartAgain(n) ==
    /\ ~ plan[n].rotate
    /\ Reconciles(Release(n))
    /\ Cardinality(Connected) \in 0 .. 1

CanStart(n) ==
    /\ ~ plan[n].rotate
    /\ Reconciles(Release(n))
    /\ Cardinality(Connected) \in 0 .. 1
    /\ Release(n) \notin Connected

Other(n) ==
    IF Connected \ {Release(n)} = {} THEN None
    ELSE CHOOSE r \in Connected : r # Release(n)

-----------------------------------------------------------------------------
Init ==
    /\ runs = 0
    /\ pc = "idle"
    /\ plan = [n \in Runs |-> None]
    /\ stage = [n \in Runs |-> "none"]
    /\ identities = {}
    /\ apps = [r \in Releases |-> None]
    /\ connections = [r \in Releases |-> None]
    /\ created = [n \in Runs |-> None]
    /\ passed = {}
    /\ retired = {}
    /\ finished = {}
    /\ job = None

(* An operator dispatches the workflow on some commit, whose definition has
   release r; the image is built from it before anything is resolved. *)
Dispatch(r, rotate) ==
    /\ pc = "idle"
    /\ runs < MaxRuns
    /\ runs' = runs + 1
    /\ pc' = "admit"
    /\ plan' = [plan EXCEPT ![runs + 1] =
                   [release |-> r, rotate |-> rotate, image |-> None, previous |-> None]]
    /\ UNCHANGED <<stage, bundles, history, job>>

\* Mutant of Admit: active deployments are not looked for.
AdmitAlways ==
    /\ pc = "admit"
    /\ pc' = "resolve"
    /\ UNCHANGED <<runs, plan, stage, bundles, history, job>>

(* "Refuse concurrent resource-group deployments": nothing a dead run left
   behind may still be deploying. *)
Admit ==
    /\ pc = "admit"
    /\ pc' = IF \E n \in Runs : stage[n] \in Active THEN "idle" ELSE "resolve"
    /\ UNCHANGED <<runs, plan, stage, bundles, history, job>>

(* "Resolve immutable tool release": a new release takes the image just
   built, a rotation keeps the live one, everything else is refused. *)
ResolveNew ==
    /\ pc = "resolve"
    /\ CanStart(runs)
    /\ plan' = [plan EXCEPT ![runs].image = runs, ![runs].previous = Other(runs)]
    /\ pc' = "submit"
    /\ UNCHANGED <<runs, stage, bundles, history, job>>

ResolveRotation ==
    /\ pc = "resolve"
    /\ CanRotate(runs)
    /\ plan' = [plan EXCEPT ![runs].image = apps[Release(runs)].image,
                            ![runs].previous = Other(runs)]
    /\ pc' = "submit"
    /\ UNCHANGED <<runs, stage, bundles, history, job>>

Refuse ==
    /\ pc = "resolve"
    /\ ~ CanStart(runs) /\ ~ CanRotate(runs)
    /\ pc' = "idle"
    /\ UNCHANGED <<runs, plan, stage, bundles, history, job>>

(* The credential is generated and the tool service submitted to the cloud. *)
SubmitTool ==
    /\ pc = "submit"
    /\ stage' = [stage EXCEPT ![runs] = "identity"]
    /\ pc' = "deploy"
    /\ UNCHANGED <<runs, plan, bundles, history, job>>

(* The cloud works through the template's dependencies. *)
DeployIdentity(n) ==
    /\ stage[n] = "identity"
    /\ identities' = identities \cup {Release(n)}
    /\ stage' = [stage EXCEPT ![n] = "app"]
    /\ UNCHANGED <<runs, pc, plan, apps, connections, history, job>>

DeployApp(n) ==
    /\ stage[n] = "app"
    /\ apps' = [apps EXCEPT ![Release(n)] = [image |-> plan[n].image, key |-> n]]
    /\ stage' = [stage EXCEPT ![n] = "connection"]
    /\ UNCHANGED <<runs, pc, plan, identities, connections, history, job>>

DeployConnection(n) ==
    /\ stage[n] = "connection"
    /\ connections' = [connections EXCEPT ![Release(n)] = n]
    /\ stage' = [stage EXCEPT ![n] = "tool"]
    /\ UNCHANGED <<runs, pc, plan, identities, apps, history, job>>

DeployJob(n) ==
    /\ stage[n] = "job"
    /\ job' = [version |-> n, image |-> plan[n].image, enabled |-> FALSE]
    /\ stage' = [stage EXCEPT ![n] = "done"]
    /\ UNCHANGED <<runs, pc, plan, bundles, history>>

FailDeployment(n) ==
    /\ stage[n] \in Active
    /\ stage' = [stage EXCEPT ![n] = "failed"]
    /\ UNCHANGED <<runs, pc, plan, bundles, history, job>>

AwaitTool ==
    /\ pc = "deploy"
    /\ stage[runs] \in {"tool", "failed"}
    /\ pc' = IF stage[runs] = "tool" THEN "verify" ELSE "idle"
    /\ UNCHANGED <<runs, plan, stage, bundles, history, job>>

(* The operations answer to this run's credential and to nothing else. *)
Verify ==
    /\ pc = "verify"
    /\ pc' = CASE apps[Release(runs)].key # runs -> "idle"
               [] plan[runs].rotate              -> "boundary"
               [] OTHER                          -> "candidate"
    /\ UNCHANGED <<runs, plan, stage, bundles, history, job>>

CreateCandidate ==
    /\ pc = "candidate"
    /\ Release(runs) \in Connected
    /\ created' = [created EXCEPT ![runs] =
                      [release |-> Release(runs), image |-> apps[Release(runs)].image]]
    /\ pc' = "evaluate"
    /\ UNCHANGED <<runs, plan, stage, bundles, passed, retired, finished, job>>

\* Mutant of PassEvaluation: the workflow goes on without the evaluation.
PassEvaluationLate ==
    /\ pc = "evaluate"
    /\ passed' = passed
    /\ pc' = "submitJob"
    /\ UNCHANGED <<runs, plan, stage, bundles, created, retired, finished, job>>

PassEvaluation ==
    /\ pc = "evaluate"
    /\ passed' = passed \cup {runs}
    /\ pc' = "submitJob"
    /\ UNCHANGED <<runs, plan, stage, bundles, created, retired, finished, job>>

SubmitJob ==
    /\ pc = "submitJob"
    /\ stage' = [stage EXCEPT ![runs] = "job"]
    /\ pc' = "job"
    /\ UNCHANGED <<runs, plan, bundles, history, job>>

AwaitJob ==
    /\ pc = "job"
    /\ stage[runs] \in {"done", "failed"}
    /\ pc' = IF stage[runs] = "done" THEN "retain" ELSE "idle"
    /\ UNCHANGED <<runs, plan, stage, bundles, history, job>>

(* "Retain preceding tool release for rollback": nothing is removed. *)
Retain ==
    /\ pc = "retain"
    /\ plan[runs].previous # Release(runs)
    /\ pc' = "boundary"
    /\ UNCHANGED <<runs, plan, stage, bundles, history, job>>

Finish ==
    /\ pc = "boundary"
    /\ finished' = finished \cup {runs}
    /\ pc' = "idle"
    /\ UNCHANGED <<runs, plan, stage, bundles, created, passed, retired, job>>

(* A step fails, the runner is lost, or the job's time is up; what was
   submitted goes on. *)
Stop ==
    /\ pc # "idle"
    /\ pc' = "idle"
    /\ UNCHANGED <<runs, plan, stage, bundles, history, job>>

(* A separate reviewed change removes a whole bundle, between runs. *)
Retire(r) ==
    /\ pc = "idle"
    /\ \A n \in Runs : stage[n] \notin Active
    /\ r \in identities
    /\ identities' = identities \ {r}
    /\ apps' = [apps EXCEPT ![r] = None]
    /\ connections' = [connections EXCEPT ![r] = None]
    /\ retired' = retired \cup {n \in Runs : created[n] # None /\ Release(n) = r}
    /\ UNCHANGED <<runs, pc, plan, stage, created, passed, finished, job>>

(* An operator turns the traffic's maintenance switch. *)
Switch ==
    /\ job # None
    /\ job' = [job EXCEPT !.enabled = ~ job.enabled]
    /\ UNCHANGED <<runs, pc, plan, stage, bundles, history>>

Workflow ==
    \/ Admit \/ ResolveNew \/ ResolveRotation \/ Refuse
    \/ SubmitTool \/ AwaitTool \/ Verify
    \/ CreateCandidate \/ PassEvaluation \/ SubmitJob \/ AwaitJob
    \/ Retain \/ Finish \/ Stop

Cloud ==
    \E n \in Runs : \/ DeployIdentity(n) \/ DeployApp(n) \/ DeployConnection(n)
                    \/ DeployJob(n) \/ FailDeployment(n)

Operator ==
    \/ \E r \in Releases, rotate \in BOOLEAN : Dispatch(r, rotate)
    \/ \E r \in Releases : Retire(r)
    \/ Switch

Next == Workflow \/ Cloud \/ Operator

Spec == Init /\ [][Next]_vars

-----------------------------------------------------------------------------
(* Properties *)

(* Types: every release, image, credential and job stays in its set. *)
TypeOK ==
    /\ runs \in 0 .. MaxRuns
    /\ pc \in Steps \cup {"idle"}
    /\ plan \in [Runs -> Plans \cup {None}]
    /\ stage \in [Runs -> Stages]
    /\ identities \subseteq Releases
    /\ apps \in [Releases -> Apps \cup {None}]
    /\ connections \in [Releases -> Runs \cup {None}]
    /\ created \in [Runs -> Versions \cup {None}]
    /\ passed \subseteq Runs /\ retired \subseteq Runs /\ finished \subseteq Runs
    /\ job \in Jobs \cup {None}

(* travel.yml never has more than two tool releases in the cloud, counting the
   parts of an unfinished one, whatever runs die, fail or are repeated. *)
AtMostTwoReleases == Cardinality(identities \cup Deployed \cup Connected) <= 2

(* "Re-running an existing release is refused because changing its image would
   alter previous agent versions": a version whose bundle nobody removed calls
   the very image it was created, smoke-tested and evaluated against. *)
VersionsKeepTheirBackend ==
    \A n \in Runs : created[n] # None /\ n \notin retired =>
        /\ Release(n) \in Connected
        /\ apps[Release(n)] # None
        /\ apps[Release(n)].image = created[n].image

(* A backend and its connection hold different credentials only after a run
   that did not finish: when the run that set the app's credential ended in
   success, the connection sends that credential. *)
FinishedRunsAgreeOnTheKey ==
    \A r \in Releases : apps[r] # None /\ apps[r].key \in finished =>
        connections[r] = apps[r].key

(* The traffic job only ever runs a version that passed the evaluation, with
   the image that version was evaluated against, even when a deployment of the
   job outlives its run. *)
JobRunsAccepted ==
    job # None => /\ job.version \in passed
                  /\ created[job.version] # None
                  /\ created[job.version].image = job.image

(* A run about to finish leaves exactly the release it deployed and the one
   that was there before, so a rollback finds all its dependencies. *)
RollbackRetained ==
    pc \in {"retain", "boundary"} =>
        /\ Connected = {Release(runs)} \cup ({plan[runs].previous} \ {None})
        /\ Connected = Deployed

(* Of all releases the cloud holds two at most, and a run about to finish has
   those two complete. *)
ReleasesRetained == AtMostTwoReleases /\ RollbackRetained

(* A version that was kept can be called: its backend is the one it was made
   with, and its connection sends that backend's credential. *)
VersionsServeAsMade == VersionsKeepTheirBackend /\ FinishedRunsAgreeOnTheKey

(* No rotation and no late deployment changes the image of a connected release,
   and while a deployment goes on nothing at all happens to the release it is
   to replace. *)
ConnectedReleasesKept ==
    [][\A r \in Connected :
          /\ apps'[r] # None => apps'[r].image = apps[r].image
          /\ (\E n \in Runs : stage[n] \in Active /\ plan[n].previous = r) =>
                 apps'[r] = apps[r] /\ connections'[r] = connections[r]]_vars

(* docs/agents/travel.md, "Evaluation and promotion" 7: the job is updated
   "without changing its ... persistent maintenance settings". *)
MaintenanceSwitchPersists ==
    [][job # None /\ job'.version # job.version => job'.enabled = job.enabled]_vars
=============================================================================
