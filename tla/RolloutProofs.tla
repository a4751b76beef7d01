--------------------------- MODULE RolloutProofs ---------------------------
(***************************************************************************)
(* Theorems of Rollout for any set of releases and any number of runs.     *)
(* At most one deployment is under way, and a run past its admission is    *)
(* alone with its own (Control); everything but the target of that         *)
(* deployment is a complete bundle, the one to be retained (Others); what  *)
(* the target is made of follows the stages (Target).  The properties are  *)
(* read off these.                                                         *)
(***************************************************************************)
EXTENDS Rollout, FiniteSetTheorems, TLAPS

Act(n) == stage[n] \in Active

Underway == {"submit", "deploy", "verify", "candidate", "evaluate", "submitJob",
             "job", "retain", "boundary"}
Quiet == {"resolve", "submit", "verify", "candidate", "evaluate", "submitJob",
          "retain", "boundary"}
Served == {"verify", "candidate", "evaluate", "submitJob", "job", "retain", "boundary"}

(* Runs that did not happen yet left no trace. *)
Fresh ==
    \A n \in Runs : n > runs => /\ stage[n] = "none"
                                /\ created[n] = None
                                /\ n \notin finished

(* The current run is planned, resolved before it deploys, and unfinished. *)
Current ==
    /\ pc # "idle" => runs \in Runs /\ plan[runs] # None /\ runs \notin finished
    /\ pc \in Underway => plan[runs].image # None
    /\ pc \in {"admit", "resolve", "submit", "deploy", "verify", "candidate"} =>
           created[runs] = None

(* Deployments belong to dispatched, resolved runs that did not finish. *)
Deploying ==
    \A n \in Runs : Act(n) => /\ n <= runs
                              /\ plan[n] # None
                              /\ plan[n].image # None
                              /\ n \notin finished

(* One deployment at a time, and none but one's own once admitted. *)
Alone ==
    /\ \A n, m \in Runs : Act(n) /\ Act(m) => n = m
    /\ pc \in Quiet => \A n \in Runs : ~ Act(n)
    /\ pc \in {"deploy", "job"} => \A n \in Runs : Act(n) => n = runs

(* The current run's deployment is as far as its steps say. *)
Paced ==
    /\ pc \in {"admit", "resolve", "submit"} => stage[runs] = "none"
    /\ pc = "deploy" => stage[runs] \in {"identity", "app", "connection", "tool", "failed"}
    /\ pc \in {"verify", "candidate", "evaluate", "submitJob"} => stage[runs] = "tool"
    /\ pc = "job" => stage[runs] \in {"job", "done", "failed"}
    /\ pc = "retain" => stage[runs] = "done"

Control == Fresh /\ Current /\ Deploying /\ Alone /\ Paced

(* Apart from the release run n deploys, only the one it is to retain exists,
   and that one entirely. *)
OnlyPrevious(n) ==
    /\ plan[n].previous # Release(n)
    /\ \A r \in Releases \ {Release(n)} :
          /\ r \in identities <=> r = plan[n].previous
          /\ r \in Deployed <=> r = plan[n].previous
          /\ r \in Connected <=> r = plan[n].previous

Others ==
    /\ pc \in Underway => OnlyPrevious(runs)
    /\ \A n \in Runs : Act(n) => OnlyPrevious(n)

(* At any time all there is belongs to two releases. *)
AtMostTwo ==
    \E a, b \in Releases \cup {None} : identities \cup Deployed \cup Connected \subseteq {a, b}

(* A release that is deployed anew is not connected yet; one that is rotated
   is, and keeps its image. *)
Resolved(n) ==
    IF plan[n].rotate
    THEN /\ Release(n) \in Connected
         /\ apps[Release(n)] # None
         /\ apps[Release(n)].image = plan[n].image
    ELSE Release(n) \notin Connected

(* What run n deployed is in place. *)
Installed(n) ==
    /\ apps[Release(n)] = [image |-> plan[n].image, key |-> n]
    /\ connections[Release(n)] = n

Target ==
    /\ pc = "submit" => Resolved(runs)
    /\ \A n \in Runs : stage[n] \in {"identity", "app", "connection"} => Resolved(n)
    /\ \A n \in Runs : stage[n] = "connection" =>
          apps[Release(n)] = [image |-> plan[n].image, key |-> n]
    /\ pc = "deploy" /\ stage[runs] = "tool" => Installed(runs)
    /\ pc \in Served => Installed(runs)

(* The job, deployed or about to be, is of an accepted version. *)
JobReady(n) ==
    /\ n \in passed
    /\ created[n] # None
    /\ created[n].image = plan[n].image

Accepted ==
    /\ pc \in {"evaluate", "submitJob"} =>
          created[runs] # None /\ created[runs].image = plan[runs].image
    /\ pc = "submitJob" => runs \in passed
    /\ \A n \in Runs : stage[n] = "job" => JobReady(n)
    /\ JobRunsAccepted
    /\ job # None => stage[job.version] = "done"

(* Credentials are those of the runs that set them. *)
Keys ==
    /\ \A r \in Releases : apps[r] # None =>
          /\ apps[r].key <= runs
          /\ plan[apps[r].key] # None
          /\ Release(apps[r].key) = r
    /\ \A n \in Runs : created[n] # None => plan[n] # None /\ n <= runs
    /\ FinishedRunsAgreeOnTheKey

IInv ==
    /\ TypeOK /\ Control /\ Others /\ AtMostTwo /\ Target /\ VersionsKeepTheirBackend
    /\ Accepted /\ Keys

-----------------------------------------------------------------------------
(* Lemmas about the operators *)

(* The release kept aside is a release, or there is none. *)
LEMMA OtherTyped ==
    ASSUME NEW n \in Runs
    PROVE  Other(n) \in Releases \cup {None}
BY DEF Other, Connected

(* A planned run's plan is complete. *)
LEMMA PlanTyped ==
    ASSUME TypeOK, NEW n \in Runs, plan[n] # None
    PROVE  /\ plan[n] \in Plans
           /\ plan[n] = [release |-> plan[n].release, rotate |-> plan[n].rotate,
                         image |-> plan[n].image, previous |-> plan[n].previous]
           /\ Release(n) \in Releases
           /\ plan[n].rotate \in BOOLEAN
           /\ plan[n].image \in Runs \cup {None}
           /\ plan[n].previous \in Releases \cup {None}
<1>1. plan[n] \in Plans
  BY DEF TypeOK
<1> QED
  BY <1>1 DEF Plans, Release

(* A plan, an app, an agent version or a job is something. *)
LEMMA NotNone ==
    /\ None \notin Plans /\ None \notin Runs /\ None \notin Releases
    /\ \A i, k \in Runs : [image |-> i, key |-> k] # None
    /\ \A r \in Releases, i \in Runs : [release |-> r, image |-> i] # None
<1>1. \A i, k \in Runs : [image |-> i, key |-> k] \in Apps
  BY DEF Apps
<1>2. \A r \in Releases, i \in Runs : [release |-> r, image |-> i] \in Versions
  BY DEF Versions
<1> QED
  BY <1>1, <1>2, NoneAssumption, RunsAssumption DEF Runs

(* An app that is there has an image and a credential. *)
LEMMA AppTyped ==
    ASSUME TypeOK, NEW r \in Releases, apps[r] # None
    PROVE  /\ apps[r].image \in Runs
           /\ apps[r].key \in Runs
           /\ apps[r] = [image |-> apps[r].image, key |-> apps[r].key]
<1>1. apps[r] \in Apps
  BY DEF TypeOK
<1> QED
  BY <1>1 DEF Apps

(* Resolving fills in the image and the release to retain. *)
LEMMA Resolving ==
    ASSUME TypeOK, runs \in Runs, plan[runs] # None,
           NEW i \in Runs, NEW p \in Releases \cup {None},
           plan' = [plan EXCEPT ![runs].image = i, ![runs].previous = p]
    PROVE  /\ plan' \in [Runs -> Plans \cup {None}]
           /\ plan'[runs] \in Plans
           /\ plan'[runs].release = plan[runs].release
           /\ plan'[runs].rotate = plan[runs].rotate
           /\ plan'[runs].image = i
           /\ plan'[runs].previous = p
           /\ \A n \in Runs \ {runs} : plan'[n] = plan[n]
<1> DEFINE first == [plan[runs] EXCEPT !.image = i]
           new == [first EXCEPT !.previous = p]
<1>1. plan[runs] \in Plans /\ plan \in [Runs -> Plans \cup {None}]
  BY DEF TypeOK
<1>2. /\ first \in Plans
      /\ first.release = plan[runs].release /\ first.rotate = plan[runs].rotate
      /\ first.image = i
  BY <1>1 DEF Plans
<1>3. /\ new \in Plans
      /\ new.release = plan[runs].release /\ new.rotate = plan[runs].rotate
      /\ new.image = i /\ new.previous = p
  BY <1>2 DEF Plans
<1>4. plan' = [plan EXCEPT ![runs] = new]
  BY <1>1
<1> HIDE DEF first, new
<1>5. plan' \in [Runs -> Plans \cup {None}]
  BY <1>1, <1>3, <1>4
<1>6. plan'[runs] = new
  BY <1>1, <1>4
<1>7. \A n \in Runs \ {runs} : plan'[n] = plan[n]
  BY <1>1, <1>4
<1> QED
  BY <1>3, <1>5, <1>6, <1>7

(* It keeps which run deploys what. *)
LEMMA ResolvingKeeps ==
    ASSUME TypeOK, runs \in Runs, plan[runs] # None,
           \/ ResolveNew \/ ResolveRotation
    PROVE  /\ \A n \in Runs : plan'[n].release = plan[n].release
           /\ \A n \in Runs : plan[n] # None => plan'[n] # None
<1>1. PICK i \in Runs : plan' = [plan EXCEPT ![runs].image = i, ![runs].previous = Other(runs)]
  <2>1. CASE ResolveNew
    BY <2>1 DEF ResolveNew
  <2>2. CASE ResolveRotation
    <3>1. apps[Release(runs)] # None /\ Release(runs) \in Releases
      BY <2>2 DEF ResolveRotation, CanRotate, Reconciles, Connected, Deployed
    <3>2. apps[Release(runs)].image \in Runs
      BY <3>1, AppTyped
    <3> QED
      BY <2>2, <3>2 DEF ResolveRotation
  <2> QED
    BY <2>1, <2>2
<1>2. /\ plan'[runs] \in Plans /\ plan'[runs].release = plan[runs].release
      /\ \A n \in Runs \ {runs} : plan'[n] = plan[n]
  BY <1>1, OtherTyped, Resolving
<1> QED
  BY <1>2, NotNone

(* Submitting touches the deployments of this run alone. *)
LEMMA SubmitFrame ==
    ASSUME TypeOK, runs \in Runs, SubmitTool \/ SubmitJob
    PROVE  \A n \in Runs \ {runs} : stage'[n] = stage[n]
<1>1. CASE SubmitTool
  BY <1>1 DEF SubmitTool, TypeOK
<1>2. CASE SubmitJob
  BY <1>2 DEF SubmitJob, TypeOK
<1> QED
  BY <1>1, <1>2

(* A rotation keeps the image of the app it rotates. *)
LEMMA RotationKeepsImage ==
    ASSUME TypeOK, runs \in Runs, plan[runs] # None,
           apps[Release(runs)].image \in Runs, ResolveRotation
    PROVE  /\ plan'[runs].release = plan[runs].release
           /\ plan'[runs].rotate = plan[runs].rotate
           /\ plan'[runs].image = apps[Release(runs)].image
<1>1. plan' = [plan EXCEPT ![runs].image = apps[Release(runs)].image,
                           ![runs].previous = Other(runs)]
  BY DEF ResolveRotation
<1>2. Other(runs) \in Releases \cup {None}
  BY OtherTyped
<1> QED
  BY <1>1, <1>2, Resolving

-----------------------------------------------------------------------------
(* Each part of the invariant, one action at a time *)

(* Every variable stays in its set. *)
LEMMA TypesKept ==
    ASSUME IInv, [Next]_vars
    PROVE  TypeOK'
<1> USE RunsAssumption DEF IInv, TypeOK, bundles, history, Apps, Versions, Jobs, Runs, Steps,
   Stages, Active, Plans, Release
<1>1. CASE Admit \/ Refuse \/ Stop
  BY <1>1 DEF Admit, Refuse, Stop
<1>2. CASE AwaitTool \/ AwaitJob
  BY <1>2 DEF AwaitTool, AwaitJob
<1>3. CASE Verify \/ Retain
  BY <1>3 DEF Verify, Retain
<1>4. CASE ResolveNew
  <2>1. runs \in Runs /\ plan[runs] # None
    BY <1>4 DEF ResolveNew, Control, Current
  <2>2. plan' \in [Runs -> Plans \cup {None}]
    BY <1>4, <2>1, OtherTyped, Resolving DEF ResolveNew
  <2> QED
    BY <1>4, <2>2 DEF ResolveNew
<1>5. CASE ResolveRotation
  <2>1. runs \in Runs /\ plan[runs] # None
    BY <1>5 DEF ResolveRotation, Control, Current
  <2>2. apps[Release(runs)] # None /\ Release(runs) \in Releases
    BY <1>5 DEF ResolveRotation, CanRotate, Reconciles, Deployed, Connected
  <2>3. apps[Release(runs)].image \in Runs
    BY <2>2, AppTyped
  <2>4. plan' \in [Runs -> Plans \cup {None}]
    BY <1>5, <2>1, <2>3, OtherTyped, Resolving DEF ResolveRotation
  <2> QED
    BY <1>5, <2>4 DEF ResolveRotation
<1>6. CASE SubmitTool \/ SubmitJob
  BY <1>6 DEF SubmitTool, SubmitJob
<1>7. CASE CreateCandidate
  <2>1. runs \in Runs /\ plan[runs] # None /\ Installed(runs) /\ plan[runs].image # None
    BY <1>7 DEF CreateCandidate, Control, Current, Target, Served, Underway
  <2>2. Release(runs) \in Releases /\ apps[Release(runs)].image \in Runs
    BY <2>1, PlanTyped DEF Installed
  <2> QED
    BY <1>7, <2>1, <2>2 DEF CreateCandidate
<1>8. CASE PassEvaluation \/ Finish
  <2>1. runs \in Runs
    BY <1>8 DEF PassEvaluation, Finish, Control, Current
  <2> QED
    BY <1>8, <2>1 DEF PassEvaluation, Finish
<1>9. CASE Switch
  BY <1>9 DEF Switch
<1>10. CASE UNCHANGED vars
  BY <1>10 DEF vars
<1>11. ASSUME NEW r \in Releases, NEW rotate \in BOOLEAN, Dispatch(r, rotate) PROVE TypeOK'
  BY <1>11 DEF Dispatch
<1>12. ASSUME NEW n \in Runs, DeployIdentity(n) PROVE TypeOK'
  <2>1. plan[n] # None
    BY <1>12 DEF DeployIdentity, Control, Deploying, Act
  <2>2. Release(n) \in Releases
    BY <2>1, PlanTyped
  <2> QED
    BY <1>12, <2>2 DEF DeployIdentity
<1>13. ASSUME NEW n \in Runs, DeployApp(n) PROVE TypeOK'
  <2>1. plan[n] # None /\ plan[n].image # None
    BY <1>13 DEF DeployApp, Control, Deploying, Act
  <2>2. [image |-> plan[n].image, key |-> n] \in Apps
    BY <2>1, PlanTyped
  <2> QED
    BY <1>13, <2>2 DEF DeployApp
<1>14. ASSUME NEW n \in Runs, DeployConnection(n) PROVE TypeOK'
  BY <1>14 DEF DeployConnection
<1>15. ASSUME NEW n \in Runs, DeployJob(n) PROVE TypeOK'
  <2>1. plan[n] # None /\ plan[n].image # None
    BY <1>15 DEF DeployJob, Control, Deploying, Act
  <2>2. plan[n].image \in Runs
    BY <2>1, PlanTyped
  <2> QED
    BY <1>15, <2>2 DEF DeployJob
<1>16. ASSUME NEW n \in Runs, FailDeployment(n) PROVE TypeOK'
  BY <1>16 DEF FailDeployment
<1>17. ASSUME NEW r \in Releases, Retire(r) PROVE TypeOK'
  BY <1>17 DEF Retire
<1> QED
  BY <1>1, <1>2, <1>3, <1>4, <1>5, <1>6, <1>7, <1>8, <1>9, <1>10, <1>11, <1>12, <1>13, <1>14,
     <1>15, <1>16, <1>17
     DEF Next, Workflow, Cloud, Operator

(* Runs that did not happen left no trace. *)
LEMMA FreshKept ==
    ASSUME IInv, [Next]_vars
    PROVE  Fresh'
<1> USE DEF IInv, TypeOK, bundles, history, Apps, Versions, Jobs, Runs, Fresh, Control, Current,
   Deploying, Act, Active
<1>1. CASE Admit \/ Refuse \/ Stop
  BY <1>1 DEF Admit, Refuse, Stop
<1>2. CASE AwaitTool \/ AwaitJob
  BY <1>2 DEF AwaitTool, AwaitJob
<1>3. CASE Verify \/ Retain
  BY <1>3 DEF Verify, Retain
<1>4. CASE ResolveNew
  BY <1>4 DEF ResolveNew
<1>5. CASE ResolveRotation
  BY <1>5 DEF ResolveRotation
<1>6. CASE SubmitTool \/ SubmitJob
  <2>1. runs \in Runs /\ stage \in [Runs -> Stages]
    BY <1>6 DEF SubmitTool, SubmitJob, Control, Current
  <2>2. \A m \in Runs \ {runs} : stage'[m] = stage[m]
    BY <1>6, <2>1 DEF SubmitTool, SubmitJob
  <2>3. \A m \in Runs : m > runs => m # runs
    BY <2>1
  <2>4. runs' = runs /\ created' = created /\ finished' = finished
    BY <1>6 DEF SubmitTool, SubmitJob
  <2> QED
    BY <2>2, <2>3, <2>4
<1>7. CASE CreateCandidate
  BY <1>7 DEF CreateCandidate
<1>8. CASE PassEvaluation \/ Finish
  <2>1. runs \in Runs
    BY <1>8 DEF PassEvaluation, Finish
  <2>2. \A m \in Runs : m > runs => m # runs
    BY <2>1
  <2>3. /\ runs' = runs /\ created' = created /\ stage' = stage
        /\ finished' \subseteq finished \cup {runs}
    BY <1>8 DEF PassEvaluation, Finish
  <2> QED
    BY <2>2, <2>3
<1>9. CASE Switch
  BY <1>9 DEF Switch
<1>10. CASE UNCHANGED vars
  BY <1>10 DEF vars
<1>11. ASSUME NEW r \in Releases, NEW rotate \in BOOLEAN, Dispatch(r, rotate) PROVE Fresh'
  BY <1>11 DEF Dispatch
<1>12. ASSUME NEW n \in Runs, DeployIdentity(n) PROVE Fresh'
  BY <1>12 DEF DeployIdentity
<1>13. ASSUME NEW n \in Runs, DeployApp(n) PROVE Fresh'
  BY <1>13 DEF DeployApp
<1>14. ASSUME NEW n \in Runs, DeployConnection(n) PROVE Fresh'
  BY <1>14 DEF DeployConnection
<1>15. ASSUME NEW n \in Runs, DeployJob(n) PROVE Fresh'
  BY <1>15 DEF DeployJob
<1>16. ASSUME NEW n \in Runs, FailDeployment(n) PROVE Fresh'
  BY <1>16 DEF FailDeployment
<1>17. ASSUME NEW r \in Releases, Retire(r) PROVE Fresh'
  BY <1>17 DEF Retire
<1> QED
  BY <1>1, <1>2, <1>3, <1>4, <1>5, <1>6, <1>7, <1>8, <1>9, <1>10, <1>11, <1>12, <1>13, <1>14,
     <1>15, <1>16, <1>17
     DEF Next, Workflow, Cloud, Operator

(* The current run stays planned and unfinished. *)
LEMMA CurrentKept ==
    ASSUME IInv, [Next]_vars
    PROVE  Current'
<1> USE DEF IInv, TypeOK, bundles, history, Apps, Versions, Jobs, Runs, Current, Control,
   Underway, Deploying, Fresh
<1>1. CASE Admit \/ Refuse \/ Stop
  BY <1>1 DEF Admit, Refuse, Stop
<1>2. CASE AwaitTool \/ AwaitJob
  BY <1>2 DEF AwaitTool, AwaitJob
<1>3. CASE Verify \/ Retain
  BY <1>3 DEF Verify, Retain
<1>4. CASE ResolveNew
  <2>1. runs \in Runs /\ plan[runs] # None /\ created[runs] = None
    BY <1>4 DEF ResolveNew
  <2>2. plan'[runs] \in Plans /\ plan'[runs].image = runs
    BY <1>4, <2>1, OtherTyped, Resolving DEF ResolveNew
  <2>3. plan'[runs] # None /\ plan'[runs].image # None
    BY <2>1, <2>2, NotNone
  <2> QED
    BY <1>4, <2>1, <2>3 DEF ResolveNew
<1>5. CASE ResolveRotation
  <2>1. runs \in Runs /\ plan[runs] # None /\ created[runs] = None
    BY <1>5 DEF ResolveRotation
  <2>2. apps[Release(runs)] # None /\ Release(runs) \in Releases
    BY <1>5 DEF ResolveRotation, CanRotate, Reconciles, Deployed, Connected
  <2>3. apps[Release(runs)].image \in Runs
    BY <2>2, AppTyped
  <2>4. plan'[runs] \in Plans /\ plan'[runs].image = apps[Release(runs)].image
    BY <1>5, <2>1, <2>3, OtherTyped, Resolving DEF ResolveRotation
  <2>5. plan'[runs] # None /\ plan'[runs].image # None
    BY <2>3, <2>4, NotNone
  <2> QED
    BY <1>5, <2>1, <2>5 DEF ResolveRotation
<1>6. CASE SubmitTool \/ SubmitJob
  BY <1>6 DEF SubmitTool, SubmitJob
<1>7. CASE CreateCandidate
  BY <1>7 DEF CreateCandidate
<1>8. CASE PassEvaluation \/ Finish
  BY <1>8 DEF PassEvaluation, Finish
<1>9. CASE Switch
  BY <1>9 DEF Switch
<1>10. CASE UNCHANGED vars
  BY <1>10 DEF vars
<1>11. ASSUME NEW r \in Releases, NEW rotate \in BOOLEAN, Dispatch(r, rotate) PROVE Current'
  <2>1. /\ runs' \in Runs /\ runs' = runs + 1 /\ runs' > runs
        /\ pc' = "admit" /\ stage' = stage /\ created' = created /\ finished' = finished
    BY <1>11, RunsAssumption DEF Dispatch
  <2>2. stage[runs'] = "none" /\ created[runs'] = None /\ runs' \notin finished
    BY <2>1 DEF Control, Fresh
  <2>3. [release |-> r, rotate |-> rotate, image |-> None, previous |-> None] \in Plans
    BY DEF Plans
  <2>4. plan'[runs'] \in Plans
    BY <1>11, <2>1, <2>3 DEF Dispatch
  <2>5. plan'[runs'] # None
    BY <2>4, NotNone
  <2> QED
    BY <2>1, <2>2, <2>5
<1>12. ASSUME NEW n \in Runs, DeployIdentity(n) PROVE Current'
  BY <1>12 DEF DeployIdentity
<1>13. ASSUME NEW n \in Runs, DeployApp(n) PROVE Current'
  BY <1>13 DEF DeployApp
<1>14. ASSUME NEW n \in Runs, DeployConnection(n) PROVE Current'
  BY <1>14 DEF DeployConnection
<1>15. ASSUME NEW n \in Runs, DeployJob(n) PROVE Current'
  BY <1>15 DEF DeployJob
<1>16. ASSUME NEW n \in Runs, FailDeployment(n) PROVE Current'
  BY <1>16 DEF FailDeployment
<1>17. ASSUME NEW r \in Releases, Retire(r) PROVE Current'
  BY <1>17 DEF Retire
<1> QED
  BY <1>1, <1>2, <1>3, <1>4, <1>5, <1>6, <1>7, <1>8, <1>9, <1>10, <1>11, <1>12, <1>13, <1>14,
     <1>15, <1>16, <1>17
     DEF Next, Workflow, Cloud, Operator

(* Only resolved runs deploy. *)
LEMMA DeployingKept ==
    ASSUME IInv, [Next]_vars
    PROVE  Deploying'
<1> USE DEF IInv, TypeOK, bundles, history, Apps, Versions, Jobs, Runs, Deploying, Control,
   Current, Act, Active, Underway, Fresh, Alone, Quiet
<1>1. CASE Admit \/ Refuse \/ Stop
  BY <1>1 DEF Admit, Refuse, Stop
<1>2. CASE AwaitTool \/ AwaitJob
  BY <1>2 DEF AwaitTool, AwaitJob
<1>3. CASE Verify \/ Retain
  BY <1>3 DEF Verify, Retain
<1>4. CASE ResolveNew
  BY <1>4 DEF ResolveNew
<1>5. CASE ResolveRotation
  BY <1>5 DEF ResolveRotation
<1>6. CASE SubmitTool \/ SubmitJob
  <2>1. runs \in Runs /\ stage \in [Runs -> Stages]
    BY <1>6 DEF SubmitTool, SubmitJob
  <2>2. \A m \in Runs \ {runs} : stage'[m] = stage[m]
    BY <1>6, <2>1 DEF SubmitTool, SubmitJob
  <2>3. plan[runs] # None /\ plan[runs].image # None /\ runs \notin finished
    BY <1>6 DEF SubmitTool, SubmitJob
  <2>4. runs' = runs /\ plan' = plan /\ finished' = finished /\ runs <= runs
    BY <1>6, <2>1 DEF SubmitTool, SubmitJob
  <2> QED
    BY <2>2, <2>3, <2>4
<1>7. CASE CreateCandidate
  BY <1>7 DEF CreateCandidate
<1>8. CASE PassEvaluation \/ Finish
  BY <1>8 DEF PassEvaluation, Finish
<1>9. CASE Switch
  BY <1>9 DEF Switch
<1>10. CASE UNCHANGED vars
  BY <1>10 DEF vars
<1>11. ASSUME NEW r \in Releases, NEW rotate \in BOOLEAN, Dispatch(r, rotate) PROVE Deploying'
  BY <1>11 DEF Dispatch
<1>12. ASSUME NEW n \in Runs, DeployIdentity(n) PROVE Deploying'
  BY <1>12 DEF DeployIdentity
<1>13. ASSUME NEW n \in Runs, DeployApp(n) PROVE Deploying'
  BY <1>13 DEF DeployApp
<1>14. ASSUME NEW n \in Runs, DeployConnection(n) PROVE Deploying'
  BY <1>14 DEF DeployConnection
<1>15. ASSUME NEW n \in Runs, DeployJob(n) PROVE Deploying'
  BY <1>15 DEF DeployJob
<1>16. ASSUME NEW n \in Runs, FailDeployment(n) PROVE Deploying'
  BY <1>16 DEF FailDeployment
<1>17. ASSUME NEW r \in Releases, Retire(r) PROVE Deploying'
  BY <1>17 DEF Retire
<1> QED
  BY <1>1, <1>2, <1>3, <1>4, <1>5, <1>6, <1>7, <1>8, <1>9, <1>10, <1>11, <1>12, <1>13, <1>14,
     <1>15, <1>16, <1>17
     DEF Next, Workflow, Cloud, Operator

(* One deployment at a time. *)
LEMMA AloneKept ==
    ASSUME IInv, [Next]_vars
    PROVE  Alone'
<1> USE DEF IInv, TypeOK, bundles, history, Apps, Versions, Jobs, Runs, Alone, Control, Current,
   Act, Active, Quiet, Paced
<1>1. CASE Admit \/ Refuse \/ Stop
  BY <1>1 DEF Admit, Refuse, Stop
<1>2. CASE AwaitTool \/ AwaitJob
  BY <1>2 DEF AwaitTool, AwaitJob
<1>3. CASE Verify \/ Retain
  BY <1>3 DEF Verify, Retain
<1>4. CASE ResolveNew
  BY <1>4 DEF ResolveNew
<1>5. CASE ResolveRotation
  BY <1>5 DEF ResolveRotation
<1>6. CASE SubmitTool \/ SubmitJob
  <2>1. runs \in Runs /\ stage \in [Runs -> Stages]
    BY <1>6 DEF SubmitTool, SubmitJob, Control, Current
  <2>2. \A m \in Runs \ {runs} : stage'[m] = stage[m]
    BY <1>6, <2>1 DEF SubmitTool, SubmitJob
  <2>3. stage'[runs] \in Active
    BY <1>6, <2>1 DEF SubmitTool, SubmitJob, Active
  <2> QED
    BY <1>6, <2>1, <2>2, <2>3 DEF SubmitTool, SubmitJob
<1>7. CASE CreateCandidate
  BY <1>7 DEF CreateCandidate
<1>8. CASE PassEvaluation \/ Finish
  BY <1>8 DEF PassEvaluation, Finish
<1>9. CASE Switch
  BY <1>9 DEF Switch
<1>10. CASE UNCHANGED vars
  BY <1>10 DEF vars
<1>11. ASSUME NEW r \in Releases, NEW rotate \in BOOLEAN, Dispatch(r, rotate) PROVE Alone'
  BY <1>11 DEF Dispatch
<1>12. ASSUME NEW n \in Runs, DeployIdentity(n) PROVE Alone'
  BY <1>12 DEF DeployIdentity
<1>13. ASSUME NEW n \in Runs, DeployApp(n) PROVE Alone'
  BY <1>13 DEF DeployApp
<1>14. ASSUME NEW n \in Runs, DeployConnection(n) PROVE Alone'
  BY <1>14 DEF DeployConnection
<1>15. ASSUME NEW n \in Runs, DeployJob(n) PROVE Alone'
  BY <1>15 DEF DeployJob
<1>16. ASSUME NEW n \in Runs, FailDeployment(n) PROVE Alone'
  BY <1>16 DEF FailDeployment
<1>17. ASSUME NEW r \in Releases, Retire(r) PROVE Alone'
  BY <1>17 DEF Retire
<1> QED
  BY <1>1, <1>2, <1>3, <1>4, <1>5, <1>6, <1>7, <1>8, <1>9, <1>10, <1>11, <1>12, <1>13, <1>14,
     <1>15, <1>16, <1>17
     DEF Next, Workflow, Cloud, Operator

(* Steps and deployments stay in pace. *)
LEMMA PacedKept ==
    ASSUME IInv, [Next]_vars
    PROVE  Paced'
<1> USE DEF IInv, TypeOK, bundles, history, Apps, Versions, Jobs, Runs, Paced, Control, Current,
   Alone, Fresh, Act, Active, Quiet
<1>1. CASE Admit \/ Refuse \/ Stop
  <2>1. CASE Admit
    BY SMTT(30), <2>1 DEF Admit
  <2>2. CASE Refuse
    BY SMTT(30), <2>2 DEF Refuse
  <2>3. CASE Stop
    BY SMTT(30), <2>3 DEF Stop
  <2> QED
    BY <1>1, <2>1, <2>2, <2>3
<1>2. CASE AwaitTool \/ AwaitJob
  <2>1. CASE AwaitTool
    BY SMTT(30), <2>1 DEF AwaitTool
  <2>2. CASE AwaitJob
    BY SMTT(30), <2>2 DEF AwaitJob
  <2> QED
    BY <1>2, <2>1, <2>2
<1>3. CASE Verify \/ Retain
  <2>1. CASE Verify
    BY SMTT(30), <2>1 DEF Verify
  <2>2. CASE Retain
    BY SMTT(30), <2>2 DEF Retain
  <2> QED
    BY <1>3, <2>1, <2>2
<1>4. CASE ResolveNew
  BY <1>4 DEF ResolveNew
<1>5. CASE ResolveRotation
  BY <1>5 DEF ResolveRotation
<1>6. CASE SubmitTool \/ SubmitJob
  <2>1. CASE SubmitTool
    BY SMTT(30), <2>1 DEF SubmitTool
  <2>2. CASE SubmitJob
    BY SMTT(30), <2>2 DEF SubmitJob
  <2> QED
    BY <1>6, <2>1, <2>2
<1>7. CASE CreateCandidate
  BY <1>7 DEF CreateCandidate
<1>8. CASE PassEvaluation \/ Finish
  <2>1. CASE PassEvaluation
    BY SMTT(30), <2>1 DEF PassEvaluation
  <2>2. CASE Finish
    BY SMTT(30), <2>2 DEF Finish
  <2> QED
    BY <1>8, <2>1, <2>2
<1>9. CASE Switch
  BY <1>9 DEF Switch
<1>10. CASE UNCHANGED vars
  BY <1>10 DEF vars
<1>11. ASSUME NEW r \in Releases, NEW rotate \in BOOLEAN, Dispatch(r, rotate) PROVE Paced'
  <2>1. /\ runs' \in Runs /\ runs' = runs + 1 /\ runs' > runs
        /\ pc' = "admit" /\ stage' = stage /\ created' = created /\ finished' = finished
    BY <1>11, RunsAssumption DEF Dispatch
  <2>2. stage[runs'] = "none" /\ created[runs'] = None /\ runs' \notin finished
    BY <2>1 DEF Control, Fresh
  <2>3. [release |-> r, rotate |-> rotate, image |-> None, previous |-> None] \in Plans
    BY DEF Plans
  <2>4. plan'[runs'] \in Plans
    BY <1>11, <2>1, <2>3 DEF Dispatch
  <2>5. plan'[runs'] # None
    BY <2>4, NotNone
  <2> QED
    BY <2>1, <2>2, <2>5
<1>12. ASSUME NEW n \in Runs, DeployIdentity(n) PROVE Paced'
  BY <1>12 DEF DeployIdentity
<1>13. ASSUME NEW n \in Runs, DeployApp(n) PROVE Paced'
  BY <1>13 DEF DeployApp
<1>14. ASSUME NEW n \in Runs, DeployConnection(n) PROVE Paced'
  BY <1>14 DEF DeployConnection
<1>15. ASSUME NEW n \in Runs, DeployJob(n) PROVE Paced'
  BY <1>15 DEF DeployJob
<1>16. ASSUME NEW n \in Runs, FailDeployment(n) PROVE Paced'
  BY <1>16 DEF FailDeployment
<1>17. ASSUME NEW r \in Releases, Retire(r) PROVE Paced'
  BY <1>17 DEF Retire
<1> QED
  BY <1>1, <1>2, <1>3, <1>4, <1>5, <1>6, <1>7, <1>8, <1>9, <1>10, <1>11, <1>12, <1>13, <1>14,
     <1>15, <1>16, <1>17
     DEF Next, Workflow, Cloud, Operator

-----------------------------------------------------------------------------
(* What a predicate on one run or release depends on *)

(* Plan and bundles, for what surrounds a deployment, *)
LEMMA OnlyPreviousFrame ==
    ASSUME NEW n \in Runs, OnlyPrevious(n), UNCHANGED bundles, plan'[n] = plan[n]
    PROVE  OnlyPrevious(n)'
BY DEF OnlyPrevious, bundles, Release, Deployed, Connected

(* for what it was resolved on, *)
LEMMA ResolvedFrame ==
    ASSUME NEW n \in Runs, Resolved(n), UNCHANGED bundles, plan'[n] = plan[n]
    PROVE  Resolved(n)'
BY DEF Resolved, bundles, Release, Connected

(* and for what it left; *)
LEMMA InstalledFrame ==
    ASSUME NEW n \in Runs, Installed(n), UNCHANGED bundles, plan'[n] = plan[n]
    PROVE  Installed(n)'
BY DEF Installed, bundles, Release

(* the credentials depend on the runs' histories as well. *)
LEMMA KeysFrame ==
    ASSUME Keys, UNCHANGED <<runs, plan, apps, connections, created, finished>>
    PROVE  Keys'
BY DEF Keys, FinishedRunsAgreeOnTheKey, Release

-----------------------------------------------------------------------------
(* Counting releases *)

(* A set within a pair has at most two members, *)
LEMMA PairIsSmall ==
    ASSUME NEW a, NEW b, NEW S \in SUBSET {a, b}
    PROVE  IsFiniteSet(S) /\ Cardinality(S) <= 2
<1>1. IsFiniteSet({a}) /\ Cardinality({a}) = 1
  BY FS_Singleton
<1>2. IsFiniteSet({a} \cup {b}) /\ Cardinality({a} \cup {b}) \in {1, 2}
  BY <1>1, FS_AddElement
<1>3. {a} \cup {b} = {a, b}
  OBVIOUS
<1>4. IsFiniteSet(S) /\ Cardinality(S) <= Cardinality({a, b})
  BY <1>2, <1>3, FS_Subset
<1>5. Cardinality(S) \in Nat
  BY <1>4, FS_CardinalityType
<1> QED
  BY <1>2, <1>3, <1>4, <1>5

(* and one with two different members has at least two. *)
LEMMA TwoAreTwo ==
    ASSUME NEW S, IsFiniteSet(S), NEW x \in S, NEW y \in S, x # y
    PROVE  Cardinality(S) >= 2
<1>1. IsFiniteSet({x}) /\ Cardinality({x}) = 1
  BY FS_Singleton
<1>2. Cardinality({x} \cup {y}) = 2
  BY <1>1, FS_AddElement
<1>3. Cardinality({x} \cup {y}) <= Cardinality(S)
  BY FS_Subset
<1>4. Cardinality(S) \in Nat
  BY FS_CardinalityType
<1> QED
  BY <1>2, <1>3, <1>4

(* A run that resolves finds one other release at most, and retains it. *)
LEMMA ResolvesOthers ==
    ASSUME AtMostTwo, runs' = runs, Release(runs) \in Releases,
           CanStart(runs) \/ CanRotate(runs),
           plan'[runs].release = plan[runs].release, plan'[runs].previous = Other(runs),
           UNCHANGED bundles
    PROVE  OnlyPrevious(runs)'
<1> DEFINE r == Release(runs)
<1>1. PICK a, b \in Releases \cup {None} :
          identities \cup Deployed \cup Connected \subseteq {a, b}
  BY DEF AtMostTwo
<1>2. ASSUME NEW x \in Connected \ {r}, NEW y \in Connected \ {r} PROVE x = y
  <2>1. CASE CanRotate(runs)
    BY <1>1, <1>2, <2>1 DEF CanRotate
  <2>2. CASE CanStart(runs)
    <3>1. IsFiniteSet(Connected)
      BY <1>1, PairIsSmall
    <3>2. Cardinality(Connected) <= 1
      BY <2>2 DEF CanStart
    <3>3. x # y => Cardinality(Connected) >= 2
      BY <1>2, <3>1, TwoAreTwo
    <3>4. Cardinality(Connected) \in Nat
      BY <3>1, FS_CardinalityType
    <3> QED
      BY <3>2, <3>3, <3>4
  <2> QED
    BY <2>1, <2>2
<1>3. \A x \in Releases \ {r} : x \in Connected <=> x = Other(runs)
  BY <1>2, NotNone DEF Other, Connected
<1>4. Other(runs) # r
  <2>1. CASE Connected \ {r} = {}
    BY <2>1, NotNone DEF Other, CanStart, CanRotate, Connected, Reconciles
  <2>2. CASE Connected \ {r} # {}
    BY <2>2 DEF Other
  <2> QED
    BY <2>1, <2>2
<1>5. Deployed = identities /\ Connected \subseteq Deployed /\ Deployed \ Connected \subseteq {r}
  BY DEF CanStart, CanRotate, Reconciles
<1>6. UNCHANGED <<identities, Deployed, Connected>>
  BY DEF bundles, Deployed, Connected
<1> QED
  BY <1>3, <1>4, <1>5, <1>6 DEF OnlyPrevious, Release

(* Only the target and the release to retain are there. *)
LEMMA OthersKept ==
    ASSUME IInv, [Next]_vars
    PROVE  Others'
<1> USE DEF IInv, TypeOK, bundles, history, Runs, Others, OnlyPrevious, Release, Connected,
   Deployed, Control, Current, Alone, Act, Active, Quiet, Underway, Paced, Deploying
<1>1. CASE Admit \/ Refuse \/ Stop
  <2>1. UNCHANGED <<runs, plan, stage, bundles>> /\ (pc' \notin Underway)
    BY <1>1 DEF Admit, Refuse, Stop
  <2>2. ASSUME NEW n \in Runs, Act(n)' PROVE OnlyPrevious(n)'
    BY <2>1, <2>2, OnlyPreviousFrame
  <2> QED
    BY <2>1, <2>2
<1>2. CASE AwaitTool \/ AwaitJob
  <2>1. CASE AwaitTool
    BY SMTT(30), <2>1 DEF AwaitTool
  <2>2. CASE AwaitJob
    BY SMTT(30), <2>2 DEF AwaitJob
  <2> QED
    BY <1>2, <2>1, <2>2
<1>3. CASE Verify \/ Retain
  <2>1. CASE Verify
    BY SMTT(30), <2>1 DEF Verify
  <2>2. CASE Retain
    BY SMTT(30), <2>2 DEF Retain
  <2> QED
    BY <1>3, <2>1, <2>2
<1>4. CASE ResolveNew
  <2>1. /\ runs \in Runs /\ plan[runs] # None /\ (\A n \in Runs : ~ Act(n))
        /\ runs' = runs /\ stage' = stage
    BY <1>4 DEF ResolveNew
  <2>2. plan'[runs].release = plan[runs].release /\ plan'[runs].previous = Other(runs)
    BY <1>4, <2>1, OtherTyped, Resolving DEF ResolveNew
  <2>3. OnlyPrevious(runs)'
    BY <1>4, <2>1, <2>2, PlanTyped, ResolvesOthers DEF ResolveNew
  <2> QED
    BY <1>4, <2>1, <2>3 DEF ResolveNew
<1>5. CASE ResolveRotation
  <2>0. apps[Release(runs)].image \in Runs
    <3>1. apps[Release(runs)] # None /\ Release(runs) \in Releases
      BY <1>5 DEF ResolveRotation, CanRotate, Reconciles
    <3> QED
      BY <3>1, AppTyped
  <2>1. /\ runs \in Runs /\ plan[runs] # None /\ (\A n \in Runs : ~ Act(n))
        /\ runs' = runs /\ stage' = stage
    BY <1>5 DEF ResolveRotation
  <2> DEFINE image == apps[Release(runs)].image
  <2>a. plan' = [plan EXCEPT ![runs].image = image, ![runs].previous = Other(runs)]
    BY <1>5 DEF ResolveRotation
  <2>b. image \in Runs
    BY <2>0
  <2> HIDE DEF image
  <2>2. plan'[runs].release = plan[runs].release /\ plan'[runs].previous = Other(runs)
    BY <2>1, <2>a, <2>b, OtherTyped, Resolving
  <2>3. OnlyPrevious(runs)'
    BY <1>5, <2>1, <2>2, PlanTyped, ResolvesOthers DEF ResolveRotation
  <2> QED
    BY <1>5, <2>1, <2>3 DEF ResolveRotation
<1>6. CASE SubmitTool \/ SubmitJob
  <2>1. /\ runs \in Runs /\ OnlyPrevious(runs) /\ (\A n \in Runs : ~ Act(n))
        /\ UNCHANGED <<runs, plan, bundles>>
    BY <1>6 DEF SubmitTool, SubmitJob
  <2>2. \A n \in Runs \ {runs} : stage'[n] = stage[n]
    BY <1>6, <2>1, SubmitFrame
  <2>3. OnlyPrevious(runs)'
    BY <2>1, OnlyPreviousFrame
  <2> QED
    BY <2>1, <2>2, <2>3
<1>7. CASE CreateCandidate
  BY <1>7 DEF CreateCandidate
<1>8. CASE PassEvaluation \/ Finish
  <2>1. CASE PassEvaluation
    BY SMTT(30), <2>1 DEF PassEvaluation
  <2>2. CASE Finish
    BY SMTT(30), <2>2 DEF Finish
  <2> QED
    BY <1>8, <2>1, <2>2
<1>9. CASE Switch
  BY <1>9 DEF Switch
<1>10. CASE UNCHANGED vars
  BY <1>10 DEF vars
<1>11. ASSUME NEW r \in Releases, NEW rotate \in BOOLEAN, Dispatch(r, rotate) PROVE Others'
  BY <1>11 DEF Dispatch
<1>12. ASSUME NEW n \in Runs, DeployIdentity(n) PROVE Others'
  BY <1>12 DEF DeployIdentity
<1>13. ASSUME NEW n \in Runs, DeployApp(n) PROVE Others'
  BY <1>13 DEF DeployApp
<1>14. ASSUME NEW n \in Runs, DeployConnection(n) PROVE Others'
  BY <1>14 DEF DeployConnection
<1>15. ASSUME NEW n \in Runs, DeployJob(n) PROVE Others'
  BY <1>15 DEF DeployJob
<1>16. ASSUME NEW n \in Runs, FailDeployment(n) PROVE Others'
  BY <1>16 DEF FailDeployment
<1>17. ASSUME NEW r \in Releases, Retire(r) PROVE Others'
  BY <1>17 DEF Retire
<1> QED
  BY <1>1, <1>2, <1>3, <1>4, <1>5, <1>6, <1>7, <1>8, <1>9, <1>10, <1>11, <1>12, <1>13, <1>14,
     <1>15, <1>16, <1>17
     DEF Next, Workflow, Cloud, Operator

(* All there is belongs to two releases. *)
LEMMA TwoKept ==
    ASSUME IInv, [Next]_vars
    PROVE  AtMostTwo'
<1> USE DEF IInv, TypeOK, bundles, history, Runs, AtMostTwo, Connected, Deployed, Control,
   Deploying, Act, Active, Others
<1>1. CASE Admit \/ Refuse \/ Stop
  BY <1>1 DEF Admit, Refuse, Stop
<1>2. CASE AwaitTool \/ AwaitJob
  BY <1>2 DEF AwaitTool, AwaitJob
<1>3. CASE Verify \/ Retain
  BY <1>3 DEF Verify, Retain
<1>4. CASE ResolveNew
  BY <1>4 DEF ResolveNew
<1>5. CASE ResolveRotation
  BY <1>5 DEF ResolveRotation
<1>6. CASE SubmitTool \/ SubmitJob
  BY <1>6 DEF SubmitTool, SubmitJob
<1>7. CASE CreateCandidate
  BY <1>7 DEF CreateCandidate
<1>8. CASE PassEvaluation \/ Finish
  BY <1>8 DEF PassEvaluation, Finish
<1>9. CASE Switch
  BY <1>9 DEF Switch
<1>10. CASE UNCHANGED vars
  BY <1>10 DEF vars
<1>11. ASSUME NEW r \in Releases, NEW rotate \in BOOLEAN, Dispatch(r, rotate) PROVE AtMostTwo'
  BY <1>11 DEF Dispatch
<1>12. ASSUME NEW n \in Runs, DeployIdentity(n) PROVE AtMostTwo'
  <2>1. plan[n] # None /\ OnlyPrevious(n)
    BY <1>12 DEF DeployIdentity
  <2>2. Release(n) \in Releases /\ plan[n].previous \in Releases \cup {None}
    BY <2>1, PlanTyped
  <2>3. identities \cup Deployed \cup Connected \subseteq {Release(n), plan[n].previous}
    BY <2>1 DEF OnlyPrevious
  <2>4. /\ identities' \subseteq identities \cup {Release(n)}
        /\ Deployed' \subseteq Deployed \cup {Release(n)}
        /\ Connected' \subseteq Connected \cup {Release(n)}
    BY <1>12 DEF DeployIdentity
  <2> QED
    BY <2>2, <2>3, <2>4
<1>13. ASSUME NEW n \in Runs, DeployApp(n) PROVE AtMostTwo'
  <2>1. plan[n] # None /\ OnlyPrevious(n)
    BY <1>13 DEF DeployApp
  <2>2. Release(n) \in Releases /\ plan[n].previous \in Releases \cup {None}
    BY <2>1, PlanTyped
  <2>3. identities \cup Deployed \cup Connected \subseteq {Release(n), plan[n].previous}
    BY <2>1 DEF OnlyPrevious
  <2>4. /\ identities' \subseteq identities \cup {Release(n)}
        /\ Deployed' \subseteq Deployed \cup {Release(n)}
        /\ Connected' \subseteq Connected \cup {Release(n)}
    BY <1>13 DEF DeployApp
  <2> QED
    BY <2>2, <2>3, <2>4
<1>14. ASSUME NEW n \in Runs, DeployConnection(n) PROVE AtMostTwo'
  <2>1. plan[n] # None /\ OnlyPrevious(n)
    BY <1>14 DEF DeployConnection
  <2>2. Release(n) \in Releases /\ plan[n].previous \in Releases \cup {None}
    BY <2>1, PlanTyped
  <2>3. identities \cup Deployed \cup Connected \subseteq {Release(n), plan[n].previous}
    BY <2>1 DEF OnlyPrevious
  <2>4. /\ identities' \subseteq identities \cup {Release(n)}
        /\ Deployed' \subseteq Deployed \cup {Release(n)}
        /\ Connected' \subseteq Connected \cup {Release(n)}
    BY <1>14 DEF DeployConnection
  <2> QED
    BY <2>2, <2>3, <2>4
<1>15. ASSUME NEW n \in Runs, DeployJob(n) PROVE AtMostTwo'
  BY <1>15 DEF DeployJob
<1>16. ASSUME NEW n \in Runs, FailDeployment(n) PROVE AtMostTwo'
  BY <1>16 DEF FailDeployment
<1>17. ASSUME NEW r \in Releases, Retire(r) PROVE AtMostTwo'
  BY <1>17 DEF Retire
<1> HIDE DEF AtMostTwo
<1> QED
  BY <1>1, <1>2, <1>3, <1>4, <1>5, <1>6, <1>7, <1>8, <1>9, <1>10, <1>11, <1>12, <1>13, <1>14,
     <1>15, <1>16, <1>17
     DEF Next, Workflow, Cloud, Operator

(* The target is as far as its deployment. *)
LEMMA TargetKept ==
    ASSUME IInv, [Next]_vars
    PROVE  Target'
<1> USE DEF IInv, TypeOK, bundles, history, Runs, Target, Resolved, Installed, Release,
   Connected, Control, Current, Alone, Act, Active, Quiet, Underway, Served, Paced, Deploying
<1>1. CASE Admit \/ Refuse \/ Stop
  BY <1>1 DEF Admit, Refuse, Stop
<1>2. CASE AwaitTool \/ AwaitJob
  BY <1>2 DEF AwaitTool, AwaitJob
<1>3. CASE Verify \/ Retain
  BY <1>3 DEF Verify, Retain
<1>4. CASE ResolveNew
  <2>1. /\ runs \in Runs /\ plan[runs] # None /\ (\A n \in Runs : ~ Act(n))
        /\ runs' = runs /\ stage' = stage /\ pc' = "submit" /\ UNCHANGED bundles
    BY <1>4 DEF ResolveNew
  <2>2. /\ plan'[runs].release = plan[runs].release
        /\ plan'[runs].rotate = plan[runs].rotate
        /\ plan'[runs].image = runs
    BY <1>4, <2>1, OtherTyped, Resolving DEF ResolveNew
  <2>3. Resolved(runs)'
    BY <1>4, <2>1, <2>2 DEF ResolveNew, CanStart, CanRotate, Reconciles, Resolved, Connected,
       Deployed, Release, bundles
  <2>4. \A n \in Runs : stage'[n] \notin Active
    BY <2>1
  <2> QED
    BY <2>1, <2>3, <2>4
<1>5. CASE ResolveRotation
  <2>0. apps[Release(runs)].image \in Runs
    <3>1. apps[Release(runs)] # None /\ Release(runs) \in Releases
      BY <1>5 DEF ResolveRotation, CanRotate, Reconciles, Deployed
    <3> QED
      BY <3>1, AppTyped
  <2>1. /\ runs \in Runs /\ plan[runs] # None /\ (\A n \in Runs : ~ Act(n))
        /\ runs' = runs /\ stage' = stage /\ pc' = "submit" /\ UNCHANGED bundles
    BY <1>5 DEF ResolveRotation
  <2>2. /\ plan'[runs].release = plan[runs].release
        /\ plan'[runs].rotate = plan[runs].rotate
        /\ plan'[runs].image = apps[Release(runs)].image
    BY <1>5, <2>1, <2>0, RotationKeepsImage
  <2>3. Resolved(runs)'
    BY <1>5, <2>1, <2>2 DEF ResolveRotation, CanStart, CanRotate, Reconciles, Resolved,
       Connected, Deployed, Release, bundles
  <2>4. \A n \in Runs : stage'[n] \notin Active
    BY <2>1
  <2> QED
    BY <2>1, <2>3, <2>4
<1>6. CASE SubmitTool \/ SubmitJob
  <2>1. /\ runs \in Runs /\ (\A n \in Runs : ~ Act(n)) /\ UNCHANGED <<runs, plan, bundles>>
        /\ (pc = "submit" => Resolved(runs)) /\ (pc = "submitJob" => Installed(runs))
    BY <1>6 DEF SubmitTool, SubmitJob
  <2>2. \A n \in Runs \ {runs} : stage'[n] = stage[n]
    BY <1>6, <2>1, SubmitFrame
  <2>3. CASE SubmitTool
    <3>1. Resolved(runs)'
      BY <2>1, <2>3, ResolvedFrame DEF SubmitTool
    <3>2. stage'[runs] = "identity" /\ pc' = "deploy"
      BY <2>1, <2>3 DEF SubmitTool
    <3> QED
      BY <2>1, <2>2, <3>1, <3>2
  <2>4. CASE SubmitJob
    <3>1. Installed(runs)'
      BY <2>1, <2>4, InstalledFrame DEF SubmitJob
    <3>2. stage'[runs] = "job" /\ pc' = "job"
      BY <2>1, <2>4 DEF SubmitJob
    <3> QED
      BY <2>1, <2>2, <3>1, <3>2
  <2> QED
    BY <1>6, <2>3, <2>4
<1>7. CASE CreateCandidate
  BY <1>7 DEF CreateCandidate
<1>8. CASE PassEvaluation \/ Finish
  BY <1>8 DEF PassEvaluation, Finish
<1>9. CASE Switch
  BY <1>9 DEF Switch
<1>10. CASE UNCHANGED vars
  BY <1>10 DEF vars
<1>11. ASSUME NEW r \in Releases, NEW rotate \in BOOLEAN, Dispatch(r, rotate) PROVE Target'
  BY <1>11 DEF Dispatch
<1>12. ASSUME NEW n \in Runs, DeployIdentity(n) PROVE Target'
  BY <1>12 DEF DeployIdentity
<1>13. ASSUME NEW n \in Runs, DeployApp(n) PROVE Target'
  <2>1. /\ plan[n] # None /\ plan[n].image # None /\ Resolved(n)
        /\ pc \notin Quiet /\ (pc \in {"deploy", "job"} => n = runs)
    BY <1>13 DEF DeployApp
  <2>2. Release(n) \in Releases /\ plan[n].image \in Runs
    BY <2>1, PlanTyped
  <2>3. /\ apps' = [apps EXCEPT ![Release(n)] = [image |-> plan[n].image, key |-> n]]
        /\ UNCHANGED <<runs, pc, plan, connections>>
        /\ stage'[n] = "connection"
        /\ \A m \in Runs \ {n} : stage'[m] = stage[m] /\ stage[m] \notin Active
    BY <1>13 DEF DeployApp
  <2>4. apps'[Release(n)] = [image |-> plan[n].image, key |-> n]
    BY <2>2, <2>3
  <2>5. [image |-> plan[n].image, key |-> n] # None
    BY <2>2, NotNone
  <2>6. Resolved(n)'
    BY <2>1, <2>3, <2>4, <2>5 DEF Resolved, Connected, Release
  <2>7. pc # "submit" /\ pc \notin Served \ {"job"} /\ (pc = "job" => stage[runs] # "app")
    BY <2>1
  <2>8. pc' \notin Served
    BY <1>13, <2>1, <2>3, <2>7 DEF DeployApp
  <2>9. ~ (pc' = "deploy" /\ stage'[runs'] = "tool")
    BY <2>1, <2>3
  <2> QED
    BY <2>3, <2>4, <2>6, <2>7, <2>8, <2>9
<1>14. ASSUME NEW n \in Runs, DeployConnection(n) PROVE Target'
  <2>1. /\ plan[n] # None /\ plan[n].image # None
        /\ apps[Release(n)] = [image |-> plan[n].image, key |-> n]
        /\ pc \notin Quiet /\ (pc \in {"deploy", "job"} => n = runs)
    BY <1>14 DEF DeployConnection
  <2>2. Release(n) \in Releases
    BY <2>1, PlanTyped
  <2>3. /\ connections' = [connections EXCEPT ![Release(n)] = n]
        /\ UNCHANGED <<runs, pc, plan, apps>>
        /\ stage'[n] = "tool"
        /\ \A m \in Runs \ {n} : stage'[m] = stage[m] /\ stage[m] \notin Active
    BY <1>14 DEF DeployConnection
  <2>4. Installed(n)'
    BY <2>1, <2>2, <2>3 DEF Installed, Release
  <2>5. pc # "submit" /\ pc \notin Served
    BY <1>14, <2>1 DEF DeployConnection
  <2>6. pc = "deploy" => Installed(runs)'
    BY <2>1, <2>3, <2>4
  <2> QED
    BY <2>3, <2>5, <2>6
<1>15. ASSUME NEW n \in Runs, DeployJob(n) PROVE Target'
  BY <1>15 DEF DeployJob
<1>16. ASSUME NEW n \in Runs, FailDeployment(n) PROVE Target'
  BY <1>16 DEF FailDeployment
<1>17. ASSUME NEW r \in Releases, Retire(r) PROVE Target'
  BY <1>17 DEF Retire
<1> HIDE DEF Target, Resolved, Installed, IInv, TypeOK, Paced, Alone, Control, Current
<1> QED
  BY <1>1, <1>2, <1>3, <1>4, <1>5, <1>6, <1>7, <1>8, <1>9, <1>10, <1>11, <1>12, <1>13, <1>14,
     <1>15, <1>16, <1>17
     DEF Next, Workflow, Cloud, Operator

(* Versions keep their backend. *)
LEMMA VersionsKept ==
    ASSUME IInv, [Next]_vars
    PROVE  VersionsKeepTheirBackend'
<1> USE DEF IInv, TypeOK, bundles, history, Runs, VersionsKeepTheirBackend, Release, Connected,
   Target, Resolved, Installed, Served, Control, Keys, Fresh
<1>1. CASE Admit \/ Refuse \/ Stop
  <2>1. CASE Admit
    BY SMTT(30), <2>1 DEF Admit
  <2>2. CASE Refuse
    BY SMTT(30), <2>2 DEF Refuse
  <2>3. CASE Stop
    BY SMTT(30), <2>3 DEF Stop
  <2> QED
    BY <1>1, <2>1, <2>2, <2>3
<1>2. CASE AwaitTool \/ AwaitJob
  <2>1. CASE AwaitTool
    BY SMTT(30), <2>1 DEF AwaitTool
  <2>2. CASE AwaitJob
    BY SMTT(30), <2>2 DEF AwaitJob
  <2> QED
    BY <1>2, <2>1, <2>2
<1>3. CASE Verify \/ Retain
  <2>1. CASE Verify
    BY SMTT(30), <2>1 DEF Verify
  <2>2. CASE Retain
    BY SMTT(30), <2>2 DEF Retain
  <2> QED
    BY <1>3, <2>1, <2>2
<1>4. CASE ResolveNew
  BY <1>4 DEF ResolveNew
<1>5. CASE ResolveRotation
  BY SMTT(30), <1>5 DEF ResolveRotation
<1>6. CASE SubmitTool \/ SubmitJob
  <2>1. CASE SubmitTool
    BY SMTT(30), <2>1 DEF SubmitTool
  <2>2. CASE SubmitJob
    BY SMTT(30), <2>2 DEF SubmitJob
  <2> QED
    BY <1>6, <2>1, <2>2
<1>7. CASE CreateCandidate
  <2>1. /\ runs \in Runs /\ plan[runs] # None /\ plan[runs].image # None
        /\ Installed(runs) /\ Release(runs) \in Connected
    BY <1>7 DEF CreateCandidate, Current, Underway
  <2>2. /\ UNCHANGED <<plan, apps, connections, retired>>
        /\ created' = [created EXCEPT ![runs] =
              [release |-> Release(runs), image |-> apps[Release(runs)].image]]
    BY <1>7 DEF CreateCandidate
  <2>3. apps[Release(runs)] # None
    BY <2>1, PlanTyped, NotNone
  <2>4. created'[runs].image = apps[Release(runs)].image
    BY <2>1, <2>2
  <2>5. \A n \in Runs \ {runs} : created'[n] = created[n]
    BY <2>2
  <2> QED
    BY <2>1, <2>2, <2>3, <2>4, <2>5
<1>8. CASE PassEvaluation \/ Finish
  <2>1. CASE PassEvaluation
    BY SMTT(30), <2>1 DEF PassEvaluation
  <2>2. CASE Finish
    BY SMTT(30), <2>2 DEF Finish
  <2> QED
    BY <1>8, <2>1, <2>2
<1>9. CASE Switch
  BY <1>9 DEF Switch
<1>10. CASE UNCHANGED vars
  BY <1>10 DEF vars
<1>11. ASSUME NEW r \in Releases, NEW rotate \in BOOLEAN, Dispatch(r, rotate)
       PROVE  VersionsKeepTheirBackend'
  BY <1>11 DEF Dispatch
<1>12. ASSUME NEW n \in Runs, DeployIdentity(n) PROVE VersionsKeepTheirBackend'
  BY <1>12 DEF DeployIdentity
<1>13. ASSUME NEW n \in Runs, DeployApp(n) PROVE VersionsKeepTheirBackend'
  <2>1. plan[n] # None /\ plan[n].image # None /\ Resolved(n)
    BY <1>13 DEF DeployApp, Deploying, Act, Active
  <2>2. Release(n) \in Releases /\ plan[n].image \in Runs
    BY <2>1, PlanTyped
  <2>3. /\ apps' = [apps EXCEPT ![Release(n)] = [image |-> plan[n].image, key |-> n]]
        /\ UNCHANGED <<plan, connections, created, retired>>
    BY <1>13 DEF DeployApp
  <2>4. /\ apps'[Release(n)] # None /\ apps'[Release(n)].image = plan[n].image
        /\ \A x \in Releases \ {Release(n)} : apps'[x] = apps[x]
    BY <2>2, <2>3, NotNone
  <2>5. Release(n) \in Connected => apps[Release(n)].image = plan[n].image
    BY <2>1 DEF Resolved
  <2> QED
    BY <2>3, <2>4, <2>5
<1>14. ASSUME NEW n \in Runs, DeployConnection(n) PROVE VersionsKeepTheirBackend'
  <2>1. Connected \subseteq Connected'
    BY <1>14, NotNone DEF DeployConnection
  <2>2. UNCHANGED <<plan, apps, created, retired>>
    BY <1>14 DEF DeployConnection
  <2> QED
    BY <2>1, <2>2
<1>15. ASSUME NEW n \in Runs, DeployJob(n) PROVE VersionsKeepTheirBackend'
  BY <1>15 DEF DeployJob
<1>16. ASSUME NEW n \in Runs, FailDeployment(n) PROVE VersionsKeepTheirBackend'
  BY <1>16 DEF FailDeployment
<1>17. ASSUME NEW r \in Releases, Retire(r) PROVE VersionsKeepTheirBackend'
  BY <1>17 DEF Retire
<1> QED
  BY <1>1, <1>2, <1>3, <1>4, <1>5, <1>6, <1>7, <1>8, <1>9, <1>10, <1>11, <1>12, <1>13, <1>14,
     <1>15, <1>16, <1>17
     DEF Next, Workflow, Cloud, Operator

(* The job is of an accepted version. *)
LEMMA AcceptedKept ==
    ASSUME IInv, [Next]_vars
    PROVE  Accepted'
<1> USE DEF IInv, TypeOK, bundles, history, Runs, Accepted, JobReady, JobRunsAccepted, Control,
   Current, Alone, Act, Active, Quiet, Paced, Underway, Target, Installed, Served
<1>1. CASE Admit \/ Refuse \/ Stop
  BY <1>1 DEF Admit, Refuse, Stop
<1>2. CASE AwaitTool \/ AwaitJob
  BY <1>2 DEF AwaitTool, AwaitJob
<1>3. CASE Verify \/ Retain
  BY <1>3 DEF Verify, Retain
<1>4. CASE ResolveNew
  BY <1>4 DEF ResolveNew
<1>5. CASE ResolveRotation
  BY <1>5 DEF ResolveRotation
<1>6. CASE SubmitTool \/ SubmitJob
  <2>1. /\ runs \in Runs /\ UNCHANGED <<runs, plan, created, passed, job>>
        /\ \A n \in Runs \ {runs} : stage'[n] = stage[n]
        /\ pc' \in {"deploy", "job"}
    BY <1>6 DEF SubmitTool, SubmitJob
  <2>2. stage'[runs] = "job" => JobReady(runs)
    BY <1>6 DEF SubmitTool, SubmitJob
  <2>3. job # None => job.version # runs
    BY <1>6 DEF SubmitTool, SubmitJob
  <2>4. job # None => stage'[job.version] = "done"
    BY <2>1, <2>3
  <2> QED
    BY <2>1, <2>2, <2>4
<1>7. CASE CreateCandidate
  <2>1. /\ runs \in Runs /\ plan[runs] # None /\ plan[runs].image # None
        /\ apps[Release(runs)] = [image |-> plan[runs].image, key |-> runs]
        /\ stage[runs] = "tool" /\ (\A n \in Runs : stage[n] # "job")
    BY <1>7 DEF CreateCandidate
  <2>2. /\ UNCHANGED <<runs, plan, stage, passed, job>> /\ pc' = "evaluate"
        /\ created' = [created EXCEPT ![runs] =
              [release |-> Release(runs), image |-> apps[Release(runs)].image]]
    BY <1>7 DEF CreateCandidate
  <2>3. Release(runs) \in Releases /\ plan[runs].image \in Runs
    BY <2>1, PlanTyped
  <2>4. created'[runs] # None /\ created'[runs].image = plan[runs].image
    BY <2>1, <2>2, <2>3, NotNone
  <2>5. job # None => job.version # runs /\ job.version \in Runs
    BY <2>1
  <2>6. \A n \in Runs \ {runs} : created'[n] = created[n]
    BY <2>2
  <2> QED
    BY <2>1, <2>2, <2>4, <2>5, <2>6
<1>8. CASE PassEvaluation \/ Finish
  BY <1>8 DEF PassEvaluation, Finish
<1>9. CASE Switch
  BY <1>9 DEF Switch
<1>10. CASE UNCHANGED vars
  BY <1>10 DEF vars
<1>11. ASSUME NEW r \in Releases, NEW rotate \in BOOLEAN, Dispatch(r, rotate) PROVE Accepted'
  <2>1. /\ UNCHANGED <<stage, created, passed, job>> /\ pc' = "admit"
        /\ \A n \in Runs : n <= runs => plan'[n] = plan[n]
    BY <1>11, RunsAssumption DEF Dispatch
  <2>2. \A n \in Runs : stage[n] = "job" => n <= runs
    BY DEF Deploying
  <2> QED
    BY <2>1, <2>2
<1>12. ASSUME NEW n \in Runs, DeployIdentity(n) PROVE Accepted'
  BY <1>12 DEF DeployIdentity
<1>13. ASSUME NEW n \in Runs, DeployApp(n) PROVE Accepted'
  BY <1>13 DEF DeployApp
<1>14. ASSUME NEW n \in Runs, DeployConnection(n) PROVE Accepted'
  BY <1>14 DEF DeployConnection
<1>15. ASSUME NEW n \in Runs, DeployJob(n) PROVE Accepted'
  BY <1>15 DEF DeployJob
<1>16. ASSUME NEW n \in Runs, FailDeployment(n) PROVE Accepted'
  BY <1>16 DEF FailDeployment
<1>17. ASSUME NEW r \in Releases, Retire(r) PROVE Accepted'
  BY <1>17 DEF Retire
<1> QED
  BY <1>1, <1>2, <1>3, <1>4, <1>5, <1>6, <1>7, <1>8, <1>9, <1>10, <1>11, <1>12, <1>13, <1>14,
     <1>15, <1>16, <1>17
     DEF Next, Workflow, Cloud, Operator

(* Credentials are those of the runs that set them. *)
LEMMA KeysKept ==
    ASSUME IInv, [Next]_vars
    PROVE  Keys'
<1> USE DEF IInv, TypeOK, bundles, history, Runs, Keys, FinishedRunsAgreeOnTheKey, Release,
   Control, Current, Alone, Act, Active, Deploying, Target, Installed, Served, Underway
<1>1. CASE Admit \/ Refuse \/ Stop
  BY <1>1, KeysFrame DEF Admit, Refuse, Stop
<1>2. CASE AwaitTool \/ AwaitJob
  BY <1>2, KeysFrame DEF AwaitTool, AwaitJob
<1>3. CASE Verify \/ Retain
  BY <1>3, KeysFrame DEF Verify, Retain
<1>4. CASE ResolveNew
  <2>1. runs \in Runs /\ plan[runs] # None
    BY <1>4 DEF ResolveNew
  <2>2. /\ \A n \in Runs : plan'[n].release = plan[n].release
        /\ \A n \in Runs : plan[n] # None => plan'[n] # None
    BY <1>4, <2>1, ResolvingKeeps DEF ResolveNew
  <2>3. UNCHANGED <<runs, apps, connections, created, finished>>
    BY <1>4 DEF ResolveNew
  <2>4. \A r \in Releases : apps[r] # None => apps[r].key \in Runs
    BY AppTyped
  <2> QED
    BY <2>2, <2>3, <2>4
<1>5. CASE ResolveRotation
  <2>1. runs \in Runs /\ plan[runs] # None
    BY <1>5 DEF ResolveRotation
  <2>2. /\ \A n \in Runs : plan'[n].release = plan[n].release
        /\ \A n \in Runs : plan[n] # None => plan'[n] # None
    BY <1>5, <2>1, ResolvingKeeps DEF ResolveRotation
  <2>3. UNCHANGED <<runs, apps, connections, created, finished>>
    BY <1>5 DEF ResolveRotation
  <2>4. \A r \in Releases : apps[r] # None => apps[r].key \in Runs
    BY AppTyped
  <2> QED
    BY <2>2, <2>3, <2>4
<1>6. CASE SubmitTool \/ SubmitJob
  BY <1>6, KeysFrame DEF SubmitTool, SubmitJob
<1>7. CASE CreateCandidate
  BY <1>7 DEF CreateCandidate
<1>8. CASE PassEvaluation \/ Finish
  <2>1. /\ runs \in Runs /\ UNCHANGED <<runs, plan, apps, connections, created>>
        /\ finished' \subseteq finished \cup {runs} /\ Installed(runs)
    BY <1>8 DEF PassEvaluation, Finish
  <2>2. \A r \in Releases : apps[r] # None /\ apps[r].key = runs => connections[r] = runs
    BY <2>1
  <2> QED
    BY <2>1, <2>2
<1>9. CASE Switch
  BY <1>9 DEF Switch
<1>10. CASE UNCHANGED vars
  BY <1>10 DEF vars
<1>11. ASSUME NEW r \in Releases, NEW rotate \in BOOLEAN, Dispatch(r, rotate) PROVE Keys'
  <2>1. /\ UNCHANGED <<apps, connections, created, finished>> /\ runs' = runs + 1
        /\ \A n \in Runs : n <= runs => plan'[n] = plan[n]
    BY <1>11, RunsAssumption DEF Dispatch
  <2>2. \A x \in Releases : apps[x] # None => apps[x].key \in Runs
    BY AppTyped
  <2> QED
    BY <2>1, <2>2
<1>12. ASSUME NEW n \in Runs, DeployIdentity(n) PROVE Keys'
  BY <1>12 DEF DeployIdentity
<1>13. ASSUME NEW n \in Runs, DeployApp(n) PROVE Keys'
  BY <1>13 DEF DeployApp
<1>14. ASSUME NEW n \in Runs, DeployConnection(n) PROVE Keys'
  <2>1. /\ plan[n] # None /\ apps[Release(n)] = [image |-> plan[n].image, key |-> n]
        /\ connections' = [connections EXCEPT ![Release(n)] = n]
        /\ UNCHANGED <<runs, plan, apps, created, finished>>
    BY <1>14 DEF DeployConnection
  <2>2. Release(n) \in Releases
    BY <2>1, PlanTyped
  <2>3. /\ connections'[Release(n)] = n
        /\ \A x \in Releases \ {Release(n)} : connections'[x] = connections[x]
    BY <2>1, <2>2
  <2>4. apps[Release(n)].key = n
    BY <2>1
  <2> QED
    BY <2>1, <2>3, <2>4
<1>15. ASSUME NEW n \in Runs, DeployJob(n) PROVE Keys'
  BY <1>15 DEF DeployJob
<1>16. ASSUME NEW n \in Runs, FailDeployment(n) PROVE Keys'
  BY <1>16 DEF FailDeployment
<1>17. ASSUME NEW r \in Releases, Retire(r) PROVE Keys'
  BY <1>17 DEF Retire
<1> QED
  BY <1>1, <1>2, <1>3, <1>4, <1>5, <1>6, <1>7, <1>8, <1>9, <1>10, <1>11, <1>12, <1>13, <1>14,
     <1>15, <1>16, <1>17
     DEF Next, Workflow, Cloud, Operator

-----------------------------------------------------------------------------
(* The invariant and what follows from it *)

(* Nothing is deployed, planned or accepted at first. *)
LEMMA InitInvariant == Init => IInv
<1> SUFFICES ASSUME Init PROVE IInv
  OBVIOUS
<1> USE DEF Init, Runs
<1>1. TypeOK
  BY RunsAssumption DEF TypeOK, Steps, Stages
<1>2. Control
  BY RunsAssumption
     DEF Control, Fresh, Current, Deploying, Alone, Paced, Act, Active, Underway, Quiet
<1>3. Others /\ Target
  BY DEF Others, Target, Act, Active, Underway, Served
<1>4. AtMostTwo
  BY DEF AtMostTwo, Connected, Deployed
<1>5. VersionsKeepTheirBackend /\ Accepted /\ Keys
  BY DEF VersionsKeepTheirBackend, Accepted, JobRunsAccepted, Keys, FinishedRunsAgreeOnTheKey
<1> QED
  BY <1>1, <1>2, <1>3, <1>4, <1>5 DEF IInv

(* The invariant holds in every reachable state. *)
LEMMA RolloutInvariant == Spec => []IInv
<1>1. ASSUME IInv, [Next]_vars PROVE IInv'
  BY <1>1, TypesKept, FreshKept, CurrentKept, DeployingKept, AloneKept, PacedKept, OthersKept,
     TwoKept, TargetKept, VersionsKept, AcceptedKept, KeysKept DEF IInv, Control
<1> QED
  BY InitInvariant, <1>1, PTL DEF Spec

(* Every release, image, credential and job stays in its set. *)
THEOREM TypeCorrect == Spec => []TypeOK
<1>1. IInv => TypeOK
  BY DEF IInv
<1> QED
  BY <1>1, RolloutInvariant, PTL

(* However runs die, fail or are repeated, "Resolve immutable tool release"
   lets no third release appear beside two. *)
THEOREM TwoReleases == Spec => []AtMostTwoReleases
<1>1. IInv => AtMostTwoReleases
  BY PairIsSmall DEF IInv, AtMostTwo, AtMostTwoReleases
<1> QED
  BY <1>1, RolloutInvariant, PTL

(* An agent version calls the image it was evaluated against until its bundle
   is removed: a release is never deployed twice, and a rotation redeploys the
   image that is live. *)
THEOREM BackendKept == Spec => []VersionsKeepTheirBackend
<1>1. IInv => VersionsKeepTheirBackend
  BY DEF IInv
<1> QED
  BY <1>1, RolloutInvariant, PTL

(* The credential of a run that ended in success is the app's and the
   connection's alike. *)
THEOREM KeysAgree == Spec => []FinishedRunsAgreeOnTheKey
<1>1. IInv => FinishedRunsAgreeOnTheKey
  BY DEF IInv, Keys
<1> QED
  BY <1>1, RolloutInvariant, PTL

(* The traffic job is of an evaluated version and carries its image. *)
THEOREM JobAccepted == Spec => []JobRunsAccepted
<1>1. IInv => JobRunsAccepted
  BY DEF IInv, Accepted
<1> QED
  BY <1>1, RolloutInvariant, PTL

(* A run that is about to finish leaves its release and the retained one,
   both complete, and nothing else. *)
THEOREM RollbackKept == Spec => []RollbackRetained
<1>1. ASSUME IInv PROVE RollbackRetained
  <2> SUFFICES ASSUME pc \in {"retain", "boundary"}
               PROVE  /\ Connected = {Release(runs)} \cup ({plan[runs].previous} \ {None})
                      /\ Connected = Deployed
    BY DEF RollbackRetained
  <2>1. runs \in Runs /\ plan[runs] # None /\ OnlyPrevious(runs) /\ Installed(runs)
    BY <1>1 DEF IInv, Control, Current, Others, Target, Underway, Served
  <2>2. /\ Release(runs) \in Releases
        /\ plan[runs].image \in Runs \cup {None}
        /\ plan[runs].previous \in Releases \cup {None}
    BY <1>1, <2>1, PlanTyped DEF IInv
  <2>3. connections[Release(runs)] # None
    BY <2>1, NotNone DEF Installed
  <2>4. apps[Release(runs)] # None
    <3>1. plan[runs].image \in Runs
      BY <1>1, <2>2 DEF IInv, Control, Current, Underway
    <3> QED
      BY <2>1, <3>1, NotNone DEF Installed
  <2>5. Release(runs) \in Connected /\ Release(runs) \in Deployed
    BY <2>2, <2>3, <2>4 DEF Connected, Deployed
  <2>6. \A r \in Releases \ {Release(runs)} :
           (r \in Connected <=> r = plan[runs].previous)
           /\ (r \in Deployed <=> r = plan[runs].previous)
    BY <2>1 DEF OnlyPrevious
  <2>7. plan[runs].previous # Release(runs)
    BY <2>1 DEF OnlyPrevious
  <2> QED
    BY <2>2, <2>5, <2>6, <2>7, NotNone DEF Connected, Deployed
<1> QED
  BY <1>1, RolloutInvariant, PTL

(* What a step may change about connected releases: one that stays keeps its
   image, and one that a deployment is to replace keeps everything. *)
Untouched(r) ==
    /\ apps'[r] # None => apps'[r].image = apps[r].image
    /\ (\E n \in Runs : Act(n) /\ plan[n].previous = r) =>
           apps'[r] = apps[r] /\ connections'[r] = connections[r]

(* A deployment may rotate a connected release but not replace its image, and
   it never touches the release it is to replace. *)
LEMMA StepKeepsConnected ==
    ASSUME IInv, [Next]_vars, NEW r \in Connected
    PROVE  Untouched(r)
<1> USE DEF Untouched, bundles
<1>0. r \in Releases /\ TypeOK
  BY DEF Connected, IInv
<1>1. CASE UNCHANGED <<apps, connections>>
  BY <1>1
<1>2. ASSUME NEW n \in Runs, DeployApp(n) PROVE Untouched(r)
  <2>1. Act(n) /\ plan[n] # None /\ plan[n].image # None /\ Resolved(n) /\ OnlyPrevious(n)
    BY <1>2 DEF DeployApp, IInv, Control, Deploying, Act, Active, Others, Target
  <2>2. Release(n) \in Releases
    BY <1>0, <2>1, PlanTyped
  <2>3. /\ apps' = [apps EXCEPT ![Release(n)] = [image |-> plan[n].image, key |-> n]]
        /\ connections' = connections
    BY <1>2 DEF DeployApp
  <2>4. apps'[Release(n)].image = plan[n].image
    BY <1>0, <2>2, <2>3 DEF TypeOK
  <2>5. r = Release(n) => apps[r].image = plan[n].image
    BY <2>1 DEF Resolved
  <2>6. r # Release(n) => apps'[r] = apps[r]
    BY <1>0, <2>2, <2>3 DEF TypeOK
  <2>7. \A k \in Runs : Act(k) => plan[k].previous # Release(n)
    BY <2>1 DEF IInv, Control, Alone, OnlyPrevious
  <2> QED
    BY <2>3, <2>4, <2>5, <2>6, <2>7
<1>3. ASSUME NEW n \in Runs, DeployConnection(n) PROVE Untouched(r)
  <2>1. Act(n) /\ OnlyPrevious(n)
    BY <1>3 DEF DeployConnection, IInv, Act, Active, Others
  <2>2. /\ apps' = apps
        /\ connections' = [connections EXCEPT ![Release(n)] = n]
    BY <1>3 DEF DeployConnection
  <2>3. r # Release(n) => connections'[r] = connections[r]
    BY <1>0, <2>2 DEF TypeOK
  <2>4. \A k \in Runs : Act(k) => plan[k].previous # Release(n)
    BY <2>1 DEF IInv, Control, Alone, OnlyPrevious
  <2> QED
    BY <2>2, <2>3, <2>4
<1>4. ASSUME NEW x \in Releases, Retire(x) PROVE Untouched(r)
  <2>1. \A n \in Runs : ~ Act(n)
    BY <1>4 DEF Retire, Act
  <2>2. apps'[r] = None \/ apps'[r] = apps[r]
    BY <1>0, <1>4 DEF Retire, TypeOK
  <2> QED
    BY <2>1, <2>2
<1>5. CASE \/ Workflow \/ Switch \/ UNCHANGED vars
           \/ \E x \in Releases, rotate \in BOOLEAN : Dispatch(x, rotate)
           \/ \E n \in Runs : DeployIdentity(n) \/ DeployJob(n) \/ FailDeployment(n)
  BY <1>1, <1>5
     DEF Workflow, Admit, ResolveNew, ResolveRotation, Refuse, SubmitTool, AwaitTool, Verify,
         CreateCandidate, PassEvaluation, SubmitJob, AwaitJob, Retain, Finish, Stop, Switch,
         vars, Dispatch, DeployIdentity, DeployJob, FailDeployment
<1> QED
  BY <1>2, <1>3, <1>4, <1>5 DEF Next, Cloud, Operator

(* Neither a rotation nor a deployment that outlives its run changes the image
   of a connected release, and nothing happens to the release that a deployment
   under way is to replace. *)
THEOREM ConnectedKept == Spec => ConnectedReleasesKept
<1>1. IInv /\ [Next]_vars =>
         [\A r \in Connected :
            /\ apps'[r] # None => apps'[r].image = apps[r].image
            /\ (\E n \in Runs : stage[n] \in Active /\ plan[n].previous = r) =>
                   apps'[r] = apps[r] /\ connections'[r] = connections[r]]_vars
  BY StepKeepsConnected DEF Untouched, Act
<1> QED
  BY <1>1, RolloutInvariant, PTL DEF Spec, ConnectedReleasesKept

(* However runs are lost and deployments outlive them, there are never parts of
   a third release, and a run about to finish leaves two complete ones. *)
THEOREM ReleasesKept == Spec => []ReleasesRetained
<1>1. AtMostTwoReleases /\ RollbackRetained => ReleasesRetained
  BY DEF ReleasesRetained
<1> QED
  BY <1>1, TwoReleases, RollbackKept, PTL

(* A version goes on calling the backend it was evaluated against, by a
   connection that has a finished run's credential. *)
THEOREM VersionsServe == Spec => []VersionsServeAsMade
<1>1. VersionsKeepTheirBackend /\ FinishedRunsAgreeOnTheKey => VersionsServeAsMade
  BY DEF VersionsServeAsMade
<1> QED
  BY <1>1, BackendKept, KeysAgree, PTL
=============================================================================
