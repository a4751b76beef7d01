---------------------------- MODULE EstateProofs -----------------------------
(***************************************************************************)
(* What the data store, the rehearsals and the registrations promise, for  *)
(* any number of calls, presenters, revisions, requests and registrants.   *)
(***************************************************************************)
EXTENDS DataStore, Rehearsal, Registration, GatewayRehearsal, Toolbox,
        SequenceTheorems, TLAPS

-----------------------------------------------------------------------------
(* DataStore.  The argument is the lock's: who builds holds it, so the     *)
(* file is as that one call left it.                                       *)

(* Every variable stays in its set. *)
THEOREM StoreTypeCorrect == Spec => []TypeOK
<1>1. Init => TypeOK
  BY InterruptionsAssumption DEF Init, TypeOK, Files, Steps
<1>2. TypeOK /\ [Next]_vars => TypeOK'
  <2> SUFFICES ASSUME TypeOK, [Next]_vars PROVE TypeOK'
    OBVIOUS
  <2> USE DEF TypeOK, Files, Steps
  <2>1. ASSUME NEW c \in Calls, Connect(c) \/ Look(c) \/ Acquire(c) \/ Recheck(c)
        PROVE TypeOK'
    BY <2>1 DEF Connect, Look, Acquire, Recheck, Goto
  <2>2. ASSUME NEW c \in Calls, Unlink(c) \/ CreateTables(c) \/ InsertRows(c) \/ FailBuild(c)
        PROVE TypeOK'
    BY <2>2, InterruptionsAssumption DEF Unlink, CreateTables, InsertRows, FailBuild, Goto
  <2>3. ASSUME NEW c \in Calls, Unlock(c) \/ Verify(c) \/ Open(c) \/ Close(c)
        PROVE TypeOK'
    BY <2>3 DEF Unlock, Verify, Open, Close, Goto
  <2>4. CASE Restart
    BY <2>4, InterruptionsAssumption DEF Restart
  <2>5. CASE UNCHANGED vars
    BY <2>5 DEF vars
  <2> QED
    BY <2>1, <2>2, <2>3, <2>4, <2>5 DEF Next, Step
<1> QED
  BY <1>1, <1>2, PTL DEF Spec

-----------------------------------------------------------------------------

(* Whoever is between taking and giving back the lock holds it. *)
Holding == \A c \in Calls : pc[c] \in Locked => lock = c

(* A builder finds the file as its previous step left it. *)
FileAsBuilt ==
    \A c \in Calls : /\ pc[c] \in {"unlink", "create"} => file = "absent"
                     /\ pc[c] = "insert" => file = "tables"

(* A digest that was checked stays true of the file. *)
VerifiedFile ==
    ExpectsDigest => \A c \in Calls : /\ pc[c] = "open" => file = "spine"
                                      /\ pc[c] = "connected" => opened[c] = "spine"

(* While there is no file, either a build is on its way to create it or every
   build so far was interrupted. *)
Paid ==
    /\ BuiltOnce
    /\ file = "absent" => \/ \E c \in Calls : pc[c] \in {"unlink", "create"}
                          \/ builds <= interruptions

StoreInv == TypeOK /\ Holding /\ FileAsBuilt /\ VerifiedFile /\ Paid

(* The invariant, one step at a time. *)
LEMMA StoreInvariant == Spec => []StoreInv
<1> USE DEF StoreInv
<1>1. Init => StoreInv
  <2> SUFFICES ASSUME Init PROVE StoreInv
    OBVIOUS
  <2>1. TypeOK
    BY InterruptionsAssumption DEF Init, TypeOK, Files, Steps
  <2> QED
    BY <2>1 DEF Init, Holding, FileAsBuilt, VerifiedFile, Paid, BuiltOnce, Locked
<1>2. StoreInv /\ TypeOK' /\ [Next]_vars => StoreInv'
  <2> SUFFICES ASSUME StoreInv, TypeOK', [Next]_vars PROVE StoreInv'
    OBVIOUS
  <2> USE DEF TypeOK, Locked
  <2>1. Holding'
    <3>1. ASSUME NEW c \in Calls, Connect(c) \/ Step(c) \/ FailBuild(c) PROVE Holding'
      BY <3>1, NobodyAssumption DEF Holding, Connect, Step, FailBuild, Look, Acquire, Recheck,
         Unlink, CreateTables, InsertRows, Unlock, Verify, Open, Close, Goto, Steps
    <3>2. CASE Restart
      BY <3>2 DEF Holding, Restart
    <3>3. CASE UNCHANGED vars
      BY <3>3 DEF Holding, vars
    <3> QED
      BY <3>1, <3>2, <3>3 DEF Next
  <2>2. FileAsBuilt'
    <3>1. ASSUME NEW c \in Calls, Connect(c) \/ Step(c) \/ FailBuild(c) PROVE FileAsBuilt'
      BY <3>1 DEF FileAsBuilt, Holding, Connect, Step, FailBuild, Look, Acquire, Recheck,
         Unlink, CreateTables, InsertRows, Unlock, Verify, Open, Close, Goto, Steps
    <3>2. CASE Restart
      BY <3>2 DEF FileAsBuilt, Restart
    <3>3. CASE UNCHANGED vars
      BY <3>3 DEF FileAsBuilt, vars
    <3> QED
      BY <3>1, <3>2, <3>3 DEF Next
  <2>3. VerifiedFile'
    <3>1. ASSUME NEW c \in Calls, Connect(c) \/ Step(c) \/ FailBuild(c) PROVE VerifiedFile'
      BY <3>1 DEF VerifiedFile, FileAsBuilt, Connect, Step, FailBuild, Look, Acquire, Recheck,
         Unlink, CreateTables, InsertRows, Unlock, Verify, Open, Close, Goto, Steps
    <3>2. CASE Restart
      BY <3>2 DEF VerifiedFile, Restart
    <3>3. CASE UNCHANGED vars
      BY <3>3 DEF VerifiedFile, vars
    <3> QED
      BY <3>1, <3>2, <3>3 DEF Next
  <2>4. Paid'
    <3> USE DEF Paid, BuiltOnce
    <3>1. ASSUME NEW c \in Calls, Connect(c) \/ Look(c) \/ Acquire(c) \/ Unlock(c)
                                  \/ Verify(c) \/ Open(c) \/ Close(c)
          PROVE Paid'
      BY <3>1 DEF Connect, Look, Acquire, Unlock, Verify, Open, Close, Goto, Steps
    <3>2. ASSUME NEW c \in Calls, Recheck(c) PROVE Paid'
      <4>1. CASE file = "absent"
        <5>1. \A d \in Calls : pc[d] \notin {"unlink", "create"}
          BY <3>2 DEF Holding, Recheck
        <5>2. builds <= interruptions
          BY <4>1, <5>1
        <5>3. builds' = builds + 1 /\ interruptions' = interruptions
          BY <3>2, <4>1 DEF Recheck
        <5>4. pc'[c] = "unlink"
          BY <3>2, <4>1 DEF Recheck, Goto, Steps
        <5> QED
          BY <5>2, <5>3, <5>4
      <4>2. CASE file # "absent"
        BY <3>2, <4>2 DEF Recheck
      <4> QED
        BY <4>1, <4>2
    <3>3. ASSUME NEW c \in Calls, Unlink(c) \/ CreateTables(c) \/ InsertRows(c) PROVE Paid'
      BY <3>3 DEF Unlink, CreateTables, InsertRows, Goto, Steps
    <3>4. ASSUME NEW c \in Calls, FailBuild(c) PROVE Paid'
      BY <3>4 DEF FailBuild
    <3>5. CASE Restart
      BY <3>5 DEF Restart
    <3>6. CASE UNCHANGED vars
      BY <3>6 DEF vars
    <3> QED
      BY <3>1, <3>2, <3>3, <3>4, <3>5, <3>6 DEF Next, Step
  <2> QED
    BY <2>1, <2>2, <2>3, <2>4
<1> QED
  BY <1>1, <1>2, StoreTypeCorrect, PTL DEF Spec

(* With a digest no tool call ever reads anything but the whole spine. *)
THEOREM Connections == Spec => []ConnectionsAreVerified
<1>1. StoreInv => ConnectionsAreVerified
  BY DEF StoreInv, VerifiedFile, ConnectionsAreVerified
<1> QED
  BY <1>1, StoreInvariant, PTL

(* Without interruptions the spine is built at most once. *)
THEOREM BuildsPaid == Spec => []BuiltOnce
<1>1. StoreInv => BuiltOnce
  BY DEF StoreInv, Paid
<1> QED
  BY <1>1, StoreInvariant, PTL

(* A spine that is there is never unlinked or written again. *)
THEOREM SpineKept == Spec => SpineIsImmutable
<1>1. StoreInv /\ [Next]_vars => [file = "spine" => file' = "spine"]_vars
  <2> SUFFICES ASSUME StoreInv, Next, file = "spine" PROVE file' = "spine"
    BY DEF vars
  <2>1. ASSUME NEW c \in Calls, Connect(c) \/ Step(c) \/ FailBuild(c) PROVE file' = "spine"
    BY <2>1 DEF StoreInv, FileAsBuilt, Connect, Step, FailBuild, Look, Acquire, Recheck,
       Unlink, CreateTables, InsertRows, Unlock, Verify, Open, Close
  <2>2. CASE Restart
    BY <2>2 DEF Restart
  <2> QED
    BY <2>1, <2>2 DEF Next
<1> QED
  BY <1>1, StoreInvariant, PTL DEF Spec, SpineIsImmutable

(* For any number of calls, connections are to a whole spine, and a second build
   takes an interruption. *)
THEOREM StoreSound == Spec => []StoreIsSound
<1>1. ConnectionsAreVerified /\ BuiltOnce => StoreIsSound
  BY DEF StoreIsSound
<1> QED
  BY <1>1, Connections, BuildsPaid, PTL

-----------------------------------------------------------------------------
(* Rehearsal.  Three arguments: what scaled up is on its way to scaling    *)
(* down; a replica that still runs is active, so who saw no other revision *)
(* active and none of its own running saw it stop; and the steps up to the *)
(* work order are taken once.                                              *)

\* The types of the cloud's variables, and of the rest.
CloudTypes ==
    /\ latest \in Revisions /\ ready \in 1 .. latest /\ floor \in [Revisions -> 0 .. 1]
    /\ running \cup {latest} \subseteq active /\ active \subseteq 1 .. latest
    /\ deploying \in BOOLEAN /\ setbacks \in Nat

ProcessTypes ==
    /\ resumes \in Nat
    /\ place \in [Rehearsals -> Phases \cup Ends]
    /\ look \in [Rehearsals -> {"app", "revisions", "replicas"}]
    /\ seen \in [Rehearsals -> Revisions \cup {None}]
    /\ before \in [Rehearsals -> Revisions \cup {None}]
    /\ failing \subseteq Rehearsals /\ resumed \subseteq Rehearsals
    /\ stranded \subseteq Rehearsals

EvidenceTypes ==
    /\ executed \in [Rehearsals -> Revisions \cup {None}]
    /\ inferences \in [Rehearsals -> Nat]
    /\ held \subseteq Rehearsals /\ wrong \subseteq Rehearsals
    /\ spans \subseteq Rehearsals

LEMMA TypeParts == RehearsalTypes <=> CloudTypes /\ ProcessTypes /\ EvidenceTypes
  BY DEF RehearsalTypes, CloudTypes, ProcessTypes, EvidenceTypes

-----------------------------------------------------------------------------
(* The app in the cloud *)

(* A new minimum is that of the newest revision, and runs nothing yet. *)
LEMMA SetFloorTypes ==
    ASSUME CloudTypes, NEW n \in 0 .. 1, SetFloor(n),
           deploying' \in BOOLEAN, setbacks' \in Nat
    PROVE  CloudTypes' /\ floor'[latest'] = n /\ UNCHANGED <<ready, running>>
<1>1. latest' \in Revisions /\ latest <= latest' /\ UNCHANGED <<ready, running>>
  BY BoundsAssumption DEF CloudTypes, Revisions, SetFloor
<1>2. floor' \in [Revisions -> 0 .. 1] /\ floor'[latest'] = n
  BY <1>1 DEF CloudTypes, SetFloor
<1>3. running' \cup {latest'} \subseteq active' /\ active' \subseteq 1 .. latest'
  BY <1>1 DEF CloudTypes, Revisions, SetFloor
<1>4. ready' \in 1 .. latest'
  BY <1>1, BoundsAssumption DEF CloudTypes, Revisions
<1> QED
  BY <1>1, <1>2, <1>3, <1>4 DEF CloudTypes

(* What the cloud does by itself raises no minimum, and leaves the          *)
(* processes alone; what was held is held while the replica runs.          *)
LEMMA ServiceSteps ==
    ASSUME CloudTypes, Service
    PROVE  /\ CloudTypes' /\ (floor'[latest'] = 1 => floor[latest] = 1)
           /\ held' = {r \in held : executed[r] \in running'}
           /\ UNCHANGED <<place, look, seen, before, failing, resumed, resumes, executed, inferences,
                          wrong, spans, stranded>>
<1>1. CASE BecomeReady
  BY <1>1 DEF BecomeReady, CloudTypes, Service, local, past
<1>2. CASE DeactivateOld
  <2>1. active' = active \cap ready .. latest /\ running' = running \cap ready .. latest
        /\ floor' = [v \in Revisions |-> IF v < ready THEN 0 ELSE floor[v]]
        /\ UNCHANGED <<latest, ready, deploying, setbacks>>
    BY <1>2 DEF DeactivateOld
  <2>2. latest \in Nat /\ ready \in Nat /\ ready <= latest /\ latest \in ready .. latest
    BY BoundsAssumption DEF CloudTypes, Revisions
  <2> QED
    BY <2>1, <2>2 DEF CloudTypes, Service, local, past
<1>3. CASE \E v \in Revisions : StopReplica(v)
  BY <1>3 DEF StopReplica, CloudTypes, Service, local, past
<1>4. CASE StartDeployment
  BY <1>4 DEF StartDeployment, app, CloudTypes, Service, local, past
<1>5. CASE FinishDeployment
  <2>1. SetFloor(0) /\ deploying' = FALSE /\ setbacks' = setbacks
    BY <1>5 DEF FinishDeployment
  <2>2. CloudTypes' /\ floor'[latest'] = 0
    <3>1. deploying' \in BOOLEAN
      BY <2>1, Zenon
    <3>2. 0 \in 0 .. 1 /\ setbacks' \in Nat
      BY <2>1 DEF CloudTypes
    <3> QED
      BY <2>1, <3>1, <3>2, SetFloorTypes
  <2> QED
    BY <2>2 DEF Service, local, past
<1> QED
  BY <1>1, <1>2, <1>3, <1>4, <1>5 DEF Service

-----------------------------------------------------------------------------
(* Types *)

(* Every step of a process keeps the types. *)
LEMMA ActTypes ==
    ASSUME RehearsalTypes, NEW r \in Rehearsals, Act(r) \/ Resume(r) \/ Die(r)
    PROVE  RehearsalTypes'
<1>0. CloudTypes /\ ProcessTypes /\ EvidenceTypes
  BY TypeParts
<1> SUFFICES CloudTypes' /\ ProcessTypes' /\ EvidenceTypes'
  BY DEF RehearsalTypes, CloudTypes, ProcessTypes, EvidenceTypes
<1> USE <1>0
<1>1. CASE ScaleUp(r) \/ ScaleDown(r)
  <2>1. PICK n \in 0 .. 1 : SetFloor(n)
    BY <1>1 DEF ScaleUp, ScaleDown
  <2>2. UNCHANGED <<deploying, setbacks, evidence, seen, before, failing, past, stranded>>
    BY <1>1 DEF ScaleUp, ScaleDown, local
  <2>3. CloudTypes'
    BY <2>1, <2>2, SetFloorTypes DEF CloudTypes
  <2>4. place' \in [Rehearsals -> Phases \cup Ends] /\ look' \in [Rehearsals -> {"app", "revisions", "replicas"}]
    BY <1>1 DEF ScaleUp, ScaleDown, Moves, Phases, local, ProcessTypes
  <2> QED
    BY <2>2, <2>3, <2>4 DEF ProcessTypes, EvidenceTypes, evidence, past
<1>2. CASE Execute(r)
  <2>1. UNCHANGED <<app, deploying>> /\ setbacks' \in Nat
    BY <1>2 DEF Execute, RunSmoke, CloudTypes, evidence
  <2>2. CloudTypes'
    BY <2>1 DEF CloudTypes, app
  <2>3. ProcessTypes'
    BY <1>2 DEF Execute, ProcessTypes, Phases, local, past
  <2>4. inferences' = [inferences EXCEPT ![r] = @ + 1] /\ wrong' \in {wrong, wrong \cup {r}}
        /\ spans' \in {spans, spans \cup {r}} /\ held' \in {held, held \cup {r}}
        /\ executed' \in {executed, [executed EXCEPT ![r] = seen[r]]}
    BY <1>2 DEF Execute, RunSmoke
  <2>5. EvidenceTypes'
    BY <2>4 DEF EvidenceTypes, ProcessTypes
  <2> QED
    BY <2>2, <2>3, <2>5
<1>3. CASE Die(r)
  <2>1. UNCHANGED <<app, deploying, evidence>> /\ setbacks' \in Nat
    BY <1>3 DEF Die, CloudTypes
  <2>2. ProcessTypes'
    BY <1>3 DEF Die, Forget, ProcessTypes, Ends, past
  <2> QED
    BY <2>1, <2>2 DEF CloudTypes, EvidenceTypes, app, evidence
<1>4. CASE Resume(r)
  <2>1. UNCHANGED <<cloud, local, failing, evidence, stranded>> /\ resumes' \in Nat
        /\ place' = [place EXCEPT ![r] = "verify"] /\ resumed' = resumed \cup {r}
    BY <1>4 DEF Resume, ProcessTypes
  <2> QED
    BY <2>1 DEF CloudTypes, ProcessTypes, EvidenceTypes, cloud, app, local, evidence, Phases
<1>5. CASE Inspect(r) \/ Deployments(r) \/ SeeRevision(r) \/ SeeReplica(r) \/ CheckAnswer(r)
          \/ ReadEvidence(r) \/ Telemetry(r)
  <2>1. UNCHANGED <<cloud, look, failing, past, evidence, stranded>>
    BY <1>5 DEF Inspect, Deployments, SeeRevision, SeeReplica, CheckAnswer, ReadEvidence, Telemetry, local
  <2>2. /\ \E to \in Phases \cup Ends : place' = [place EXCEPT ![r] = to]
        /\ seen' \in {seen, [seen EXCEPT ![r] = ready]}
        /\ before' \in {before, [before EXCEPT ![r] = ready]}
    BY <1>5 DEF Inspect, Deployments, SeeRevision, SeeReplica, CheckAnswer, ReadEvidence, Telemetry,
                local, Moves, Phases, Ends
  <2>3. ready \in Revisions
    BY BoundsAssumption DEF CloudTypes, Revisions
  <2> QED
    BY <2>1, <2>2, <2>3 DEF CloudTypes, ProcessTypes, EvidenceTypes, cloud, app, evidence, past
<1>6. CASE Throw(r) \/ Refuse(r) \/ ScaleDownFails(r)
  BY <1>6 DEF Throw, Refuse, ScaleDownFails, Forget, Moves, Phases, Ends, CloudTypes, ProcessTypes,
              EvidenceTypes, cloud, app, local, past, evidence
<1>7. CASE LookAtApp(r) \/ LookAtRevisions(r) \/ LookAtReplicas(r)
  <2>1. UNCHANGED <<cloud, before, past, evidence, stranded>> /\ failing' \subseteq failing
    BY <1>7 DEF LookAtApp, LookAtRevisions, LookAtReplicas, Forget
  <2>2. /\ place' = place \/ \E to \in Phases \cup Ends : place' = [place EXCEPT ![r] = to]
        /\ seen' = seen \/ \E v \in {ready, None} : seen' = [seen EXCEPT ![r] = v]
        /\ \E l \in {"app", "revisions", "replicas"} : look' = [look EXCEPT ![r] = l]
    BY <1>7 DEF LookAtApp, LookAtRevisions, LookAtReplicas, AfterRest, Forget, Phases, Ends
  <2>3. ready \in Revisions
    BY BoundsAssumption DEF CloudTypes, Revisions
  <2> QED
    BY <2>1, <2>2, <2>3 DEF CloudTypes, ProcessTypes, EvidenceTypes, cloud, app, evidence, past
<1> QED
  BY <1>1, <1>2, <1>3, <1>4, <1>5, <1>6, <1>7 DEF Act

(* Every variable stays in its set. *)
THEOREM RehearsalTypeCorrect == RehearsalSpec => []RehearsalTypes
<1>1. RehearsalInit => RehearsalTypes
  <2> SUFFICES ASSUME RehearsalInit PROVE CloudTypes /\ ProcessTypes /\ EvidenceTypes
    BY TypeParts
  <2>1. deploying \in BOOLEAN
    BY Zenon DEF RehearsalInit
  <2>2. CloudTypes
    BY <2>1, BoundsAssumption DEF RehearsalInit, CloudTypes, Revisions
  <2>3. ProcessTypes
    BY BoundsAssumption DEF RehearsalInit, ProcessTypes, Phases, Ends
  <2>4. EvidenceTypes
    BY DEF RehearsalInit, EvidenceTypes
  <2> QED
    BY <2>2, <2>3, <2>4
<1>2. RehearsalTypes /\ [RehearsalNext]_rehearsal => RehearsalTypes'
  <2> SUFFICES ASSUME RehearsalTypes, [RehearsalNext]_rehearsal PROVE RehearsalTypes'
    OBVIOUS
  <2>1. CASE Service
    <3>1. CloudTypes /\ ProcessTypes /\ EvidenceTypes
      BY TypeParts
    <3>2. CloudTypes' /\ ProcessTypes'
      BY <2>1, <3>1, ServiceSteps DEF ProcessTypes
    <3>3. EvidenceTypes'
      BY <2>1, <3>1, ServiceSteps DEF EvidenceTypes
    <3> QED
      BY <3>2, <3>3 DEF RehearsalTypes, CloudTypes, ProcessTypes, EvidenceTypes
  <2>2. CASE \E r \in Rehearsals : Act(r) \/ Resume(r) \/ Die(r)
    BY <2>2, ActTypes
  <2>3. CASE UNCHANGED rehearsal
    BY <2>3 DEF rehearsal, cloud, app, local, evidence, RehearsalTypes
  <2> QED
    BY <2>1, <2>2, <2>3 DEF RehearsalNext
<1> QED
  BY <1>1, <1>2, PTL DEF RehearsalSpec

-----------------------------------------------------------------------------
(* Capacity *)

(* Who raises the minimum is on its way to lowering it, or is stranded     *)
(* (demo.py:281-285), however many presenters share the app.               *)
THEOREM CapacityOwned == RehearsalSpec => []CapacityHasOwner
<1>1. RehearsalInit => CapacityHasOwner
  BY BoundsAssumption DEF RehearsalInit, CapacityHasOwner, Revisions
<1>2. RehearsalTypes /\ CapacityHasOwner /\ [RehearsalNext]_rehearsal => CapacityHasOwner'
  <2> SUFFICES ASSUME RehearsalTypes, CapacityHasOwner, [RehearsalNext]_rehearsal, floor'[latest'] = 1
               PROVE (stranded # {} \/ \E r \in Rehearsals : place[r] \in Scaled)'
    BY DEF CapacityHasOwner
  <2>0. CloudTypes /\ ProcessTypes
    BY TypeParts
  <2>1. CASE Service
    BY <2>0, <2>1, ServiceSteps DEF CapacityHasOwner
  <2>2. ASSUME NEW r \in Rehearsals, ScaleUp(r) PROVE place'[r] \in Scaled
    BY <2>0, <2>2 DEF ScaleUp, Moves, Scaled, ProcessTypes
  <2>3. ASSUME NEW r \in Rehearsals, ScaleDown(r) PROVE FALSE
    <3>1. SetFloor(0) /\ UNCHANGED <<deploying, setbacks>>
      BY <2>3 DEF ScaleDown
    <3>2. 0 \in 0 .. 1 /\ deploying' \in BOOLEAN /\ setbacks' \in Nat
      BY <2>0, <3>1 DEF CloudTypes
    <3> QED
      BY <2>0, <3>1, <3>2, SetFloorTypes
  <2>4. ASSUME NEW r \in Rehearsals, ScaleDownFails(r) \/ Die(r)
        PROVE (stranded # {} \/ \E q \in Rehearsals : place[q] \in Scaled)'
    <3>1. UNCHANGED app /\ stranded \subseteq stranded'
          /\ (place[r] \in Scaled => r \in stranded')
          /\ \E to \in Ends : place' = [place EXCEPT ![r] = to]
      BY <2>4 DEF ScaleDownFails, Die, Moves, Scaled, Ends, cloud
    <3> QED
      BY <2>0, <3>1 DEF CapacityHasOwner, ProcessTypes, app
  <2>5. ASSUME NEW r \in Rehearsals, place[r] \in Scaled => place'[r] \in Scaled,
               \A q \in Rehearsals \ {r} : place'[q] = place[q], UNCHANGED <<app, stranded>>
        PROVE (stranded # {} \/ \E q \in Rehearsals : place[q] \in Scaled)'
    BY <2>5 DEF CapacityHasOwner, app
  <2>6. ASSUME NEW r \in Rehearsals, Execute(r) \/ CheckAnswer(r) \/ SeeRevision(r) \/ SeeReplica(r) \/ Throw(r)
        PROVE (stranded # {} \/ \E q \in Rehearsals : place[q] \in Scaled)'
    <3>1. place'[r] \in Scaled
      BY <2>0, <2>6 DEF Execute, CheckAnswer, SeeRevision, SeeReplica, Throw, Moves, Scaled, ProcessTypes
    <3> QED
      BY <3>1
  <2>7. ASSUME NEW r \in Rehearsals,
               Inspect(r) \/ Deployments(r) \/ Refuse(r) \/ LookAtApp(r) \/ LookAtRevisions(r)
               \/ LookAtReplicas(r) \/ ReadEvidence(r) \/ Telemetry(r) \/ Resume(r)
        PROVE (stranded # {} \/ \E q \in Rehearsals : place[q] \in Scaled)'
    <3>1. place[r] \notin Scaled /\ UNCHANGED <<app, stranded>>
      BY <2>7 DEF Inspect, Deployments, Refuse, LookAtApp, LookAtRevisions, LookAtReplicas,
                  ReadEvidence, Telemetry, Resume, Waiting, Moves, Scaled, cloud
    <3>2. \A q \in Rehearsals \ {r} : place'[q] = place[q]
      BY <2>0, <2>7 DEF Inspect, Deployments, Refuse, LookAtApp, LookAtRevisions, LookAtReplicas,
                  ReadEvidence, Telemetry, Resume, Moves, ProcessTypes
    <3> QED
      BY <2>5, <3>1, <3>2
  <2>8. CASE UNCHANGED rehearsal
    BY <2>8 DEF rehearsal, cloud, app, CapacityHasOwner
  <2> QED
    BY <2>1, <2>2, <2>3, <2>4, <2>6, <2>7, <2>8 DEF RehearsalNext, Act
<1> QED
  BY <1>1, <1>2, RehearsalTypeCorrect, PTL DEF RehearsalSpec

-----------------------------------------------------------------------------
(* The replica *)

\* A replica that is held runs; who saw no other active revision saw that one.
ReplicaSeen ==
    /\ \A r \in held : executed[r] \in running
    /\ \A r \in Rehearsals : ~ Waiting(r) => look[r] = "app"
    /\ \A r \in held : place[r] = "witness" /\ look[r] = "replicas" => executed[r] = seen[r]
    /\ \A r \in held : place[r] \notin {"telemetry", "passed"}

LEMMA ReplicaKept ==
    ASSUME RehearsalTypes, ReplicaSeen, NEW r \in Rehearsals, Act(r) \/ Resume(r) \/ Die(r)
    PROVE  ReplicaSeen'
<1>0. CloudTypes /\ ProcessTypes /\ EvidenceTypes
  BY TypeParts
<1> USE <1>0 DEF ProcessTypes, EvidenceTypes
<1>1. CASE Execute(r)
  <2>1. /\ place[r] = "execute" /\ seen[r] \in running
        /\ UNCHANGED <<running, look, seen>>
        /\ \/ executed' = [executed EXCEPT ![r] = seen[r]] /\ held' = held \cup {r}
              /\ place' = [place EXCEPT ![r] = "check"]
           \/ UNCHANGED <<executed, held>> /\ place' = [place EXCEPT ![r] = "scaleDown"]
    BY <1>1 DEF Execute, app, local
  <2> QED
    BY <2>1 DEF ReplicaSeen, Waiting
<1>2. ASSUME UNCHANGED <<running, executed, held>>,
             \E to \in Phases \cup Ends : place' = [place EXCEPT ![r] = to],
             place'[r] \in {"telemetry", "passed"} => r \notin held,
             \A q \in Rehearsals \ {r} : look'[q] = look[q] /\ seen'[q] = seen[q],
             ~ Waiting(r)' => look'[r] = "app",
             r \in held /\ place'[r] = "witness" /\ look'[r] = "replicas" => executed[r] = seen'[r]
      PROVE  ReplicaSeen'
  BY <1>2 DEF ReplicaSeen, Waiting
<1>3. CASE Inspect(r) \/ Deployments(r) \/ SeeRevision(r) \/ SeeReplica(r) \/ CheckAnswer(r) \/ Resume(r)
           \/ ReadEvidence(r) \/ Throw(r)
  <2>1. /\ UNCHANGED <<running, executed, held, look>> /\ ~ Waiting(r)
        /\ \E to \in Phases : place' = [place EXCEPT ![r] = to] /\ to \notin {"telemetry", "passed"}
        /\ \A q \in Rehearsals \ {r} : seen'[q] = seen[q]
    BY <1>3 DEF Inspect, Deployments, SeeRevision, SeeReplica, CheckAnswer, Resume, ReadEvidence, Throw,
                Moves, Phases, Waiting, Ends, cloud, app, local, evidence
  <2>2. look'[r] = "app"
    BY <2>1 DEF ReplicaSeen
  <2> QED
    BY <1>2, <2>1, <2>2 DEF Waiting
<1>4. CASE ScaleUp(r) \/ ScaleDown(r)
  <2>1. /\ UNCHANGED <<running, executed, held, seen>> /\ ~ Waiting(r)
        /\ \E to \in {"revision", "rest"} : place' = [place EXCEPT ![r] = to]
        /\ look' \in {look, [look EXCEPT ![r] = "app"]}
    BY <1>4 DEF ScaleUp, ScaleDown, SetFloor, Moves, Waiting, local, evidence
  <2>2. look'[r] = "app"
    BY <2>1 DEF ReplicaSeen
  <2> QED
    BY <1>2, <2>1, <2>2 DEF Phases
<1>5. CASE Refuse(r) \/ ScaleDownFails(r) \/ Die(r)
  <2>1. /\ UNCHANGED <<running, executed, held>>
        /\ \E to \in {"failed", "dead"} : place' = [place EXCEPT ![r] = to]
        /\ look' = [look EXCEPT ![r] = "app"] /\ seen' = [seen EXCEPT ![r] = None]
    BY <1>5 DEF Refuse, ScaleDownFails, Die, Forget, Moves, cloud, app, evidence
  <2> QED
    BY <1>2, <2>1 DEF Ends
<1>6. CASE Telemetry(r)
  <2>1. /\ UNCHANGED <<running, executed, held, look, seen>> /\ place[r] = "telemetry"
        /\ place' = [place EXCEPT ![r] = "passed"]
    BY <1>6 DEF Telemetry, Moves, cloud, app, local, evidence
  <2>2. r \notin held /\ look'[r] = "app"
    BY <2>1 DEF ReplicaSeen, Waiting
  <2> QED
    BY <1>2, <2>1, <2>2 DEF Ends
<1>7. CASE LookAtApp(r)
  BY <1>7 DEF LookAtApp, ReplicaSeen, Waiting, cloud, app, evidence
<1>8. CASE LookAtRevisions(r)
  <2>1. /\ UNCHANGED <<running, executed, held, place, seen>> /\ Waiting(r)
        /\ look' = [look EXCEPT ![r] = IF active \subseteq {seen[r]} THEN "replicas" ELSE "app"]
    BY <1>8 DEF LookAtRevisions, cloud, app, evidence
  <2>2. r \in held /\ active \subseteq {seen[r]} => executed[r] = seen[r]
    BY DEF ReplicaSeen, CloudTypes
  <2> QED
    BY <2>1, <2>2 DEF ReplicaSeen, Waiting
<1>9. CASE LookAtReplicas(r)
  <2>1. /\ UNCHANGED <<running, executed, held>> /\ Waiting(r) /\ look[r] = "replicas"
        /\ look' = [look EXCEPT ![r] = "app"]
    BY <1>9 DEF LookAtReplicas, Forget, cloud, app, evidence
  <2>2. CASE seen[r] \in running
    BY <1>9, <2>1, <2>2 DEF LookAtReplicas, ReplicaSeen, Waiting
  <2>3. CASE seen[r] \notin running
    <3>1. /\ place' = [place EXCEPT ![r] = AfterRest(r)] /\ seen' = [seen EXCEPT ![r] = None]
          /\ AfterRest(r) \in {"telemetry", "failed", "verify"}
          /\ AfterRest(r) = "telemetry" => place[r] = "witness"
      BY <1>9, <2>3 DEF LookAtReplicas, Forget, AfterRest
    <3>2. place[r] = "witness" => r \notin held
      BY <2>1, <2>3 DEF ReplicaSeen
    <3> QED
      BY <1>2, <2>1, <3>1, <3>2 DEF Phases, Ends
  <2> QED
    BY <2>2, <2>3
<1> QED
  BY <1>1, <1>3, <1>4, <1>5, <1>6, <1>7, <1>8, <1>9 DEF Act

(* A rehearsal that passed, in whatever process, saw the replica of its    *)
(* own run stop, though others start and stop replicas meanwhile           *)
(* (demo.py:335-346).                                                      *)
THEOREM PassedStopped == RehearsalSpec => []PassedReplicaStopped
<1>1. RehearsalInit => ReplicaSeen
  BY DEF RehearsalInit, ReplicaSeen, Waiting
<1>2. RehearsalTypes /\ ReplicaSeen /\ [RehearsalNext]_rehearsal => ReplicaSeen'
  <2> SUFFICES ASSUME RehearsalTypes, ReplicaSeen, [RehearsalNext]_rehearsal PROVE ReplicaSeen'
    OBVIOUS
  <2>1. CASE Service
    <3>1. /\ held' = {r \in held : executed[r] \in running'}
          /\ UNCHANGED <<place, look, seen, executed>>
      BY <2>1, TypeParts, ServiceSteps
    <3> QED
      BY <3>1 DEF ReplicaSeen, Waiting
  <2>2. CASE \E r \in Rehearsals : Act(r) \/ Resume(r) \/ Die(r)
    BY <2>2, ReplicaKept
  <2>3. CASE UNCHANGED rehearsal
    BY <2>3 DEF rehearsal, cloud, app, local, evidence, ReplicaSeen, Waiting
  <2> QED
    BY <2>1, <2>2, <2>3 DEF RehearsalNext
<1>3. ReplicaSeen => PassedReplicaStopped
  BY DEF ReplicaSeen, PassedReplicaStopped
<1> QED
  BY <1>1, <1>2, <1>3, RehearsalTypeCorrect, PTL DEF RehearsalSpec

-----------------------------------------------------------------------------
(* The run *)

\* The steps up to the work order, and those that rest on its evidence.
Preparing == {"inspect", "deployments", "scaleUp", "revision", "replica", "execute"}
Finishing == {"verify", "witness", "telemetry"} \cup Ends

\* No step before the work order comes twice, and what passed was read.
RunOnce ==
    /\ \A r \in Rehearsals : place[r] \in Preparing => inferences[r] = 0
    /\ \A r \in Rehearsals : executed[r] # None => inferences[r] = 1
    /\ \A r \in Rehearsals :
          place[r] \in {"witness", "telemetry", "passed"} => executed[r] # None /\ r \notin wrong
    /\ \A r \in Rehearsals : place[r] = "passed" => r \in spans
    /\ \A r \in resumed : place[r] \in Finishing

LEMMA RunKept ==
    ASSUME RehearsalTypes, RunOnce, NEW r \in Rehearsals, Act(r) \/ Resume(r) \/ Die(r)
    PROVE  /\ RunOnce' /\ resumed \subseteq resumed'
           /\ \A q \in resumed : inferences'[q] = inferences[q]
<1>0. ProcessTypes /\ EvidenceTypes
  BY TypeParts
<1> USE <1>0 DEF ProcessTypes, EvidenceTypes
<1>1. CASE Execute(r)
  <2>1. /\ place[r] = "execute" /\ resumed' = resumed
        /\ inferences' = [inferences EXCEPT ![r] = @ + 1]
        /\ wrong' \in {wrong, wrong \cup {r}} /\ spans \subseteq spans'
        /\ executed' \in {executed, [executed EXCEPT ![r] = seen[r]]}
        /\ \E to \in {"check", "scaleDown"} : place' = [place EXCEPT ![r] = to]
    BY <1>1 DEF Execute, RunSmoke, past
  <2>2. inferences[r] = 0 /\ r \notin resumed
    BY <2>1 DEF RunOnce, Preparing, Finishing, Ends
  <2>3. inferences'[r] = 1 /\ executed[r] = None
    BY <2>1, <2>2 DEF RunOnce
  <2> QED
    BY <2>1, <2>2, <2>3 DEF RunOnce, Preparing
<1>2. ASSUME UNCHANGED evidence,
             \E to \in Phases \cup Ends : place' = [place EXCEPT ![r] = to],
             place'[r] \in Preparing => place[r] \in Preparing,
             place'[r] \in {"witness", "telemetry", "passed"} =>
                 \/ place[r] \in {"witness", "telemetry", "passed"}
                 \/ executed[r] # None /\ r \notin wrong,
             place'[r] = "passed" => r \in spans,
             resumed' = resumed \/ resumed' = resumed \cup {r},
             r \in resumed' => place'[r] \in Finishing
      PROVE  RunOnce' /\ resumed \subseteq resumed' /\ inferences' = inferences
  BY <1>2 DEF RunOnce, evidence
<1>3. CASE Inspect(r) \/ Deployments(r) \/ ScaleUp(r) \/ SeeRevision(r) \/ SeeReplica(r)
  <2>1. /\ place[r] \in Preparing /\ UNCHANGED <<evidence, resumed>>
        /\ \E to \in Preparing : place' = [place EXCEPT ![r] = to]
    BY <1>3 DEF Inspect, Deployments, ScaleUp, SeeRevision, SeeReplica, Moves, Preparing, past
  <2>2. r \notin resumed
    BY <2>1 DEF RunOnce, Preparing, Finishing, Ends
  <2> QED
    BY <1>2, <2>1, <2>2 DEF Preparing, Phases
<1>4. CASE CheckAnswer(r) \/ Throw(r) \/ ScaleDown(r)
  <2>1. /\ place[r] \notin Finishing /\ UNCHANGED <<evidence, resumed>>
        /\ \E to \in {"scaleDown", "rest"} : place' = [place EXCEPT ![r] = to]
    BY <1>4 DEF CheckAnswer, Throw, ScaleDown, Moves, Finishing, Ends, past
  <2>2. r \notin resumed
    BY <2>1 DEF RunOnce
  <2> QED
    BY <1>2, <2>1, <2>2 DEF Preparing, Phases
<1>5. CASE Refuse(r) \/ ScaleDownFails(r) \/ Die(r)
  <2>1. UNCHANGED <<evidence, resumed>> /\ \E to \in {"failed", "dead"} : place' = [place EXCEPT ![r] = to]
    BY <1>5 DEF Refuse, ScaleDownFails, Die, Moves, past
  <2> QED
    BY <1>2, <2>1 DEF Preparing, Finishing, Ends
<1>6. CASE LookAtApp(r) \/ LookAtRevisions(r)
  <2>1. UNCHANGED <<evidence, resumed, place>>
    BY <1>6 DEF LookAtApp, LookAtRevisions, past
  <2> QED
    BY <2>1 DEF RunOnce, evidence
<1>7. CASE LookAtReplicas(r)
  <2>1. UNCHANGED <<evidence, resumed>> /\ Waiting(r)
    BY <1>7 DEF LookAtReplicas, past
  <2>2. \/ UNCHANGED place
        \/ /\ place' = [place EXCEPT ![r] = AfterRest(r)] /\ AfterRest(r) \in {"telemetry", "failed", "verify"}
           /\ AfterRest(r) = "telemetry" => place[r] = "witness"
    BY <1>7 DEF LookAtReplicas, AfterRest
  <2>3. CASE UNCHANGED place
    BY <2>1, <2>3 DEF RunOnce, evidence
  <2> QED
    BY <1>2, <2>1, <2>2, <2>3 DEF Preparing, Finishing, Ends, Phases, RunOnce
<1>8. CASE ReadEvidence(r)
  <2>1. /\ executed[r] # None /\ r \notin wrong /\ UNCHANGED <<evidence, resumed>>
        /\ place' = [place EXCEPT ![r] = "witness"]
    BY <1>8 DEF ReadEvidence, Moves, past
  <2> QED
    BY <1>2, <2>1 DEF Preparing, Finishing, Phases
<1>9. CASE Telemetry(r)
  <2>1. /\ place[r] = "telemetry" /\ r \in spans /\ UNCHANGED <<evidence, resumed>>
        /\ place' = [place EXCEPT ![r] = "passed"]
    BY <1>9 DEF Telemetry, Moves, past
  <2> QED
    BY <1>2, <2>1 DEF Preparing, Finishing, Ends
<1>10. CASE Resume(r)
  <2>1. UNCHANGED evidence /\ resumed' = resumed \cup {r} /\ place' = [place EXCEPT ![r] = "verify"]
    BY <1>10 DEF Resume
  <2> QED
    BY <1>2, <2>1 DEF Preparing, Finishing, Phases
<1> QED
  BY <1>1, <1>3, <1>4, <1>5, <1>6, <1>7, <1>8, <1>9, <1>10 DEF Act

\* What the cloud does, and nothing at all, change no run.
LEMMA RunUntouched ==
    ASSUME RehearsalTypes, RunOnce, Service \/ UNCHANGED rehearsal
    PROVE  RunOnce' /\ UNCHANGED <<resumed, inferences>>
<1>1. UNCHANGED <<place, resumed, executed, inferences, wrong, spans>>
  BY TypeParts, ServiceSteps DEF rehearsal, evidence
<1> QED
  BY <1>1 DEF RunOnce

LEMMA RunInvariant == RehearsalSpec => []RunOnce
<1>1. RehearsalInit => RunOnce
  BY DEF RehearsalInit, RunOnce, Preparing
<1>2. RehearsalTypes /\ RunOnce /\ [RehearsalNext]_rehearsal => RunOnce'
  BY RunKept, RunUntouched DEF RehearsalNext
<1> QED
  BY <1>1, <1>2, RehearsalTypeCorrect, PTL DEF RehearsalSpec

(* A rehearsal passes on one run of its work order, the right answer and   *)
(* the run's spans, also when another process finishes it                  *)
(* (demo.py:291-347).                                                      *)
THEOREM PassedRightly == RehearsalSpec => []PassedOnOwnRun
<1>1. RunOnce => PassedOnOwnRun
  BY DEF RunOnce, PassedOnOwnRun
<1> QED
  BY <1>1, RunInvariant, PTL

(* A resumed rehearsal runs no work order and scales nothing, whatever     *)
(* happened to the process before it (demo.py:291).                        *)
THEOREM ResumedRepeatsNothing == RehearsalSpec => ResumeRepeatsNothing
<1>1. RehearsalTypes /\ RunOnce /\ [RehearsalNext]_rehearsal =>
          [\A r \in resumed : /\ inferences'[r] = inferences[r]
                              /\ place'[r] \notin Scaled]_rehearsal
  <2> SUFFICES ASSUME RehearsalTypes, RunOnce, [RehearsalNext]_rehearsal, NEW r \in resumed
               PROVE inferences'[r] = inferences[r] /\ place'[r] \notin Scaled
    OBVIOUS
  <2>1. RunOnce' /\ inferences'[r] = inferences[r] /\ r \in resumed'
    BY RunKept, RunUntouched DEF RehearsalNext
  <2>2. place'[r] \in Finishing
    BY <2>1 DEF RunOnce
  <2> QED
    BY <2>1, <2>2 DEF Finishing, Ends, Scaled
<1> QED
  BY <1>1, RehearsalTypeCorrect, RunInvariant, PTL DEF RehearsalSpec, ResumeRepeatsNothing

(* What a passing summary says of its run and its replica is true, whoever *)
(* writes it and whatever other presenters do (demo.py:291-346).           *)
THEOREM PassedTruly == RehearsalSpec => []PassedIsTrue
<1>1. PassedOnOwnRun /\ PassedReplicaStopped => PassedIsTrue
  BY DEF PassedIsTrue
<1> QED
  BY <1>1, PassedRightly, PassedStopped, PTL

-----------------------------------------------------------------------------
(* Registration.  The log and the list of versions only grow, and what a   *)
(* registrant queried is not read again once it has created its version.   *)

\* The steps of a registrant that has tried to create its version.
Tried == {"readBack", "accepted", "failed"}

RegistrationTypes ==
    /\ registrant \in [Registrants -> {"boundary", "query", "verify", "create", "verified"} \cup Tried]
    /\ summary \in [Registrants -> SUBSET log]
    /\ versions \in Seq([by : Registrants, id : {AgentId}])
    /\ DOMAIN told = Registrants

\* What q queried shows its run, and nothing but the run's spans.
Evidence(q) ==
    /\ Smoked(q) # {} /\ summary[q] # {}
    /\ \A s \in summary[q] : s.id = AgentId

EvidenceKept ==
    /\ \A q \in Registrants : summary[q] # {} => Smoked(q) # {}
    /\ \A q \in Registrants : registrant[q] = "create" => Evidence(q)
    /\ \A n \in 1 .. Len(versions) :
          registrant[versions[n].by] \in Tried /\ Evidence(versions[n].by)

OwnNumber ==
    \A q \in Registrants : registrant[q] \in {"readBack", "accepted"} =>
        told[q] \in 1 .. Len(versions) /\ versions[told[q]].by = q

RegistrationInv == RegistrationTypes /\ EvidenceKept /\ OwnNumber

(* The log only grows, and so does what is found of a run in it. *)
LEMMA LogGrows == [RegistrationNext]_registration => log \subseteq log'
  BY DEF RegistrationNext, registration, Arrive, CheckTarget, Query, VerifyTelemetry, Create, ReadBack, GiveUp

(* Every version has a registrant and the agent's id. *)
LEMMA Makers ==
    ASSUME RegistrationTypes
    PROVE  \A n \in 1 .. Len(versions) :
               versions[n].by \in Registrants /\ versions[n].id = AgentId
<1> SUFFICES ASSUME NEW n \in 1 .. Len(versions)
             PROVE  versions[n].by \in Registrants /\ versions[n].id = AgentId
  OBVIOUS
<1>1. versions[n] \in [by : Registrants, id : {AgentId}]
  BY ElementOfSeq DEF RegistrationTypes
<1> QED
  BY <1>1

(* The invariant, one step at a time. *)
LEMMA RegistrationInvariant == RegistrationSpec => []RegistrationInv
<1>1. RegistrationInit => RegistrationInv
  BY DEF RegistrationInit, RegistrationInv, RegistrationTypes, EvidenceKept, OwnNumber, Tried
<1>2. RegistrationInv /\ [RegistrationNext]_registration => RegistrationInv'
  <2> SUFFICES ASSUME RegistrationInv, [RegistrationNext]_registration PROVE RegistrationInv'
    OBVIOUS
  <2> USE DEF RegistrationInv, Tried
  <2>0. \A q \in Registrants : Smoked(q) \subseteq Smoked(q)'
    BY LogGrows DEF Smoked
  <2>1. CASE \E s \in Spans : Arrive(s)
    <3>1. UNCHANGED <<registrant, summary, versions, told>> /\ log \subseteq log'
      BY <2>1, LogGrows DEF Arrive
    <3>2. RegistrationTypes'
      BY <3>1 DEF RegistrationTypes
    <3>3. \A q \in Registrants : Evidence(q) => Evidence(q)'
      BY <3>1, <2>0 DEF Evidence
    <3> QED
      BY <3>1, <3>2, <3>3, Makers, <2>0 DEF EvidenceKept, OwnNumber
  <2>2. ASSUME NEW q \in Registrants, CheckTarget(q) \/ GiveUp(q) PROVE RegistrationInv'
    <3>1. /\ UNCHANGED <<log, summary, versions, told>>
          /\ \E where \in {"query", "failed"} : registrant' = [registrant EXCEPT ![q] = where]
      BY <2>2 DEF CheckTarget, GiveUp, Advance
    <3>2. \A n \in 1 .. Len(versions) : registrant'[versions[n].by] \in Tried
      BY <2>2, Makers DEF CheckTarget, GiveUp, Advance, RegistrationTypes, EvidenceKept
    <3>3. \A p \in Registrants : Evidence(p)' <=> Evidence(p)
      BY <3>1 DEF Evidence, Smoked
    <3>4. EvidenceKept'
      BY <3>1, <3>2, <3>3, Makers DEF EvidenceKept, RegistrationTypes, Evidence, Smoked
    <3>5. RegistrationTypes'
      BY <3>1 DEF RegistrationTypes
    <3> QED
      BY <3>1, <3>4, <3>5 DEF OwnNumber, RegistrationTypes
  <2>3. ASSUME NEW q \in Registrants, Query(q) PROVE RegistrationInv'
    <3>1. Found(q) \subseteq log /\ (Found(q) # {} => Smoked(q) # {})
      BY DEF Found, SmokeOperations, Smoked
    <3>2. RegistrationTypes'
      BY <2>3, <3>1 DEF Query, Advance, RegistrationTypes
    <3>3. \A n \in 1 .. Len(versions) : versions[n].by # q
      BY <2>3 DEF Query, Advance, EvidenceKept
    <3>4. EvidenceKept'
      BY <2>3, <3>1, <3>3 DEF Query, Advance, RegistrationTypes, EvidenceKept, Evidence, Smoked
    <3> QED
      BY <2>3, <3>2, <3>4 DEF Query, Advance, RegistrationTypes, OwnNumber
  <2>4. ASSUME NEW q \in Registrants, NEW register \in BOOLEAN, VerifyTelemetry(q, register)
        PROVE RegistrationInv'
    <3>1. summary[q] # {} /\ \A s \in summary[q] : s.id = AgentId
      BY <2>4 DEF VerifyTelemetry, Attributed
    <3>2. Evidence(q)
      BY <3>1 DEF EvidenceKept, Evidence
    <3>3. RegistrationTypes' /\ OwnNumber'
      BY <2>4 DEF VerifyTelemetry, Advance, RegistrationTypes, OwnNumber
    <3>4. \A n \in 1 .. Len(versions) : versions[n].by # q
      BY <2>4 DEF VerifyTelemetry, Advance, EvidenceKept
    <3>5. EvidenceKept'
      BY <2>4, <3>2, <3>4 DEF VerifyTelemetry, Advance, RegistrationTypes, EvidenceKept, Evidence, Smoked
    <3> QED
      BY <3>3, <3>5
  <2>5. ASSUME NEW q \in Registrants, Create(q) PROVE RegistrationInv'
    <3>1. /\ registrant[q] = "create" /\ Evidence(q) /\ UNCHANGED <<log, summary>>
          /\ registrant' \in {[registrant EXCEPT ![q] = "readBack"], [registrant EXCEPT ![q] = "failed"]}
          /\ told' \in {told, [told EXCEPT ![q] = Len(versions) + 1]}
          /\ registrant'[q] = "readBack" => told'[q] = Len(versions) + 1
      BY <2>5 DEF Create, Advance, EvidenceKept, RegistrationTypes
    <3>2. /\ Len(versions') = Len(versions) + 1 /\ Len(versions) \in Nat
          /\ \A n \in 1 .. Len(versions) : versions'[n] = versions[n]
          /\ versions'[Len(versions) + 1] = [by |-> q, id |-> AgentId]
      BY <2>5 DEF Create, RegistrationTypes
    <3>3. RegistrationTypes'
      <4>1. registrant' \in [Registrants -> {"boundary", "query", "verify", "create",
                                              "readBack", "accepted", "verified", "failed"}]
        BY <3>1 DEF RegistrationTypes
      <4>2. versions' \in Seq([by : Registrants, id : {AgentId}])
        <5>1. [by |-> q, id |-> AgentId] \in [by : Registrants, id : {AgentId}]
          OBVIOUS
        <5> QED
          BY <2>5, <5>1 DEF Create, RegistrationTypes
      <4>3. DOMAIN told' = Registrants
        BY <3>1 DEF RegistrationTypes
      <4> QED
        BY <3>1, <4>1, <4>2, <4>3 DEF RegistrationTypes
    <3>4. \A p \in Registrants : Evidence(p) => Evidence(p)'
      BY <3>1 DEF Evidence, Smoked
    <3>5. \A n \in 1 .. Len(versions) : versions[n].by \in Registrants
      BY Makers
    <3>6. EvidenceKept'
      <4>1. \A p \in Registrants : summary'[p] # {} => Smoked(p)' # {}
        BY <3>1 DEF EvidenceKept, Smoked
      <4>2. \A p \in Registrants : registrant'[p] = "create" => Evidence(p)'
        BY <3>1, <3>4 DEF EvidenceKept, RegistrationTypes
      <4>3. ASSUME NEW n \in 1 .. Len(versions')
            PROVE (registrant[versions[n].by] \in Tried /\ Evidence(versions[n].by))'
        <5>1. PICK p \in Registrants :
                 versions'[n].by = p /\ registrant'[p] \in Tried /\ Evidence(p)'
          <6>1. CASE n = Len(versions) + 1
            BY <6>1, <3>1, <3>2, <3>4 DEF RegistrationTypes
          <6>2. CASE n # Len(versions) + 1
            <7>1. n \in 1 .. Len(versions) /\ versions'[n] = versions[n]
              BY <6>2, <3>2
            <7>2. registrant[versions[n].by] \in Tried /\ Evidence(versions[n].by)
              BY <7>1 DEF EvidenceKept
            <7>3. registrant'[versions[n].by] \in Tried
              BY <7>1, <7>2, <3>1, <3>5 DEF RegistrationTypes
            <7> QED
              BY <7>1, <7>2, <7>3, <3>4, <3>5
          <6> QED
            BY <6>1, <6>2
        <5> QED
          BY <5>1 DEF Evidence, Smoked
      <4> QED
        BY <4>1, <4>2, <4>3 DEF EvidenceKept
    <3>7. OwnNumber'
      <4> SUFFICES ASSUME NEW p \in Registrants, registrant'[p] \in {"readBack", "accepted"}
                   PROVE told'[p] \in 1 .. Len(versions') /\ versions'[told'[p]].by = p
        BY DEF OwnNumber
      <4>1. CASE p = q
        BY <4>1, <3>1, <3>2 DEF RegistrationTypes
      <4>2. CASE p # q
        <5>1. registrant[p] \in {"readBack", "accepted"} /\ told'[p] = told[p]
          BY <4>2, <3>1 DEF RegistrationTypes
        <5>2. told[p] \in 1 .. Len(versions) /\ versions[told[p]].by = p
          BY <5>1 DEF OwnNumber
        <5> QED
          BY <5>1, <5>2, <3>2
      <4> QED
        BY <4>1, <4>2
    <3> QED
      BY <3>3, <3>6, <3>7
  <2>6. ASSUME NEW q \in Registrants, ReadBack(q) PROVE RegistrationInv'
    BY <2>6 DEF ReadBack, Advance, RegistrationTypes, EvidenceKept, Evidence, Smoked, OwnNumber
  <2>7. CASE UNCHANGED registration
    BY <2>7 DEF registration, RegistrationTypes, EvidenceKept, Evidence, Smoked, OwnNumber
  <2> QED
    BY <2>1, <2>2, <2>3, <2>4, <2>5, <2>6, <2>7 DEF RegistrationNext
<1> QED
  BY <1>1, <1>2, PTL DEF RegistrationSpec

(* A version rests on a run that happened and on spans that carry its id,   *)
(* whoever registers, and whatever arrives late (register.py:91-110).      *)
THEOREM VersionsRestOnEvidence == RegistrationSpec => []RegisteredOnEvidence
<1>1. RegistrationInv => RegisteredOnEvidence
  <2> SUFFICES ASSUME RegistrationInv, NEW n \in 1 .. Len(versions)
               PROVE /\ Smoked(versions[n].by) # {}
                     /\ summary[versions[n].by] # {} /\ summary[versions[n].by] \subseteq log
                     /\ \A s \in summary[versions[n].by] : s.id = versions[n].id
    BY DEF RegisteredOnEvidence
  <2>1. versions[n].by \in Registrants /\ versions[n].id = AgentId
    BY Makers DEF RegistrationInv
  <2>2. Evidence(versions[n].by)
    BY DEF RegistrationInv, EvidenceKept
  <2> QED
    BY <2>1, <2>2 DEF Evidence, RegistrationInv, RegistrationTypes
<1> QED
  BY <1>1, RegistrationInvariant, PTL

(* A registrant reports its own version, though others register at the     *)
(* same time (register.py:201-213).                                        *)
THEOREM ReportsOwnVersion == RegistrationSpec => []AcceptedIsOwn
<1>1. RegistrationInv => AcceptedIsOwn
  BY DEF RegistrationInv, OwnNumber, AcceptedIsOwn
<1> QED
  BY <1>1, RegistrationInvariant, PTL

(* What a registrant reports is its own version, made on its own run's     *)
(* evidence, for any registrants and spans (register.py:77-213).           *)
THEOREM RegisteredOwn == RegistrationSpec => []RegistrationIsOwn
<1>1. RegisteredOnEvidence /\ AcceptedIsOwn => RegistrationIsOwn
  BY DEF RegistrationIsOwn
<1> QED
  BY <1>1, VersionsRestOnEvidence, ReportsOwnVersion, PTL

-----------------------------------------------------------------------------
(* GatewayRehearsal.  Each step taken leaves what it saw, in the log of    *)
(* the Gateway as in the evidence, until the verdict rests on all of it.   *)

(* What the Gateway did with the requests sent so far, and what its log    *)
(* shows of them.                                                          *)
GatewayInv ==
    /\ fact \in [Probes -> Facts]
    /\ answers \in [Probes -> Statuses \cup {NoBackend}]
    /\ shown \in [Probes -> SUBSET Facts]
    /\ \A q \in Probes : shown[q] \subseteq {fact[q]}
    /\ stage \in {"allowed", "logs", "passed"} =>
          answers["denied"] = 401 /\ fact["denied"].status = 401
    /\ stage \in {"logs", "passed"} =>
          answers["allowed"] = 200 /\ fact["allowed"].status = 200
    /\ PassedMeansGuarded

\* Every row is of its own request, and a probe is passed by its answer only.
LEMMA GatewayInvariant == GatewaySpec => []GatewayInv
<1>1. GatewayInit => GatewayInv
  BY DEF GatewayInit, GatewayInv, PassedMeansGuarded, Probes
<1>2. GatewayInv /\ [GatewayNext]_gatewayRun => GatewayInv'
  <2> SUFFICES ASSUME GatewayInv, [GatewayNext]_gatewayRun PROVE GatewayInv'
    OBVIOUS
  <2> USE DEF GatewayInv, PassedMeansGuarded, Probes
  <2>1. CASE Preflight
    BY <2>1 DEF Preflight
  <2>2. CASE Abandon
    BY <2>2 DEF Abandon
  <2>3. ASSUME NEW q \in Probes, Send(q) PROVE GatewayInv'
    BY <2>3 DEF Send, Wanted, Following, Facts
  <2>4. ASSUME NEW q \in Probes, Log(q) PROVE GatewayInv'
    BY <2>4 DEF Log, Facts
  <2>5. CASE Poll
    <3>1. \A q \in Probes : shown[q] = {fact[q]}
      BY <2>5 DEF Poll
    <3>2. /\ fact["denied"].status = 401 /\ fact["denied"].backend = NoBackend
          /\ fact["allowed"].status = 200 /\ fact["allowed"].backend = 200
      <4>1. \A q \in Probes : ~ Contradicts(q) /\ fact[q] \in shown[q]
        BY <2>5, <3>1 DEF Poll
      <4>2. answers["denied"] = 401 /\ answers["allowed"] = 200
        BY <2>5 DEF Poll
      <4> QED
        BY <4>1, <4>2 DEF Contradicts
    <3> QED
      BY <2>5, <3>1, <3>2 DEF Poll
  <2>6. CASE UNCHANGED gatewayRun
    BY <2>6 DEF gatewayRun
  <2> QED
    BY <2>1, <2>2, <2>3, <2>4, <2>5, <2>6 DEF GatewayNext
<1> QED
  BY <1>1, <1>2, PTL DEF GatewaySpec

(* A rehearsal that has passed was refused before the backend and answered *)
(* by it, and the log shows that and nothing else (demo.py:185-199).       *)
THEOREM GuardedWhenPassed == GatewaySpec => []PassedMeansGuarded
<1>1. GatewayInv => PassedMeansGuarded
  BY DEF GatewayInv
<1> QED
  BY <1>1, GatewayInvariant, PTL
-----------------------------------------------------------------------------
(* Toolbox.  What a box is at, and the answer it has prepared, is within   *)
(* the scope that was resolved for its caller; the walk up the chain meets *)
(* nobody twice; and what was written is what was allowed when it was      *)
(* read.                                                                   *)

\* What rows belong to at first, and so for good.
StartOwners ==
    [i \in DOMAIN Rows |-> IF i \in DOMAIN StartCases THEN StartCases[i].customer ELSE Rows[i].parent]
ScopeAtFirst(who, i) ==
    \/ Rows[i].table \in Global
    \/ RegionsBy(StartOwners)[i] \in who.regions
    \/ Rows[i].table = "hr_policies" /\ RegionsBy(StartOwners)[i] = Company
FetchedAtFirst(who, table, i) == i \in DOMAIN Rows /\ Rows[i].table = table /\ ScopeAtFirst(who, i)

\* A row that may be told, and a decision as it should be.
MayTell(who, i) ==
    /\ Rows[i].table \in Global \/ RegionsBy(StartOwners)[i] \in who.regions
       \/ RegionsBy(StartOwners)[i] = Company
    /\ Rows[i].internal => "support.write" \in who.roles
    /\ Rows[i].table = "travel_bookings" /\ "travel.coordinate" \notin who.roles => Rows[i].parent = who.employee
PolicyOf(who) == IF who.employee \in Excepted THEN Policies.exception ELSE Policies.ordinary
MayDecide(who, r, kind) ==
    LET f == Fares[r.key]
        trip == IF r.back = Absent THEN f.price ELSE f.price + f.price
        p == PolicyOf(who)
    IN  /\ kind = "allowed" => trip <= p.threshold /\ r.depart >= p.notice /\ f.seats > 0 /\ f.rank <= p.rank
        /\ kind = "refused" => f.rank > p.rank \/ f.seats <= 0
Proper(who, r, res) ==
    /\ res.kind = "rows" => \A i \in res.rows : MayTell(who, i)
    /\ MayDecide(who, r, res.kind)

\* No update changes whose case it is.
CasesInv ==
    /\ DOMAIN cases = DOMAIN StartCases
    /\ \A i \in DOMAIN cases : "customer" \in DOMAIN cases[i] /\ cases[i].customer = StartCases[i].customer
\* How far a request is, and what it has been admitted to.
BoxInv(b) ==
    /\ scope[b] \in Identities
    /\ doing[b] \notin {"new", "refused"} => scope[b] # Absent
    /\ doing[b] \notin {"new", "refused", "idle"} => call[b] \in Asks
    /\ doing[b] \in Kinds => call[b].tool \in DOMAIN Tools /\ Tools[call[b].tool].kind = doing[b]
    /\ doing[b] \in {"write", "reread"} => FetchedAtFirst(scope[b], "support_cases", call[b].key)
    /\ doing[b] = "write" => MayChange(call[b].changes)
    /\ Proper(scope[b], call[b], answer[b])
\* The walk so far, up the chain within the scope.
WalkInv(b) ==
    /\ walked[b] \in Seq(DOMAIN Rows)
    /\ \A k \in DOMAIN walked[b] : FetchedAtFirst(scope[b], "employees", walked[b][k])
    /\ \A j, k \in DOMAIN walked[b] : walked[b][j] = walked[b][k] => j = k
    /\ \A k \in DOMAIN walked[b] : k > 1 => walked[b][k] = Manager[walked[b][k - 1]]
    /\ Len(walked[b]) <= MaxDepth
Outcomes == {"returned", "raised", "success", "error"}
\* Each call ends once and is audited once; the call that wrote ended well, or goes on.
LogInv(b) ==
    /\ ended[b] \in Seq(Outcomes) /\ audit[b] \in Seq(Outcomes) /\ Len(audit[b]) = Len(ended[b])
    /\ \A w \in writes : w.box = b =>
          /\ w.visible /\ w.call \in Nat \ {0} /\ w.call <= Len(ended[b]) + 1
          /\ w.call = Len(ended[b]) + 1 => doing[b] = "reread"
          /\ w.call <= Len(ended[b]) => ended[b][w.call] = "returned" /\ audit[b][w.call] = "success"
ToolboxInv ==
    /\ CasesInv
    /\ scope \in [Boxes -> Identities] /\ DOMAIN doing = Boxes /\ DOMAIN call = Boxes /\ DOMAIN walked = Boxes
    /\ DOMAIN answer = Boxes /\ DOMAIN audit = Boxes /\ DOMAIN ended = Boxes
    /\ \A w \in writes : w.box \in Boxes
    /\ \A b \in Boxes : BoxInv(b) /\ WalkInv(b) /\ LogInv(b)

-----------------------------------------------------------------------------

\* What a row belongs to does not change.
LEMMA ScopeStays ==
    ASSUME CasesInv
    PROVE  /\ RegionOf = RegionsBy(StartOwners)
           /\ \A b, i : InScope(b, i) <=> ScopeAtFirst(scope[b], i)
           /\ \A b, t, i : Fetched(b, t, i) <=> FetchedAtFirst(scope[b], t, i)
<1>1. Owners = StartOwners
  BY DEF Owners, StartOwners, CasesInv
<1>2. RegionOf = RegionsBy(StartOwners)
  BY <1>1 DEF RegionOf
<1>3. \A b, i : InScope(b, i) <=> ScopeAtFirst(scope[b], i)
  BY <1>2 DEF InScope, ScopeAtFirst
<1>4. \A b, t, i : Fetched(b, t, i) <=> FetchedAtFirst(scope[b], t, i)
  BY <1>3 DEF Fetched, FetchedAtFirst
<1> QED
  BY <1>2, <1>3, <1>4

\* What a handler does: it goes on, raises, or returns what it may tell.
Walks(b, e) ==
    /\ doing[b] = "chain" /\ e = (IF walked[b] = <<>> THEN call[b].key ELSE Manager[Last(walked[b])])
    /\ Goes(b, e) /\ walked' = [walked EXCEPT ![b] = Append(@, e)]
    /\ UNCHANGED <<cases, scope, doing, call, answer, audit, ended, writes>>
Passes(b, from, to) ==
    /\ doing[b] = from /\ Proceed(b, to)
    /\ UNCHANGED <<cases, scope, call, walked, answer, audit, ended, writes>>
Answers(b, res) ==
    /\ doing[b] \in Kinds \cup {"reread"} /\ Proper(scope[b], call[b], res) /\ Return(b, res)
Advances(b) ==
    \/ Resolve(b) \/ \E r \in Asks : Ask(b, r)
    \/ Admitted(b) /\ Tool(b).kind \in Kinds /\ Passes(b, "asked", Tool(b).kind)
    \/ doing[b] \in Kinds \cup {"asked"} /\ Raise(b)
    \/ \E res : Answers(b, res)
    \/ \E e : Walks(b, e)
    \/ Fetched(b, "support_cases", call[b].key) /\ MayChange(call[b].changes) /\ Passes(b, "update", "write")
    \/ WriteCase(b)

LEMMA NothingIsProper == \A who, r : Proper(who, r, Nothing)
BY DEF Proper, MayDecide, Nothing

LEMMA OtherIsProper ==
    ASSUME NEW kind \in {"count", "groups"}, NEW found, NEW n
    PROVE  \A who, r : Proper(who, r, Result(kind, found, n))
BY DEF Proper, MayDecide, Result

LEMMA RowsAreProper ==
    ASSUME NEW who, NEW r, NEW found, NEW n, \A i \in found : MayTell(who, i)
    PROVE  Proper(who, r, Result("rows", found, n))
BY DEF Proper, MayDecide, Result

\* Rows of other tables than those two may be told to whoever has them in scope.
LEMMA InScopeTold ==
    ASSUME NEW who, NEW i \in DOMAIN Rows, ScopeAtFirst(who, i),
           Rows[i].table \notin {"case_notes", "travel_bookings"}
    PROVE  MayTell(who, i)
BY ToolboxAssumption DEF MayTell, ScopeAtFirst

LEMMA ListedInScope ==
    ASSUME CasesInv, NEW b, NEW t, NEW f, NEW n, NEW i \in ListRows(b, t, f, n)
    PROVE  /\ i \in DOMAIN Rows /\ Rows[i].table = t /\ ScopeAtFirst(scope[b], i)
           /\ f.parent # Absent => Rows[i].parent = f.parent
BY ScopeStays DEF ListRows, Filtered

LEMMA Handlers ==
    ASSUME ToolboxInv, NEW b \in Boxes,
           \/ Resolve(b) \/ Admit(b) \/ Lookup(b) \/ Search(b) \/ Count(b) \/ Aggregate(b) \/ Chain(b)
           \/ Bookings(b) \/ Booking(b) \/ ReadCase(b) \/ WriteCase(b) \/ RereadCase(b)
           \/ \E r \in Asks : Ask(b, r)
    PROVE  Advances(b)
<1> DEFINE who == scope[b]  r == call[b]
<1>1. CasesInv /\ BoxInv(b) /\ WalkInv(b)
  BY DEF ToolboxInv
<1>2. ASSUME doing[b] \in Kinds
      PROVE  /\ Tool(b) = Tools[r.tool] /\ Tool(b).kind = doing[b] /\ r.tool \in DOMAIN Tools
             /\ who \in Identities /\ who # Absent /\ r \in Asks
  BY <1>1, <1>2 DEF BoxInv, Kinds, Tool
<1>3. CASE Resolve(b) \/ WriteCase(b) \/ \E q \in Asks : Ask(b, q)
  BY <1>3 DEF Advances
<1>4. CASE Admit(b)
  BY <1>4 DEF Advances, Admit, Passes
<1>5. CASE Lookup(b)
  <2> DEFINE i == r.key
             below == UNION {ListRows(b, t, ChildrenOf(i), MaxRows) : t \in {"order_lines", "case_notes"}}
             notes == {j \in below : Rows[j].internal => "support.write" \in scope[b].roles}
             res == IF Fetched(b, Tool(b).table, i) THEN Result("rows", {i} \cup notes, 1) ELSE Nothing
  <2>1. doing[b] = "lookup" /\ Return(b, res)
    BY <1>5 DEF Lookup
  <2>2. doing[b] \in Kinds
    BY <2>1 DEF Kinds
  <2>3. ASSUME Fetched(b, Tool(b).table, i) PROVE MayTell(who, i)
    <3>1. Tool(b).table \notin {"case_notes", "travel_bookings"}
      BY <1>2, <2>1, <2>2, ToolboxAssumption
    <3>2. i \in DOMAIN Rows /\ Rows[i].table = Tool(b).table /\ ScopeAtFirst(who, i)
      BY <1>1, <2>3, ScopeStays DEF FetchedAtFirst
    <3> QED
      BY <3>1, <3>2, InScopeTold
  <2>4. ASSUME NEW j \in notes PROVE MayTell(who, j)
    <3>1. PICK t \in {"order_lines", "case_notes"} : j \in ListRows(b, t, ChildrenOf(i), MaxRows)
      BY <2>4
    <3>2. j \in DOMAIN Rows /\ Rows[j].table = t /\ ScopeAtFirst(who, j)
      BY <1>1, <3>1, ListedInScope
    <3>3. Rows[j].internal => "support.write" \in who.roles
      BY <2>4
    <3> QED
      BY <3>1, <3>2, <3>3 DEF MayTell, ScopeAtFirst
  <2> HIDE DEF notes
  <2>5. Proper(who, r, res)
    BY <2>3, <2>4, RowsAreProper, NothingIsProper
  <2> HIDE DEF res
  <2> QED
    BY <2>1, <2>2, <2>5 DEF Advances, Answers
<1>6. CASE Search(b)
  <2> DEFINE found == ListRows(b, Tool(b).table, r.filter, r.limit)
  <2>1. doing[b] = "search" /\ Return(b, Result("rows", found, 0))
    BY <1>6 DEF Search
  <2>2. doing[b] \in Kinds
    BY <2>1 DEF Kinds
  <2>3. Tool(b).table \notin {"case_notes", "travel_bookings"}
    BY <1>2, <2>1, <2>2, ToolboxAssumption
  <2>4. \A i \in found : MayTell(who, i)
    BY <1>1, <2>3, ListedInScope, InScopeTold
  <2> HIDE DEF found
  <2>5. Proper(who, r, Result("rows", found, 0))
    BY <2>4, RowsAreProper
  <2> QED
    BY <2>1, <2>2, <2>5 DEF Advances, Answers
<1>7. CASE Count(b)
  BY <1>7, OtherIsProper DEF Count, Advances, Answers, Kinds
<1>8. CASE Aggregate(b)
  <2>1. doing[b] = "aggregate" /\ (Raise(b) \/ \E found : Return(b, Result("groups", found, 0)))
    BY <1>8 DEF Aggregate
  <2> QED
    BY <2>1, OtherIsProper DEF Advances, Answers, Kinds
<1>9. CASE Chain(b)
  <2> DEFINE e == IF walked[b] = <<>> THEN r.key ELSE Manager[Last(walked[b])]
  <2>1. doing[b] = "chain"
    BY <1>9 DEF Chain
  <2>2. CASE Goes(b, e)
    BY <1>9, <2>2 DEF Chain, Advances, Walks
  <2>3. CASE ~ Goes(b, e)
    <3>1. Return(b, Result("rows", ToSet(walked[b]), 0))
      BY <1>9, <2>3 DEF Chain
    <3>2. \A i \in ToSet(walked[b]) : MayTell(who, i)
      BY <1>1, InScopeTold DEF WalkInv, FetchedAtFirst, ToSet
    <3>3. Proper(who, r, Result("rows", ToSet(walked[b]), 0))
      BY <3>2, RowsAreProper
    <3> QED
      BY <2>1, <3>1, <3>3 DEF Advances, Answers, Kinds
  <2> QED
    BY <2>2, <2>3
<1>10. CASE Bookings(b)
  <2> DEFINE others == "travel.coordinate" \notin scope[b].roles
             filter == [r.filter EXCEPT !.parent = IF others THEN scope[b].employee ELSE @]
             found == ListRows(b, "travel_bookings", filter, r.limit)
  <2>1. doing[b] = "bookings" /\ (Raise(b) \/ Return(b, Result("rows", found, 0)))
    BY <1>10 DEF Bookings
  <2>2. doing[b] \in Kinds
    BY <2>1 DEF Kinds
  <2>3. \A i \in found : MayTell(who, i)
    <3> SUFFICES ASSUME NEW i \in found PROVE MayTell(who, i)
      OBVIOUS
    <3> HIDE DEF filter
    <3>1. /\ i \in DOMAIN Rows /\ Rows[i].table = "travel_bookings" /\ ScopeAtFirst(who, i)
          /\ filter.parent # Absent => Rows[i].parent = filter.parent
      BY <1>1, ListedInScope
    <3>2. who.employee # Absent
      BY <1>2, <2>2, ToolboxAssumption
    <3>3. others => filter.parent = who.employee
      BY ToolboxAssumption, <1>2, <2>2 DEF filter
    <3>4. ~ Rows[i].internal
      BY <3>1, ToolboxAssumption
    <3> QED
      BY <3>1, <3>2, <3>3, <3>4 DEF MayTell, ScopeAtFirst
  <2> HIDE DEF found
  <2>4. Proper(who, r, Result("rows", found, 0))
    BY <2>3, RowsAreProper
  <2> QED
    BY <2>1, <2>2, <2>4 DEF Advances, Answers
<1>11. CASE Booking(b)
  <2> DEFINE policy == PolicyOf(who)
             f == Fares[r.key]
             kind == Decision(f, policy, r.depart, r.back)
  <2>1. /\ doing[b] = "booking"
        /\ Raise(b) \/ (r.key \in DOMAIN Fares /\ Return(b, Result(kind, {}, r.key)))
    BY <1>11 DEF Booking, PolicyOf
  <2>2. doing[b] \in Kinds
    BY <2>1 DEF Kinds
  <2>3. ASSUME r.key \in DOMAIN Fares PROVE Proper(who, r, Result(kind, {}, r.key))
    <3>1. f.rank \in Int /\ f.price \in Int /\ f.seats \in Int /\ r.depart \in Int
      BY <1>2, <2>2, <2>3, ToolboxAssumption
    <3>2. policy.rank \in Int /\ policy.threshold \in Int /\ policy.notice \in Int
      BY ToolboxAssumption DEF PolicyOf
    <3>3. kind \in {"refused", "requires_approval", "allowed"}
      BY DEF Decision
    <3>4. MayDecide(who, r, kind)
      <4> HIDE DEF policy, f
      <4>1. /\ kind = "allowed" => /\ FareTotal(f, r.back) <= policy.threshold /\ r.depart >= policy.notice
                                   /\ f.seats > 0 /\ f.rank <= policy.rank
            /\ kind = "refused" => f.rank > policy.rank \/ f.seats <= 0
        BY <3>1, <3>2 DEF Decision, FareTotal
      <4>2. FareTotal(f, r.back) = IF r.back = Absent THEN f.price ELSE f.price + f.price
        BY <3>1 DEF FareTotal
      <4> HIDE DEF kind
      <4> QED
        BY <4>1, <4>2 DEF MayDecide, f, policy
    <3> HIDE DEF kind
    <3> QED
      BY <3>3, <3>4 DEF Proper, Result
  <2> HIDE DEF kind
  <2> QED
    BY <2>1, <2>2, <2>3 DEF Advances, Answers
<1>12. ASSUME Fetched(b, "support_cases", r.key)
       PROVE  Proper(who, r, Result("rows", {r.key}, 1))
  <2>1. MayTell(who, r.key)
    BY <1>1, <1>12, ScopeStays, InScopeTold DEF FetchedAtFirst
  <2> QED
    BY <2>1, RowsAreProper
<1>13. CASE ReadCase(b)
  <2>1. doing[b] = "update" /\ doing[b] \in Kinds
    BY <1>13 DEF ReadCase, Kinds
  <2>2. CASE ~ Fetched(b, "support_cases", call[b].key) \/ ~ MayChange(call[b].changes)
    BY <1>13, <2>1, <2>2 DEF ReadCase, Advances
  <2>3. CASE Fetched(b, "support_cases", call[b].key) /\ MayChange(call[b].changes) /\ DOMAIN call[b].changes = {}
    BY <1>12, <1>13, <2>1, <2>3 DEF ReadCase, Advances, Answers
  <2>4. CASE Fetched(b, "support_cases", call[b].key) /\ MayChange(call[b].changes) /\ DOMAIN call[b].changes # {}
    BY <1>13, <2>1, <2>4 DEF ReadCase, Advances, Passes
  <2> QED
    BY <2>2, <2>3, <2>4
<1>14. CASE RereadCase(b)
  <2>1. doing[b] = "reread"
    BY <1>14 DEF RereadCase
  <2>2. Fetched(b, "support_cases", r.key)
    BY <1>1, <2>1, ScopeStays DEF BoxInv
  <2> QED
    BY <1>12, <1>14, <2>1, <2>2 DEF RereadCase, Advances, Answers
<1> QED
  BY <1>3, <1>4, <1>5, <1>6, <1>7, <1>8, <1>9, <1>10, <1>11, <1>13, <1>14

-----------------------------------------------------------------------------

\* Nothing of another box changes.
Others(b) ==
    /\ scope' = scope /\ DOMAIN doing' = Boxes /\ DOMAIN call' = Boxes /\ DOMAIN walked' = Boxes
    /\ DOMAIN answer' = Boxes /\ DOMAIN audit' = Boxes /\ DOMAIN ended' = Boxes
    /\ \A c \in Boxes \ {b} :
          /\ doing'[c] = doing[c] /\ call'[c] = call[c] /\ walked'[c] = walked[c]
          /\ answer'[c] = answer[c] /\ audit'[c] = audit[c] /\ ended'[c] = ended[c]

LEMMA OthersRest ==
    ASSUME ToolboxInv, NEW b \in Boxes, Advances(b)
    PROVE  Others(b)
<1> USE DEF Others, Proceed
<1>0. /\ DOMAIN doing = Boxes /\ DOMAIN call = Boxes /\ DOMAIN walked = Boxes
      /\ DOMAIN answer = Boxes /\ DOMAIN audit = Boxes /\ DOMAIN ended = Boxes
  BY DEF ToolboxInv
<1>1. CASE Resolve(b)
  BY <1>0, <1>1 DEF Resolve
<1>2. ASSUME NEW r \in Asks, Ask(b, r) PROVE Others(b)
  BY <1>0, <1>2 DEF Ask
<1>3. ASSUME NEW from, NEW to, Passes(b, from, to) PROVE Others(b)
  BY <1>0, <1>3 DEF Passes
<1>4. CASE Raise(b)
  BY <1>0, <1>4 DEF Raise
<1>5. ASSUME NEW res, Answers(b, res) PROVE Others(b)
  BY <1>0, <1>5 DEF Answers, Return
<1>6. ASSUME NEW e, Walks(b, e) PROVE Others(b)
  BY <1>0, <1>6 DEF Walks
<1>7. CASE WriteCase(b)
  BY <1>0, <1>7 DEF WriteCase
<1> QED
  BY <1>1, <1>2, <1>3, <1>4, <1>5, <1>6, <1>7 DEF Advances

\* A case stays where it is.
LEMMA CasesStay ==
    ASSUME ToolboxInv, NEW b \in Boxes, Advances(b)
    PROVE  CasesInv'
<1>0. CasesInv /\ BoxInv(b)
  BY DEF ToolboxInv
<1>1. CASE WriteCase(b)
  <2> DEFINE key == call[b].key  changes == call[b].changes
             new == [f \in DOMAIN cases[key] |-> IF f \in DOMAIN changes THEN changes[f] ELSE cases[key][f]]
  <2>1. "customer" \notin DOMAIN changes
    BY <1>0, <1>1, ToolboxAssumption DEF BoxInv, WriteCase, MayChange
  <2>2. cases' = [cases EXCEPT ![key] = new]
    BY <1>1 DEF WriteCase
  <2>3. key \in DOMAIN cases => "customer" \in DOMAIN new /\ new.customer = cases[key].customer
    BY <1>0, <2>1 DEF CasesInv
  <2> HIDE DEF new, key
  <2> QED
    BY <1>0, <2>2, <2>3 DEF CasesInv
<1>2. CASE cases' = cases
  BY <1>0, <1>2 DEF CasesInv
<1> QED
  BY <1>1, <1>2 DEF Advances, Resolve, Ask, Passes, Raise, Answers, Return, Walks

\* The calls and answers of a box.
LEMMA BoxStays ==
    ASSUME ToolboxInv, NEW b \in Boxes, Advances(b)
    PROVE  BoxInv(b)'
<1> USE DEF Proceed
<1>0. /\ CasesInv /\ BoxInv(b) /\ scope' = scope
      /\ DOMAIN doing = Boxes /\ DOMAIN call = Boxes /\ DOMAIN answer = Boxes
  BY OthersRest DEF ToolboxInv, Others
<1>1. CASE Resolve(b)
  BY <1>0, <1>1 DEF Resolve, BoxInv, Kinds
<1>2. ASSUME NEW r \in Asks, Ask(b, r) PROVE BoxInv(b)'
  <2>1. doing'[b] = "asked" /\ call'[b] = r /\ answer'[b] = Nothing /\ doing[b] = "idle"
    BY <1>0, <1>2 DEF Ask
  <2>2. Proper(scope[b], r, Nothing)
    BY NothingIsProper
  <2> QED
    BY <1>0, <2>1, <2>2 DEF BoxInv, Kinds
<1>3. CASE Admitted(b) /\ Tool(b).kind \in Kinds /\ Passes(b, "asked", Tool(b).kind)
  <2>1. doing[b] = "asked" /\ doing'[b] = Tool(b).kind /\ call' = call /\ answer' = answer
    BY <1>0, <1>3 DEF Passes
  <2>2. call[b].tool \in DOMAIN Tools /\ Tools[call[b].tool].kind = doing'[b] /\ doing'[b] \in Kinds
    BY <1>3, <2>1 DEF Admitted, Declares, Tool
  <2> QED
    BY <1>0, <2>1, <2>2 DEF BoxInv, Kinds
<1>4. CASE doing[b] \in Kinds \cup {"asked"} /\ Raise(b)
  <2>1. doing'[b] = "idle" /\ call' = call /\ answer' = answer /\ doing[b] \notin {"new", "refused"}
    BY <1>0, <1>4 DEF Raise, Kinds
  <2> QED
    BY <1>0, <2>1 DEF BoxInv, Kinds
<1>5. ASSUME NEW res, Answers(b, res) PROVE BoxInv(b)'
  <2>1. doing'[b] = "idle" /\ call' = call /\ answer'[b] = res /\ doing[b] \notin {"new", "refused"}
    BY <1>0, <1>5 DEF Answers, Return, Kinds
  <2>2. Proper(scope[b], call[b], res)
    BY <1>5 DEF Answers
  <2> QED
    BY <1>0, <2>1, <2>2 DEF BoxInv, Kinds
<1>6. ASSUME NEW e, Walks(b, e) PROVE BoxInv(b)'
  BY <1>0, <1>6 DEF Walks, BoxInv
<1>7. CASE /\ Fetched(b, "support_cases", call[b].key) /\ MayChange(call[b].changes)
           /\ Passes(b, "update", "write")
  <2>1. doing[b] = "update" /\ doing'[b] = "write" /\ call' = call /\ answer' = answer
    BY <1>0, <1>7 DEF Passes
  <2>2. FetchedAtFirst(scope[b], "support_cases", call[b].key)
    BY <1>0, <1>7, ScopeStays
  <2> QED
    BY <1>0, <1>7, <2>1, <2>2 DEF BoxInv, Kinds
<1>8. CASE WriteCase(b)
  <2>1. doing[b] = "write" /\ doing'[b] = "reread" /\ call' = call /\ answer' = answer
    BY <1>0, <1>8 DEF WriteCase
  <2> QED
    BY <1>0, <2>1 DEF BoxInv, Kinds
<1> QED
  BY <1>1, <1>2, <1>3, <1>4, <1>5, <1>6, <1>7, <1>8 DEF Advances

\* A chain grows by one the caller has in scope and has not met.
LEMMA WalkStays ==
    ASSUME ToolboxInv, NEW b \in Boxes, Advances(b)
    PROVE  WalkInv(b)'
<1>0. /\ CasesInv /\ WalkInv(b) /\ scope' = scope /\ DOMAIN walked = Boxes
  BY OthersRest DEF ToolboxInv, Others
<1>1. ASSUME NEW e, Walks(b, e) PROVE WalkInv(b)'
  <2> DEFINE w == walked[b]
  <2>1. walked'[b] = Append(w, e)
    BY <1>0, <1>1 DEF Walks
  <2>2. /\ w \in Seq(DOMAIN Rows) /\ Len(w) \in Nat /\ DOMAIN w = 1 .. Len(w)
        /\ \A k \in DOMAIN w : FetchedAtFirst(scope[b], "employees", w[k])
        /\ \A j, k \in DOMAIN w : w[j] = w[k] => j = k
        /\ \A k \in DOMAIN w : k > 1 => w[k] = Manager[w[k - 1]]
    BY <1>0 DEF WalkInv
  <2>3. /\ \A k \in DOMAIN w : w[k] # e
        /\ Len(w) < MaxDepth /\ FetchedAtFirst(scope[b], "employees", e)
    BY <1>0, <1>1, ScopeStays DEF Walks, Goes
  <2>4. w # <<>> => e = Manager[w[Len(w)]]
    BY <1>1 DEF Walks, Last
  <2> HIDE DEF w
  <2>5. e \in DOMAIN Rows
    BY <2>3 DEF FetchedAtFirst
  <2> DEFINE v == Append(w, e)
  <2>6. /\ v \in Seq(DOMAIN Rows) /\ Len(v) = Len(w) + 1 /\ DOMAIN v = 1 .. Len(w) + 1
        /\ v[Len(w) + 1] = e /\ \A k \in 1 .. Len(w) : v[k] = w[k]
    BY <2>2, <2>5
  <2> HIDE DEF v
  <2>7. \A k \in DOMAIN v : FetchedAtFirst(scope[b], "employees", v[k])
    BY <2>2, <2>3, <2>6
  <2>8. \A j, k \in DOMAIN v : v[j] = v[k] => j = k
    <3> SUFFICES ASSUME NEW j \in DOMAIN v, NEW k \in DOMAIN v, v[j] = v[k] PROVE j = k
      OBVIOUS
    <3>1. \A i \in 1 .. Len(w) + 1 : i \in 1 .. Len(w) \/ i = Len(w) + 1
      BY <2>2
    <3> QED
      BY <2>2, <2>3, <2>6, <3>1
  <2>9. \A k \in DOMAIN v : k > 1 => v[k] = Manager[v[k - 1]]
    <3> SUFFICES ASSUME NEW k \in DOMAIN v, k > 1 PROVE v[k] = Manager[v[k - 1]]
      OBVIOUS
    <3>1. CASE k \in 1 .. Len(w)
      <4>1. k - 1 \in 1 .. Len(w)
        BY <2>2, <3>1
      <4> QED
        BY <2>2, <2>6, <3>1, <4>1
    <3>2. CASE k = Len(w) + 1
      <4>1. w # <<>> /\ k - 1 = Len(w) /\ Len(w) \in 1 .. Len(w)
        BY <2>2, <3>2
      <4> QED
        BY <2>4, <2>6, <3>2, <4>1
    <3> QED
      BY <2>2, <2>6, <3>1, <3>2
  <2>10. Len(v) <= MaxDepth
    BY <2>2, <2>3, <2>6, ToolboxAssumption
  <2>11. walked'[b] = v
    BY <2>1 DEF v
  <2> QED
    BY <1>0, <2>6, <2>7, <2>8, <2>9, <2>10, <2>11 DEF WalkInv
<1>2. ASSUME NEW r \in Asks, Ask(b, r) PROVE WalkInv(b)'
  <2>1. walked'[b] = <<>>
    BY <1>0, <1>2 DEF Ask
  <2>2. MaxDepth \in Nat
    BY ToolboxAssumption
  <2>3. <<>> \in Seq(DOMAIN Rows) /\ Len(<<>>) = 0 /\ DOMAIN <<>> = {}
    OBVIOUS
  <2> QED
    BY <2>1, <2>2, <2>3 DEF WalkInv
<1>3. CASE walked' = walked
  BY <1>0, <1>3 DEF WalkInv
<1> QED
  BY <1>1, <1>2, <1>3 DEF Advances, Resolve, Passes, Raise, Answers, Return, WriteCase

\* The audit says how each call ended, and a write is of the call under way.
LEMMA LogStays ==
    ASSUME ToolboxInv, NEW b \in Boxes, Advances(b)
    PROVE  /\ \A c \in Boxes : LogInv(c)'
           /\ \A w \in writes' : w.box \in Boxes
<1> USE DEF Proceed
<1>0. /\ CasesInv /\ BoxInv(b) /\ \A c \in Boxes : LogInv(c)
      /\ DOMAIN audit = Boxes /\ DOMAIN ended = Boxes /\ DOMAIN doing = Boxes
      /\ \A w \in writes : w.box \in Boxes
  BY DEF ToolboxInv
<1>1. ASSUME NEW c \in Boxes \ {b}, \A w \in writes' : w.box = c => w \in writes
      PROVE  LogInv(c)'
  <2>1. audit'[c] = audit[c] /\ ended'[c] = ended[c] /\ doing'[c] = doing[c]
    BY OthersRest DEF Others
  <2>2. LogInv(c)
    BY <1>0
  <2> QED
    BY <1>1, <2>1, <2>2 DEF LogInv
<1>2. ASSUME writes' = writes, audit' = audit, ended' = ended, doing[b] # "reread"
      PROVE  LogInv(b)'
  <2>1. LogInv(b)
    BY <1>0
  <2> QED
    BY <1>2, <2>1 DEF LogInv
<1>3. ASSUME writes' = writes,
             \/ ended'[b] = Append(ended[b], "returned") /\ audit'[b] = Append(audit[b], "success")
             \/ /\ doing[b] # "reread"
                /\ ended'[b] = Append(ended[b], "raised") /\ audit'[b] = Append(audit[b], "error")
      PROVE  LogInv(b)'
  <2> DEFINE ok == audit'[b] = Append(audit[b], "success") /\ ended'[b] = Append(ended[b], "returned")
             how == IF ok THEN "returned" ELSE "raised"
             what == IF ok THEN "success" ELSE "error"
  <2>0. /\ ended'[b] = Append(ended[b], how) /\ audit'[b] = Append(audit[b], what)
        /\ doing[b] = "reread" => how = "returned" /\ what = "success"
        /\ how \in Outcomes /\ what \in Outcomes
    <3>1. CASE ok
      BY <1>3, <3>1 DEF Outcomes
    <3>2. CASE ~ ok
      BY <1>3, <3>2 DEF Outcomes
    <3> QED
      BY <3>1, <3>2
  <2> HIDE DEF how, what
  <2> DEFINE n == Len(ended[b])  e == ended'[b]  a == audit'[b]
  <2>1. /\ ended[b] \in Seq(Outcomes) /\ audit[b] \in Seq(Outcomes) /\ n \in Nat /\ Len(audit[b]) = n
    BY <1>0 DEF LogInv
  <2>2. /\ e \in Seq(Outcomes) /\ Len(e) = n + 1 /\ e[n + 1] = how /\ \A k \in 1 .. n : e[k] = ended[b][k]
        /\ a \in Seq(Outcomes) /\ Len(a) = n + 1 /\ a[n + 1] = what /\ \A k \in 1 .. n : a[k] = audit[b][k]
    BY <2>0, <2>1
  <2> HIDE DEF n, e, a
  <2>3. ASSUME NEW w \in writes', w.box = b
        PROVE  /\ w.visible /\ w.call \in Nat \ {0} /\ w.call <= n + 1
               /\ e[w.call] = "returned" /\ a[w.call] = "success"
    <3>1. /\ w.visible /\ w.call \in Nat \ {0} /\ w.call <= n + 1
          /\ w.call = n + 1 => doing[b] = "reread"
          /\ w.call <= n => ended[b][w.call] = "returned" /\ audit[b][w.call] = "success"
      BY <1>0, <1>3, <2>3 DEF LogInv, n
    <3>2. CASE w.call = n + 1
      BY <2>0, <2>2, <3>1, <3>2
    <3>3. CASE w.call # n + 1
      <4>1. w.call \in 1 .. n /\ w.call <= n
        BY <2>1, <3>1, <3>3
      <4> QED
        BY <2>2, <3>1, <4>1
    <3> QED
      BY <3>1, <3>2, <3>3
  <2>4. \A k \in Nat : k <= n + 1 => k <= (n + 1) + 1 /\ k # (n + 1) + 1
    BY <2>1
  <2> QED
    BY <2>2, <2>3, <2>4 DEF LogInv, e, a
<1>4. CASE \/ Resolve(b) \/ \E r \in Asks : Ask(b, r)
           \/ Admitted(b) /\ Tool(b).kind \in Kinds /\ Passes(b, "asked", Tool(b).kind)
           \/ \E e : Walks(b, e)
           \/ Fetched(b, "support_cases", call[b].key) /\ MayChange(call[b].changes) /\ Passes(b, "update", "write")
  <2>1. writes' = writes /\ audit' = audit /\ ended' = ended /\ doing[b] # "reread"
    BY <1>4 DEF Resolve, Ask, Passes, Walks
  <2> QED
    BY <1>0, <1>1, <1>2, <2>1
<1>5. CASE doing[b] \in Kinds \cup {"asked"} /\ Raise(b)
  <2>1. /\ writes' = writes /\ doing[b] # "reread"
        /\ ended'[b] = Append(ended[b], "raised") /\ audit'[b] = Append(audit[b], "error")
    BY <1>0, <1>5 DEF Raise, Kinds
  <2>2. LogInv(b)'
    BY <1>3, <2>1
  <2> QED
    BY <1>0, <1>1, <2>1, <2>2
<1>6. CASE \E res : Answers(b, res)
  <2>1. /\ writes' = writes
        /\ ended'[b] = Append(ended[b], "returned") /\ audit'[b] = Append(audit[b], "success")
    BY <1>0, <1>6 DEF Answers, Return
  <2>2. LogInv(b)'
    BY <1>3, <2>1
  <2> QED
    BY <1>0, <1>1, <2>1, <2>2
<1>7. CASE WriteCase(b)
  <2> DEFINE n == Len(ended[b])  own == InScope(b, call[b].key)
             new == [box |-> b, call |-> n + 1, visible |-> own]
  <2>1. /\ doing[b] = "write" /\ doing'[b] = "reread" /\ writes' = writes \cup {new}
        /\ audit' = audit /\ ended' = ended
    BY <1>0, <1>7 DEF WriteCase
  <2>2. own
    BY <1>0, <2>1, ScopeStays DEF BoxInv, FetchedAtFirst
  <2>3. LogInv(b) /\ n \in Nat
    BY <1>0 DEF LogInv
  <2> HIDE DEF own
  <2>4. new.box = b /\ new.call = n + 1 /\ new.visible = own
    OBVIOUS
  <2> HIDE DEF n, new
  <2>5. new.visible
    BY <2>2, <2>4
  <2>6. new.call \in Nat \ {0} /\ new.call <= n + 1 /\ ~ (new.call <= n)
    BY <2>3, <2>4
  <2>7. LogInv(b)'
    BY <2>1, <2>3, <2>4, <2>5, <2>6 DEF LogInv, n
  <2>8. \A w \in writes' : w \in writes \/ w.box = b
    BY <2>1, <2>4
  <2> QED
    BY <1>0, <1>1, <2>7, <2>8
<1> QED
  BY <1>4, <1>5, <1>6, <1>7 DEF Advances

LEMMA ToolboxStays == ToolboxInv /\ [ToolboxNext]_toolbox => ToolboxInv'
<1> SUFFICES ASSUME ToolboxInv, [ToolboxNext]_toolbox PROVE ToolboxInv'
  OBVIOUS
<1>1. ASSUME NEW b \in Boxes, Advances(b) PROVE ToolboxInv'
  <2>1. Others(b)
    BY <1>1, OthersRest
  <2>2. CasesInv'
    BY <1>1, CasesStay
  <2>3. (\A c \in Boxes : LogInv(c)') /\ \A w \in writes' : w.box \in Boxes
    BY <1>1, LogStays
  <2>4. BoxInv(b)' /\ WalkInv(b)'
    BY <1>1, BoxStays, WalkStays
  <2>5. ASSUME NEW c \in Boxes, c # b PROVE BoxInv(c)' /\ WalkInv(c)'
    BY <2>1, <2>5 DEF ToolboxInv, Others, BoxInv, WalkInv
  <2> QED
    BY <2>1, <2>2, <2>3, <2>4, <2>5 DEF ToolboxInv, Others
<1>2. CASE UNCHANGED toolbox
  BY <1>2 DEF toolbox, ToolboxInv, CasesInv, BoxInv, WalkInv, LogInv
<1>3. CASE ToolboxNext
  BY <1>1, <1>3, Handlers DEF ToolboxNext
<1> QED
  BY <1>2, <1>3

LEMMA ToolboxStarts == ToolboxInit => ToolboxInv
<1> SUFFICES ASSUME ToolboxInit PROVE ToolboxInv
  OBVIOUS
<1> USE DEF ToolboxInit
<1>1. CasesInv
  BY ToolboxAssumption DEF CasesInv
<1>2. ASSUME NEW b \in Boxes PROVE BoxInv(b) /\ WalkInv(b) /\ LogInv(b)
  <2>1. BoxInv(b)
    BY NothingIsProper DEF BoxInv, Kinds
  <2>2. WalkInv(b)
    BY ToolboxAssumption DEF WalkInv
  <2>3. LogInv(b)
    BY DEF LogInv
  <2> QED
    BY <2>1, <2>2, <2>3
<1> QED
  BY <1>1, <1>2 DEF ToolboxInv

LEMMA ToolboxKeeps == ToolboxInv => ToolsKeepToScope
<1> SUFFICES ASSUME ToolboxInv PROVE ToolsKeepToScope
  OBVIOUS
<1>0. CasesInv /\ \A b \in Boxes : BoxInv(b) /\ WalkInv(b) /\ LogInv(b)
  BY DEF ToolboxInv
<1>1. AnswersInScope
  BY <1>0, ScopeStays DEF AnswersInScope, BelongsTo, BoxInv, Proper, MayTell
<1>2. WritesAreOwnAndAudited
  <2> SUFFICES ASSUME NEW w \in writes
               PROVE  /\ w.visible
                      /\ Len(ended[w.box]) >= w.call =>
                            ended[w.box][w.call] = "returned" /\ audit[w.box][w.call] = "success"
    BY DEF WritesAreOwnAndAudited
  <2>1. w.box \in Boxes
    BY DEF ToolboxInv
  <2>2. LogInv(w.box) /\ Len(ended[w.box]) \in Nat
    BY <1>0, <2>1 DEF LogInv
  <2> QED
    BY <2>2 DEF LogInv
<1>3. ChainIsSimple
  BY <1>0 DEF ChainIsSimple, WalkInv
<1>4. AllowedKeepsPolicy
  BY <1>0 DEF AllowedKeepsPolicy, BoxInv, Proper, MayDecide, PolicyOf
<1> QED
  BY <1>1, <1>2, <1>3, <1>4 DEF ToolsKeepToScope

(* ToolsKeepToScope, for any number of requests under way, any rows and    *)
(* identities, any manager column and any fares.                           *)
THEOREM ToolsKept == ToolboxSpec => []ToolsKeepToScope
<1> QED
  BY ToolboxStarts, ToolboxStays, ToolboxKeeps, PTL DEF ToolboxSpec
=============================================================================
