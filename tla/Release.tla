------------------------------ MODULE Release ------------------------------
(***************************************************************************)
(* Changing the accepted version of the Contoso Travel agent.              *)
(*                                                                         *)
(* A job is one invocation of a command that may change the named route:   *)
(*   "promote"   python -m contoso_travel_agent.release promote --apply    *)
(*   "rollback"  python -m contoso_travel_agent.release rollback --apply   *)
(*   "evaluate"  python -m contoso_travel_agent.operations evaluate        *)
(* Every cloud read, the receipt and the patch are separate steps, so jobs *)
(* interleave with each other, with the portal and with crashes.           *)
(***************************************************************************)
EXTENDS Naturals

CONSTANTS
    Jobs,             \* invocations
    Versions,         \* immutable agent versions
    Images,           \* image and identity of a version's tool backend
    Contracts,        \* authorization schemes and protocols of the endpoint
    InitialVersion,   \* the version accepted before the first job
    Portal,           \* whoever changes the cloud without these commands
    Split,            \* a selector that is not one FixedRatio rule at 100 percent
    Gone,             \* a tool backend that was retired
    Passed,           \* candidates whose stored comparison passes every case
    GoldenPassed,     \* versions that pass the legacy golden evaluation
    Declared,         \* versions whose definition is the checked-in one
    Discipline,       \* how routing changes are serialized, see MayStart, MayWrite
    MaxInterventions  \* bound on the changes the portal makes

ASSUME ReleaseAssumption ==
    /\ InitialVersion \in Versions
    /\ Passed \subseteq Versions
    /\ Split \notin Versions
    /\ Gone \notin Images
    /\ Portal \notin Jobs
    /\ Discipline \in {"none", "window", "serial"}
    /\ MaxInterventions \in Nat

VARIABLES
    endpoint,       \* the named endpoint: its route and its contract
    backend,        \* the live tool backend each version depends on
    governed,       \* the live inventory and controls are as declared
    stage,          \* how far each job is
    plan,           \* what each job was asked to do, fixed when it starts
    before,         \* the endpoint each job read and decided on
    bundles,        \* the dependency bundles each release job read
    receipts,       \* receipt.json in each job's own evidence folder
    interventions,  \* number of portal changes
    installed,      \* history: who set the current endpoint, and what it replaced
    chosen          \* history: routes set on purpose outside the release commands

cloud   == <<endpoint, backend, governed>>
memory  == <<stage, plan, before, bundles>>
history == <<installed, chosen>>
vars    == <<cloud, memory, receipts, interventions, history>>

Routes     == Versions \cup {Split}
Endpoints  == [route : Routes, contract : Contracts]
Backends   == Images \cup {Gone}
BundlePair == [old : Backends, new : Backends]
Kinds      == {"promote", "rollback", "evaluate"}
Ended      == {"done", "failed", "crashed"}
Viewing    == {"read", "bundled", "ready", "governed", "checked"}
Stages     == {"idle", "started", "pinned", "verified"} \cup Viewing \cup Ended
Plans      == [kind : Kinds, expected : Versions, target : Versions, source : Jobs]
Receipts   == [state : {"absent", "torn", "durable"}, action : Kinds,
               previous : Versions, target : Versions, bundles : BundlePair]

Active(j)    == stage[j] \notin {"idle"} \cup Ended
IsRelease(j) == plan[j].kind \in {"promote", "rollback"}

NoBundles == [old |-> Gone, new |-> Gone]
NoReceipt == [state |-> "absent", action |-> "evaluate",
              previous |-> InitialVersion, target |-> InitialVersion, bundles |-> NoBundles]

Init ==
    /\ endpoint \in [route : {InitialVersion}, contract : Contracts]
    /\ backend \in [Versions -> Images]
    /\ governed = TRUE
    /\ stage = [j \in Jobs |-> "idle"]
    /\ plan = [j \in Jobs |-> [kind |-> "evaluate", expected |-> InitialVersion,
                               target |-> InitialVersion, source |-> j]]
    /\ before = [j \in Jobs |-> endpoint]
    /\ bundles = [j \in Jobs |-> NoBundles]
    /\ receipts = [j \in Jobs |-> NoReceipt]
    /\ interventions = 0
    /\ installed = [by |-> Portal, from |-> endpoint]
    /\ chosen = {InitialVersion}

-----------------------------------------------------------------------------
(***************************************************************************)
(* The operators' discipline, which no code enforces.                      *)
(*   "serial"  docs/demo-guide.md: one routing job at a time and no        *)
(*             concurrent portal changes                                   *)
(*   "window"  jobs and portal interleave freely, except that nobody else  *)
(*             acts on the endpoint between a job's last read and its patch *)
(*   "none"    anything goes                                               *)
(***************************************************************************)
MayStart(j) == Discipline = "serial" => \A k \in Jobs \ {j} : ~Active(k)

MayWrite(actor) == Discipline = "window" => \A k \in Jobs \ {actor} : stage[k] # "checked"

MayIntervene ==
    /\ interventions < MaxInterventions
    /\ Discipline = "serial" => \A k \in Jobs : ~Active(k)

\* One step of job j: proceed to the next stage when the code's checks hold,
\* fail (an exception ends the process) when they do not.
Proceed(j, ok, next) == stage' = [stage EXCEPT ![j] = IF ok THEN next ELSE "failed"]

-----------------------------------------------------------------------------
(***************************************************************************)
(* Starting a job.  An invocation the command line or the stored evidence  *)
(* refuses reads no route and changes nothing, so it is no step here.      *)
(***************************************************************************)
Start(j, p) ==
    /\ stage[j] = "idle"
    /\ MayStart(j)
    /\ stage' = [stage EXCEPT ![j] = "started"]
    /\ plan' = [plan EXCEPT ![j] = p]
    /\ UNCHANGED <<cloud, before, bundles, receipts, interventions, history>>

\* require_candidate_pass on the comparison decides the target.
StartPromote(j) ==
    \E expected \in Versions, candidate \in Passed :
        /\ candidate # expected
        /\ Start(j, [kind |-> "promote", expected |-> expected,
                     target |-> candidate, source |-> j])

\* The receipt of a promotion is the only way back; a torn one does not parse.
StartRollback(j) ==
    \E origin \in Jobs \ {j} :
        LET original == receipts[origin] IN
        /\ original.state = "durable"
        /\ original.action = "promote"
        /\ original.previous # original.target
        /\ Start(j, [kind |-> "rollback", expected |-> original.target,
                     target |-> original.previous, source |-> origin])

\* The manifest of operations.deploy names the candidate; nothing is expected.
StartEvaluate(j) ==
    \E candidate \in Versions :
        Start(j, [kind |-> "evaluate", expected |-> InitialVersion,
                  target |-> candidate, source |-> j])

-----------------------------------------------------------------------------
(***************************************************************************)
(* The reads a decision rests on.                                          *)
(***************************************************************************)
\* Mutant of ReadEndpoint: the route is not compared with --expect-version.
ReadEndpointUnchecked(j) ==
    /\ stage[j] = "started"
    /\ Proceed(j, TRUE, "read")
    /\ before' = [before EXCEPT ![j] = endpoint]
    /\ UNCHANGED <<cloud, plan, bundles, receipts, interventions, history>>

ReadEndpoint(j) ==
    /\ stage[j] = "started"
    /\ Proceed(j, IsRelease(j) => governed /\ endpoint.route = plan[j].expected, "read")
    /\ before' = [before EXCEPT ![j] = endpoint]
    /\ UNCHANGED <<cloud, plan, bundles, receipts, interventions, history>>

\* Mutant of BundlesUsable: the rollback bundle is not compared with the receipt.
BundlesUsableUnrecorded(j) ==
    /\ backend[plan[j].expected] # Gone
    /\ backend[plan[j].target] # Gone
    /\ plan[j].kind = "promote" => plan[j].target \in Declared

\* tool_bundle for the expected and the target version.
BundlesUsable(j) ==
    LET p == plan[j] IN
    /\ backend[p.expected] # Gone
    /\ backend[p.target] # Gone
    /\ p.kind = "rollback" => backend[p.target] = receipts[p.source].bundles.old
    /\ p.kind = "promote" => p.target \in Declared

ReadBundles(j) ==
    /\ stage[j] = "read"
    /\ IsRelease(j)
    /\ Proceed(j, BundlesUsable(j), "bundled")
    /\ bundles' = [bundles EXCEPT ![j] = [old |-> backend[plan[j].expected],
                                          new |-> backend[plan[j].target]]]
    /\ UNCHANGED <<cloud, plan, before, receipts, interventions, history>>

\* Mutant of Receipt: the two versions are swapped.
ReceiptSwapped(j) == [state |-> "durable", action |-> plan[j].kind, previous |-> plan[j].target,
                      target |-> plan[j].expected, bundles |-> bundles[j]]

Receipt(j) == [state |-> "durable", action |-> plan[j].kind, previous |-> plan[j].expected,
               target |-> plan[j].target, bundles |-> bundles[j]]

\* Evidence.write: exclusive create and fsync, before anything is routed.
WriteReceipt(j) ==
    /\ stage[j] = "bundled"
    /\ Proceed(j, TRUE, "ready")
    /\ receipts' = [receipts EXCEPT ![j] = Receipt(j)]
    /\ UNCHANGED <<cloud, plan, before, bundles, interventions, history>>

\* The legacy path: the golden set decides, and no receipt is written.
EvaluateGolden(j) ==
    /\ stage[j] = "read"
    /\ plan[j].kind = "evaluate"
    /\ Proceed(j, plan[j].target \in GoldenPassed, "ready")
    /\ UNCHANGED <<cloud, plan, before, bundles, receipts, interventions, history>>

-----------------------------------------------------------------------------
(***************************************************************************)
(* governed_pin_agent_version: live preflight, last read, patch.           *)
(***************************************************************************)
Govern(j) ==
    /\ stage[j] = "ready"
    /\ Proceed(j, governed, "governed")
    /\ UNCHANGED <<cloud, plan, before, bundles, receipts, interventions, history>>

\* Mutant of Recheck: the endpoint is not read again after the preflight.
RecheckBlind(j) ==
    /\ stage[j] = "governed"
    /\ MayWrite(j)
    /\ Proceed(j, TRUE, "checked")
    /\ UNCHANGED <<cloud, plan, before, bundles, receipts, interventions, history>>

\* The complete endpoint is compared, by value.
Recheck(j) ==
    /\ stage[j] = "governed"
    /\ MayWrite(j)
    /\ Proceed(j, endpoint = before[j], "checked")
    /\ UNCHANGED <<cloud, plan, before, bundles, receipts, interventions, history>>

\* Mutant of Patch: the body replaces the endpoint instead of its selector.
PatchReplacing(j) ==
    /\ endpoint' = [route |-> plan[j].target]
    /\ installed' = [by |-> j, from |-> endpoint]
    /\ UNCHANGED <<backend, governed, plan, before, bundles, receipts, interventions, chosen>>

\* The patch carries the version selector and no precondition.
Patch(j) ==
    /\ endpoint' = [endpoint EXCEPT !.route = plan[j].target]
    /\ installed' = [by |-> j, from |-> endpoint]
    /\ UNCHANGED <<backend, governed, plan, before, bundles, receipts, interventions, chosen>>

Update(j) ==
    /\ stage[j] = "checked"
    /\ Proceed(j, TRUE, IF IsRelease(j) THEN "pinned" ELSE "done")
    /\ Patch(j)

\* retry_total=0: the service applied the patch, the client saw an error.
UpdateReplyLost(j) ==
    /\ stage[j] = "checked"
    /\ Proceed(j, FALSE, "pinned")
    /\ Patch(j)

UpdateRefused(j) ==
    /\ stage[j] = "checked"
    /\ Proceed(j, FALSE, "pinned")
    /\ UNCHANGED <<cloud, plan, before, bundles, receipts, interventions, history>>

-----------------------------------------------------------------------------
(***************************************************************************)
(* Verification after the patch.  A failure leaves the new route in place. *)
(***************************************************************************)
ReadBack(j) ==
    /\ stage[j] = "pinned"
    /\ Proceed(j, endpoint = [before[j] EXCEPT !.route = plan[j].target], "verified")
    /\ UNCHANGED <<cloud, plan, before, bundles, receipts, interventions, history>>

\* The named endpoint answers with the routed version and its tool backend;
\* the model may also fail to answer correctly.
NamedResponse(j) ==
    /\ stage[j] = "verified"
    /\ \E answered \in BOOLEAN :
         Proceed(j, /\ answered
                    /\ endpoint.route = plan[j].target
                    /\ backend[plan[j].target] # Gone, "done")
    /\ UNCHANGED <<cloud, plan, before, bundles, receipts, interventions, history>>

-----------------------------------------------------------------------------
(***************************************************************************)
(* Crashes, and everything else that changes the cloud.                    *)
(***************************************************************************)
\* A process killed while it writes the receipt can leave a torn file.
Crash(j) ==
    /\ Active(j)
    /\ stage' = [stage EXCEPT ![j] = "crashed"]
    /\ \/ UNCHANGED receipts
       \/ /\ stage[j] = "bundled"
          /\ receipts' = [receipts EXCEPT ![j].state = "torn"]
    /\ UNCHANGED <<cloud, plan, before, bundles, interventions, history>>

Intervene ==
    /\ MayIntervene
    /\ interventions' = interventions + 1
    /\ UNCHANGED <<memory, receipts>>

PortalChangesEndpoint ==
    /\ Intervene
    /\ MayWrite(Portal)
    /\ endpoint' \in Endpoints \ {endpoint}
    /\ installed' = [by |-> Portal, from |-> endpoint]
    /\ chosen' = chosen \cup {endpoint'.route}
    /\ UNCHANGED <<backend, governed>>

PortalChangesBackend ==
    /\ Intervene
    /\ \E v \in Versions, b \in Backends :
         /\ backend[v] # b
         /\ backend' = [backend EXCEPT ![v] = b]
    /\ UNCHANGED <<endpoint, governed, history>>

ControlsDrift ==
    /\ Intervene
    /\ governed' = ~governed
    /\ UNCHANGED <<endpoint, backend, history>>

-----------------------------------------------------------------------------
JobStep(j) ==
    \/ StartPromote(j) \/ StartRollback(j) \/ StartEvaluate(j)
    \/ ReadEndpoint(j) \/ ReadBundles(j) \/ WriteReceipt(j) \/ EvaluateGolden(j)
    \/ Govern(j) \/ Recheck(j)
    \/ Update(j) \/ UpdateReplyLost(j) \/ UpdateRefused(j)
    \/ ReadBack(j) \/ NamedResponse(j)
    \/ Crash(j)

Next ==
    \/ \E j \in Jobs : JobStep(j)
    \/ PortalChangesEndpoint \/ PortalChangesBackend \/ ControlsDrift

Spec == Init /\ [][Next]_vars

-----------------------------------------------------------------------------
(***************************************************************************)
(* Properties.                                                             *)
(***************************************************************************)

\* Every variable stays in its set.
TypeOK ==
    /\ endpoint \in Endpoints
    /\ backend \in [Versions -> Backends]
    /\ governed \in BOOLEAN
    /\ stage \in [Jobs -> Stages]
    /\ plan \in [Jobs -> Plans]
    /\ before \in [Jobs -> Endpoints]
    /\ bundles \in [Jobs -> BundlePair]
    /\ receipts \in [Jobs -> Receipts]
    /\ interventions \in Nat
    /\ installed \in [by : Jobs \cup {Portal}, from : Endpoints]
    /\ chosen \subseteq Routes

\* However jobs, crashes and the portal interleave, the named route never
\* serves a version nobody vetted: it passed a comparison against the
\* checked-in definition, passed the golden set, or was routed on purpose.
\* Rollbacks only ever return to such a version (release.py).
RouteIsVetted ==
    endpoint.route \in chosen \cup (Passed \cap Declared) \cup GoldenPassed

\* If a release job set the current route, its receipt is complete on disk and
\* names that route, whatever happened to the job since: recovery is possible
\* even when the job crashed or its reply was lost (release.py:203).
RouteHasReceipt ==
    LET j == installed.by IN
    (j \in Jobs /\ IsRelease(j)) =>
        /\ receipts[j].state = "durable"
        /\ receipts[j].target = endpoint.route

\* When a job is about to patch, the endpoint is still the one its decision
\* was based on, across the slow evaluation and preflight: no decision of
\* another operator is overwritten (operations.py:274).  Needs "window".
NoDecisionOverwritten ==
    \A j \in Jobs : stage[j] = "checked" => endpoint = before[j]

\* The receipt of the promotion that set the current route takes the route
\* back to exactly what it was.  Needs "window".
ReceiptUndoesPromotion ==
    LET j == installed.by IN
    (j \in Jobs /\ plan[j].kind = "promote") =>
        [installed.from EXCEPT !.route = receipts[j].target] = endpoint
        /\ receipts[j].previous = installed.from.route

\* The receipt of a rollback is the inverse of its promotion's, the tool backend
\* included: an old version number alone is not a recovery plan (release.py:192).
RollbackInvertsPromotion ==
    \A j \in Jobs :
        LET own == receipts[j]
            original == receipts[plan[j].source]
        IN  (own.state = "durable" /\ own.action = "rollback") =>
                /\ own.previous = original.target
                /\ own.target = original.previous
                /\ own.bundles.new = original.bundles.old

\* A receipt is what recovery needs: a promotion's takes the route back exactly,
\* a rollback's inverts its promotion's, whichever jobs released in between.
ReceiptsInvert == ReceiptUndoesPromotion /\ RollbackInvertsPromotion

\* docs/demo-guide.md:360 says of rollback that it "refuses to overwrite a route
\* changed by another operator": a rollback about to patch acts on the route its
\* own promotion installed.
RollbackRefusesForeignRoute ==
    \A j \in Jobs :
        (stage[j] = "checked" /\ plan[j].kind = "rollback") => installed.by = plan[j].source

\* The route changes only through an intervention of the portal or through the
\* patch of a job whose view is current: Release implements RouteRegister.
Register == INSTANCE RouteRegister WITH
    Actors <- Jobs,
    Unseen <- Split,
    view   <- [j \in Jobs |-> IF stage[j] \in Viewing THEN before[j] ELSE Split]
ImplementsRegister == Register!Spec
=============================================================================
