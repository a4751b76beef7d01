# Verification of the Contoso Foundry estate

TLA+ models of the programs in this repository, the TLC runs that check them on
small instances, and TLAPS proofs of their main properties for instances of any
size. Paths are relative to the repository; `travel/` abbreviates
`agents/travel/src/contoso_travel_agent/` and `foundry/` abbreviates
`src/contoso_foundry/`.

## The system

The repository deploys and operates a small estate of AI agents on Azure AI
Foundry. Nearly all of it is command-line Python and GitHub workflows that talk
to cloud services which other people change at the same time. Its hard
behaviours are therefore the ones of distributed operations: a check followed by
an unconditional write, a wait of minutes between a read and the decision that
rests on it, a process killed between a cloud call and the file that records
it, a deployment that goes on after the run that started it died, and paged or
delayed answers that may be incomplete.

How the modelled parts meet: the Travel workflow (`Rollout`) creates an agent
version and the tool backend it depends on; the paired experiment
(`Experiment`, `OutputItems`) compares two versions and leaves evidence; the
release commands (`Release`) read that evidence and move the named route. The
Concierge workflow (`Concierge`) is a second, separate release path for a
Copilot Studio solution. Before anything is deployed the plan and the live
subscription are compared (`BoundaryPlan`, `Boundary`), a region is chosen
(`Regions`) and its price is held against the budget (`Prices`). The agents
themselves answer within bounds and scopes: Travel (`Turn`, `ToolLoop`, with
`AgentVersion`, `GoldenEvaluation` and `Traffic` around it), Research, Support
(`Support`, `SupportRoute`, over a database its first caller builds,
`DataStore`), all of them over the shared `Toolbox`; the Field agent is an
external app with rehearsals and a registration (`Rehearsal`, `Registration`,
`GatewayRehearsal`).

## Inventory

| Component | Source | State it keeps | Operations | Hard behaviour | What makes it correct | Model |
| --- | --- | --- | --- | --- | --- | --- |
| Travel release and routing | `travel/release.py`, `travel/operations.py` | the named route (cloud), receipts (disk) | promote, rollback, evaluate | check then unconditional patch; crash between receipt and patch; lost reply; portal | only vetted versions are routed; a release can be undone exactly | `Release`, `RouteRegister` |
| Travel paired experiments | `travel/experiments.py` | evidence folder, evaluation and two runs (cloud) | run, resume, gate | crash and resume; deadline; drift during a wait; unreliable pages | nothing paid twice; summaries name what answered and graded; a gate repetition or loss cannot fool | `Experiment`, `OutputItems` |
| Travel deployment workflow | `.github/workflows/travel.yml`, `infra/travel.bicep` | identities, apps, connections, versions, the traffic job (cloud) | start or rotate a release, evaluate, deploy the job, retain | runs that die while their deployment goes on; partial deployments; repeated runs | at most two releases; versions keep the backend they were evaluated against; a complete release to roll back to | `Rollout` |
| Support data store | `foundry/support_agent/tools.py`, `foundry/data/build.py` | a SQLite file, a lock | look, build, verify, open | first callers race; a build that dies halfway | a verified store opens the whole spine or nothing | `DataStore` |
| Concierge release path | `.github/workflows/concierge-alm.yml`, `foundry/concierge_alm.py`, the artifact action | artifacts and attestations, DEV, TEST, production | package, import-test, accept-test, import-prod | runs share environments with nothing to keep them apart; publication by hand; operators name the source | production runs one built, attested, accepted package | `Concierge`, `Promotion` |
| Travel turn | `travel/runtime.py`, `service.py`, `identity.py` | the evidence of the last turn, an audit | server-executed turn, callback loop | lost and refused calls of the tool service; a model that never stops | evidence is of this turn and was served; every turn ends | `Turn`, `ToolLoop` |
| Travel versions | `travel/definition.py`, `agents/travel/agent.yaml` | agent versions (cloud), manifests | load, digest, create, read back | other creators; a connection whose target changes | a manifest is of the version that is stored; one digest, one definition | `AgentVersion` |
| Travel golden evaluation | `travel/evaluation.py` | an evaluation run (cloud) | collect, create, poll, list | a run that never ends; items missing | passed means every row passed; it ends at its deadline | `GoldenEvaluation` |
| Travel traffic | `travel/traffic.py`, the job in `infra/travel.bicep` | none | decide by the calendar, converse | observed holidays, slots, one retry | the calendar is the promised one; completed means traced | `Traffic` |
| Research agent | `foundry/research/` | a scope, open connections | plan, retrieve, synthesise, evaluate | concurrent requests over one runtime | answers within one persona's scope, connections closed | `Research` |
| Support agent | `foundry/support_agent/` | a request's scope, the route (cloud) | investigate, evaluate, verify the route | a context variable; a route that others change | findings within scope; an evaluation that means what it says | `Support`, `SupportRoute` |
| Field and Gateway rehearsal | `foundry/demo.py`, `foundry/field/smoke.py` | scale of an app (cloud), evidence | scale up, execute, restore, resume; probe the Gateway | killed before `finally`; two presenters; a deployment in between; late logs | capacity is given back; a summary is about its own run at rest | `Rehearsal`, `GatewayRehearsal` |
| Field registration | `foundry/field/register.py`, `telemetry.py` | agent versions (cloud) | query, verify, create, read back | late spans, other registrants | registered only on complete evidence of one run | `Registration` |
| Approvals toolbox | `foundry/toolbox/` | the spine, an audit | scoped reads, a walk, one update, aggregates, bookings | read before write; cycles | scope on every path, an audited outcome for every call | `Toolbox` |
| Deployment boundary | `foundry/boundary.py` | a plan, a live inventory, the group (cloud) | check, compare, create the group | paging, failed reads, others at work | a clean report means owned and complete | `BoundaryPlan`, `Boundary` |
| Prices | `foundry/costs.py` | a price cache | page, retry, price tiers, gate | throttling against a deadline; tier edges; a repriced catalogue | the verdict is that of today's prices; work is bounded | `Prices` |
| Region choice | `foundry/regions.py` | a decision file | gates, probes, ranking | probes that fail | qualified exactly when everything is there; the cheapest of what is priced | `Regions` |
| Gateway and control plane checks | `foundry/gateway.py`, `control_plane.py` | none | compare snapshots | partial reads | every difference refuses | not modelled |
| Data generation, integrity | `foundry/data/` | none | generate, check | none: seeded and sequential | the build lock | not modelled (its write is in `DataStore`) |
| Workflows without state, templates, scanners, command line | `.github/workflows/ci.yml` and others, `infra/`, `foundry/scan.py`, `cli.py` | none | | | | not modelled |

`PROJECT.json` lists every component with its sources, and the hazards of this
code at the lines where they bite.

## Modules and what they stand for

Each action is one step after which the code can be interrupted or another
actor can act: a cloud read, a cloud write, a durable file, a poll that decides.
Retrying reads, printing and formatting are left out. Every definition is mapped
to source lines in `PROJECT.json`. Definitions that begin "Mutant of" are never
used by a specification; they are plausible bugs a property must notice.

**`Release`**: a job is one invocation of `release promote`, `release rollback`
or `operations evaluate`. `Start*` are argument checks and the gate on stored
evidence, `ReadEndpoint` `endpoint_snapshot` and the `--expect-version`
comparison, `ReadBundles` two calls of `tool_bundle`, `WriteReceipt`
`Evidence.write` (exclusive, fsynced), `Govern` the live preflight of
`governed_pin_agent_version`, `Recheck` the second read of `pin_agent_version`,
`Update`, `UpdateReplyLost` and `UpdateRefused` the patch with its three
outcomes, `ReadBack` and `NamedResponse` what follows. Any active job may crash,
and a crash while the receipt is written may leave a torn file. The portal
changes the endpoint, the tool backends and the governed controls. The constant
`Discipline` says who may act between `Recheck` and the patch: `"none"` is the
code on its own, `"window"` forbids others to act in that window, and `"serial"`
is what `docs/demo-guide.md` asks of operators.

**`RouteRegister`**: the compare-and-set register a reader of the code would
like the named route to be. `Release` implements it under `"window"` and not
under `"none"`: the code reads and then patches without a precondition.

**`Experiment`**: one paired comparison. The original process captures the
deployments, pays for the turns, creates an evaluation and two runs, polls,
reads and summarises; readers (`--resume-from` and promotions) load its folder,
match the deployments and read the same runs. The folder is the set of durable
file names, the deployments are one generation number that only grows (complete
ARM resources are compared), and the evaluation service grades with whatever
judge is deployed when it grades. Errors, deadlines and crashes may happen at
any step.

**`OutputItems`**: the paging loop of `read_evaluation_runs`, the checks of
`outcomes`, the counts of `public_summary` and the gate `require_candidate_pass`,
against a service that pages, repeats, drops, reorders and mislabels items and
counts as it likes.

**`Rollout`**: the Travel workflow. Run *n* builds image *n* and generates
credential *n*; its steps are the workflow's (`Admit`, `ResolveNew` or
`ResolveRotation` or `Refuse`, `SubmitTool`, `AwaitTool`, `Verify`, ...), and the
cloud works through the template's identity, app, connection and job on its own
(`Deploy*`, `FailDeployment`), also after `Stop` ended the run. Runs exclude
each other (the workflow's concurrency group), deployments and runs do not.
Operators dispatch, retire a release between runs, and turn the traffic switch.

**`DataStore`**: the calls of `CanonicalDataStore.connect` in one process. The
look outside the lock, the lock, the second look, the four steps of the build
(unlink, tables, rows, unlock), the digest and the open are separate steps;
builds fail, and the process restarts, anywhere.

**`Concierge`**: the four operations of the ALM workflow as runs that share
DEV, TEST, production and the artifact store. `Dispatch` lets an operator name
any run and any commit as its source; `Verify` is `validate_source_run`, the
artifact lookup and the attestation check together, one step because they read
things that only grow; a run may fail after its upload. Packages are told apart
by the run that exported them and the source DEV held then.

**`Promotion`**: what that path promises: a package is built, then accepted,
then promoted, in that order. `Concierge` implements it with `built` and
`accepted` mapped to what successful runs retained.

**`Turn`** and **`ToolLoop`**: the two runtimes of the Travel agent. In `Turn`
the platform calls the tool service (`CallTool`, `LoseCall`) and the reply
claims what it called (`Reply`); `Valid` is what `run_turn` checks of the items.
In `ToolLoop` the runtime executes the calls itself, one by one, and sends the
outputs back for at most `MaxRounds` rounds.

**`AgentVersion`**: `load_agent_spec`, the digest, `create_agent_version` and
its read-back, with several creators, connections that get another target and a
service that may store something else than it was sent.

**`GoldenEvaluation`**: a sample for each golden row, the evaluation run, the
poll with its deadline, and the items; `CallsMatch` is the matching of tool calls
and arguments.

**`Traffic`**: `FederalHolidayRule` and `scenario_for` as operators over the
Gregorian calendar, and the job with its retry. The reference definition,
`Promised`, is said of days and hours rather than of rules.

**`Research`**: requests to the hosted server or scenarios of the evaluation,
each a pass through planner, retrieval and synthesis over a toolbox that its
own request opens and closes; `ResearchInit` ranges over the deployment's
settings and the checks made at its start.

**`Support`** and **`SupportRoute`**: investigations whose tool calls open a
session each, the evaluation's scenarios with their context variable, and the
two reads of `verify_deployment` while others deploy.

**`Rehearsal`**: one action per command, wait or file of `rehearse_field` and
`verify_field_evidence`; `Throw` is any exception inside the `try`, `Refuse` one
outside it. The app is Azure's: revisions, the one that is ready, their minimum
of replicas, those still active and those with a replica (`Service`).
`Resume` finishes what another process recorded.

**`GatewayRehearsal`**, **`Registration`**: the rehearsal of the Gateway over a
diagnostic log that fills late, and the creation of a version on telemetry that
arrives span by span.

**`BoundaryPlan`** and **`Boundary`**: `check_plan` over plans of sections,
scopes (as sequences of segments), roles and removals, against what a scope
really addresses; and `check_live` read by read, with pages and continuations,
failed reads and other users of the subscription, up to
`ensure_resource_group`. The command goes on to the live check when the plan's
own checks failed and reports both; `require_clean_live` raises instead, and
`CheckStatic` does either.

**`Prices`**: runs of the price gate. A query is requested page by page, with
retries, pauses and a deadline; `TiersOf` picks the tiers of the one meter that
fits, as a `Listing` of the `Newest` rows by floor, and `Cost` is the marginal sum
over them. Both are held against `CountedOut`, which prices unit by unit without
listing anything. The cache file outlives a run.

**`Regions`**: the gates in their order, the probes that may fail, the ranking
and the decision.

**`Toolbox`**: requests of several identities on one database. `Admit` is what
`call` checks, each kind of tool an action, and `ReadCase`, `WriteCase` and
`RereadCase` the three statements of the one write path. `Raise` and `Return`
record the outcome. `InScope` is the predicate that every read joins.

`MC<module>.tla` and its `.cfg` files are the instances. `MCAgents` and
`MCEstate` extend many modules that share no state: the variable `subject` says
which one a behaviour is about, and the others stay as they start, so the states
of such a run are the sum of those of its modules and every module keeps its own
specification and properties. The theorems are in eight modules:
`ReleaseProofs`, `ExperimentProofs`, `RolloutProofs` and `ConciergeProofs` for
the module of that name, `TravelProofs` for the parts of the Travel agent,
`ServerProofs` for Research and Support, `GateProofs` for the boundary, its plan,
the choice of a region and the verdict on the cost, and `EstateProofs` for the
rest of the estate.

## What the runs check

| Run | Instance | Shows |
| --- | --- | --- |
| `release` | 2 jobs, 3 versions, 2 backends, 2 endpoint contracts, 2 portal changes, `"window"` | `RouteIsVetted`: whatever chain of promotions, rollbacks and crashes, the route serves only vetted versions. `RouteHasReceipt`: a route set by a release has its receipt, also after a crash or a lost reply. `ReceiptsInvert`: a promotion's receipt takes the route back exactly (`ReceiptUndoesPromotion`), and a rollback's is its promotion's inverse, backend included (`RollbackInvertsPromotion`). `ImplementsRegister`: the route is a compare-and-set register, so no patch overwrites an endpoint other than the one its decision was based on |
| `release_foreign_route` | the same, `"serial"`, 1 portal change | finding: see below |
| `experiment` | the original and one reader, 2 turns, 1 redeployment | `EvidenceOutlives`: once the last identifier is on disk a later process has all it needs (`EvidenceSuffices`), and the candidate's run exists whatever the baseline did (`BaselineCannotSuppress`). `ResumedAsOne`: resuming neither pays again (`NothingRepeated`) nor reports something else (`ReportsAgree`). `NamedTruly`: a summary names the deployments that answered (`AnsweredByTheNamed`), and the original's also the judge (`OriginalGradedByTheNamed`). `EveryProcessEnds`: every process ends though the cloud promises nothing |
| `experiment_relabel` | the original and one reader, 1 turn | finding |
| `rollout` | 3 releases, 4 runs | with runs stopped anywhere: `ReleasesRetained`: never parts of a third release (`AtMostTwoReleases`), and a finishing run leaves itself and the retained one (`RollbackRetained`). `VersionsServeAsMade`: versions keep the image they were evaluated against (`VersionsKeepTheirBackend`) and a connection that sends its credential (`FinishedRunsAgreeOnTheKey`). `JobRunsAccepted`, and the step property `ConnectedReleasesKept` |
| `rollout_switch` | 2 runs | finding |
| `concierge` | 4 runs, 2 at once, 2 cases | `ReleasedInOrder`: TEST holds what successful package runs retained (`TestIsReleased`), production what a complete acceptance re-issued (`ProdIsAccepted`). `ImplementsPromotion` |
| `concierge_serial` | 3 runs, one at a time, 2 commits | `ReleasedFromItsSource`: what a package run retains is the source of its commit, whatever earlier runs and authors left in DEV. `concierge_shared_dev` shows that it takes a run at a time |
| `concierge_shared_dev` | 2 package runs, 2 commits | finding |
| `concierge_acceptance` | 4 runs, one at a time | finding |
| `agents` | output items: 2 cases, 1 or 2 repetitions, pages of at most 2 items | `ReadingIsSound`: reading ends by itself (`PagingIsBounded`) and accepts the grades of the submitted samples only (`AcceptedIsPaired`). `GateIsSound`: a candidate passes only if it really did, as long as either the items or the counts are true |
| | 2 turns with at most 2 calls; 2 prompts of at most 2 rounds | `TurnEvidenceIsTrue`: what a turn leaves as evidence is its own (`EvidenceIsOfThisTurn`) and was served (`EvidenceWasServed`), in the callback loop too (`ListedWereExecuted`) |
| | every day of 2021, 3 times of day, 1 retry | `TrafficAsPromised`: the calendar (`CalendarAsPromised`), Travel's share of an hour (`HalfTheEstate`), and a trace of what is reported as completed (`CompletedIsTraced`) |
| | 2 golden rows, a deadline of 2 | `PassedOnEveryRow` |
| | 2 creators, 5 documents, 2 targets | `VersionIsItsManifest`: a manifest is of the version that is stored (`ManifestIsStored`), and a digest of one definition (`DigestTellsDefinition`) |
| | 2 Research requests, 5 conversations | `ResearchIsOwn`: answers within the persona's scope (`AnswerInScope`), an audit of the request's own calls (`AuditIsOwn`), connections closed (`SessionsClosed`) |
| | 2 Support requests or 6 scenarios; a route with 3 changes | `SupportIsProven`: findings within the principal's scope (`FindingsInScope`), scenarios that passed for the reason they give (`EvaluationProves`), a route that was as verified (`VerifiedWasSo`) |
| | the callback loop, the golden evaluation, Research | `EveryRequestEnds`, under fairness: `TurnEnds`, `EvaluationEnds`, `RequestsEnd` |
| `estate` | store: 3 calls, a digest, 2 interruptions | `StoreIsSound`: connections read the whole spine (`ConnectionsAreVerified`), which only an interruption makes anyone build twice (`BuiltOnce`) |
| | 2 presenters, or 1 with 2 faults and a resumption; 5 revisions | `CapacityHasOwner`: a minimum above zero has a process that will lower it, or one that died. `PassedIsTrue`: a passing summary is about its own run (`PassedOnOwnRun`), at rest (`PassedReplicaStopped`). `ResumeRepeatsNothing` |
| | 2 registrants, 6 spans; every pair of Gateway outcomes | `RegistrationIsOwn`: a version rests on a run that happened (`RegisteredOnEvidence`), and its registrant reports that version (`AcceptedIsOwn`). `PassedMeansGuarded` |
| | boundary: 4 resources, pages with 2 continuations that may come back and any number of fresh ones, 1 change or failed read | `CleanIsClean`: what a clean report says of the subscription (`CleanMeansOwned`, `NoRoleAboveGroup`), and that the group is made only on one (`CreatedWhenClean`) |
| | 2,385 plans: an odd entry of any section, scope and role, beside a removal | `SoundPlanIsOurs`: `SoundPlanStaysInside`, `SoundPlanIsRemovable` |
| | prices: 5 orders, 3 catalogues, pages of 2 rows, 3 requests a page, 2 runs | `VerdictIsDue`: `VerdictIsTodays`, `DeadlineKept` |
| | 3 regions, 24 clouds, 3 sets of requirements, 1 failed read | `ChoiceIsRight`: `QualifiedIsTrue`, `DecisionIsCheapest` |
| | 2 toolboxes of 4 identities, 16 rows, 27 requests | `ToolsKeepToScope`: `AnswersInScope`, `WritesAreOwnAndAudited`, `ChainIsSimple`, `AllowedKeepsPolicy` |
| | the store, one rehearsal or two, the check, the price runs | `EverythingEnds`, under fairness: `CallEnds`, `CapacityGivenBack`, `RunEnds`, and `CheckEnds`, which excepts a collection that names fresh pages for ever |

A property that TLC is given may be the conjunction of the promises one module
makes, which are defined and explained separately beside it.

Every property of a passing run has a mutant of the model that violates it under
the same configuration.

**Why the bounds are enough.** Promotion, rollback and a third party are the
actors of every route race; in `release` the portal is the third party, and two
interventions let it act twice or take back what it did. Readers of an experiment do not see
each other, so one reader beside the original shows what any number would; one redeployment
separates before from after. Two samples are two cases once or one case twice,
which is the distinction the gate makes, and a page may hold all, some or none
of them or one too many. Three releases are what it takes for a third to be
possible, and four runs let each be deployed, one of them be retired or
rotated, and one more come after that. Three calls are a builder, a waiter and one that looks meanwhile.
Two presenters with five revisions can each raise and lower the scale once in
any order, which is all that one rehearsal does; faults are put to one presenter,
whose ends do not depend on whether another exists. One change of the
subscription or one failed read may fall between any two reads of the boundary,
two continuations that may come back let a collection alternate between them, a fresh one
is any that will not (two names suffice to tell one from the next, and none is
remembered, so there may be any number), and a resource of
every kind (listed, in a collection, with an identity, unexpected) exists.
Prices have a second page that is short and one that may be linked to and empty, a tier on
either side of the quantity and a repricing; a regional cloud has one region that passes, one that fails and one
that differs with the requirement. Two toolboxes are enough for one request to
fall into another's read and write.
Four Concierge runs are a whole chain from package to production; two at
once let any step of another run fall between any two steps of it. Where a bound matters the proofs do
without it.

**Deadlock** is not checked: every system here stops, because its commands end.
Where ending is a question it is a liveness property.

**Symmetry** is used for sets of model values that no constant or property
distinguishes, and in no run with a liveness property.

**Fairness.** `Experiment` assumes weak fairness of the original's steps, of a
started reader's steps, of reading back and of time (`Expire`): every request
has a timeout, so a process that is not waiting for the cloud goes on. Nothing
is assumed of the service, of crashes or of somebody starting a reader.
`DataStore` assumes weak fairness of each call's steps, which is what the
operating system's scheduler gives a thread. `threading.Lock` promises nothing
about who gets it next; no strong fairness is assumed, and since every call ends
after one use of the lock and builds are bounded by the file's existence, none
is needed. In `Rehearsal` what is fair is that a process goes on (`GoOn`): every
command and wait has a deadline, whose exception leads through `finally`;
nothing is assumed of the cloud. The boundary's check and the price run are
sequential programs whose next step is fair, over services of which nothing is
assumed: so `CheckEnds` has to except a collection that always names a page it
has not named before, which `boundary.py:214-258` and `289-365` would read for
ever, as they remember the continuations and count nothing (`costs.py:136` stops
at twenty pages). With the exception, a continuation that comes back ends the
reading however many fresh ones lie between. Sequential and fair are also the
callback loop, the golden evaluation and the handling of a Research request.
`EverythingEnds` takes `EveryCallEnds` for one of the calls,
which are interchangeable.

## What is proved

Every safety property that a passing run checks is a theorem, for every value of
the constants that its module's assumptions allow. A run's conjunction
is a theorem of its own (`ReceiptsAreInverse`, `EvidenceIsEnough`,
`ResumedAsTheOne`, `SummariesName`, `ReleasesKept`, `VersionsServe`,
`ReleasedThroughTest`, `ReadingSound`, `StoreSound`, `PassedTruly`,
`RegisteredOwn`), from the theorems of its parts. The types of `Rollout`,
`Concierge`, `OutputItems`, `DataStore` and `Rehearsal`, `NoDecisionOverwritten`
and `SpineIsImmutable` are stated by theorems alone.

All theorems rest on the named assumptions of the modules: names that differ,
null values that are no value, numbers where numbers are due. TLC evaluates them
in the runs. None assumes the bounds of the runs. Beyond those the following
assumptions say something:

* `BoundaryAssumption`: every resource is in the plain list or in a collection
  that is read (what no read shows, no check finds); no external principal has
  the name of a declared resource, since the code looks a name up among the
  external ones first; and each role assignment names a principal.
* `PlansAssumption`: scopes are sequences of segments.
* `TrafficAssumption`: a plan's holiday rules are well formed, as
  `FederalHolidayRule` checks, and besides name days that every year has:
  29 February and a fifth weekday pass the code's check, and in most years there
  is no such day.
* `ToolboxAssumption`: an update may not change a case's customer, only notes
  are internal, no contract looks up or searches notes or bookings as a table,
  and every identity has an employee, as the checked-in contracts and data have
  it.
* `PricesAssumption` with the model's `Request`: a request takes no longer than
  its timeout. That of `requests` (`costs.py:168`) bounds the connection and each
  read of the response, so a response that trickles in may take longer, and
  `DeadlineKept` is said of those that do not.
* `CatalogueAssumption`: what the publisher has to keep for a verdict to be that
  of its prices. A query's rows fit on the pages that are read, and the newest
  rows of one meter are in one unit and have one price for each floor.
  `resolve_tiers` checks that one meter is left and `evaluate` the unit of its
  first tier (`costs.py:508-515`), and neither checks these: a twenty-first page
  is dropped without a word (`costs.py:136`), and of two rows with one floor the
  later is charged (`costs.py:269-300`).

The theorems by module, with the inductive invariant where one is needed:

* **`ReleaseProofs`**. `TypeCorrect`. `RouteVetted`: the route, every receipt's
  `previous` and every target come from vetted versions; the invariant
  `VettedInv` follows the chain backwards, because a rollback trusts a receipt,
  a receipt trusts `--expect-version`, and that was compared with the live
  route. `RouteReceipted`: from the moment a release job has its receipt until it
  patches, the receipt is the one its plan calls for. `RollbackInverts`: a
  durable receipt is never written again (`DurableStays`), so what a rollback
  copied from it stays what it says. These hold under every discipline.
  `DecisionsKept`, `ReceiptUndoes`, `ReceiptsAreInverse` and
  `ReleaseImplementsRegister` assume `Discipline # "none"`: at most one job is
  in the window, and nobody else acts.
* **`ExperimentProofs`**. `TypeCorrect`; `EvidenceKept` and `BothSubmitted` from
  the order in which files appear and the fact that the process's step never
  runs ahead of them; `PaidOnce`; `ReportsAreOne` since a completed run's
  verdict never changes; `AnswersNamed`: generations only grow, so a turn
  between two equal captures was answered by that generation; `JudgeNamed`, the
  same argument for the graders of the original's runs.
* **`RolloutProofs`**. `TypeCorrect`, `TwoReleases`, `BackendKept`, `KeysAgree`,
  `JobAccepted`, `RollbackKept` and `ConnectedKept` for any number of releases
  and runs. The invariant says whose deployment may be under way (`Alone`,
  `Paced`), that everything in the cloud belongs to the release under deployment
  and the one to retain (`Others`), and that what is deployed is what the run
  resolved (`Target`). It is needed because the properties speak of the cloud
  and the workflow's checks speak of what one run saw at its start.
* **`ConciergeProofs`**. `TypeCorrect`, `TestReleased`, `ProdAccepted`,
  `ConciergePromotes` for any number of runs, with any number at once and with
  authors editing DEV. A run's step says what it holds and has retained
  (`Stage`, `Store`), what it holds traces back to a successful package run
  (`Source`), and so does what the environments hold (`Deployed`). The evidence
  for a package only grows (`EvidenceStays`), which is why checking it once,
  long before the import, is enough. `ReleasesOwnSource` assumes a run at a time
  and no author in DEV (`MaxActive = 1`, `Authors = FALSE`; the finding below
  shows that it takes both): between import and export DEV is as the run left it
  (`SerialInv`).
* **`TravelProofs`**. *Output items*: `PagingBounded` (every page but the last
  adds an item), `AcceptedPaired` and `GateSound` for any number of cases,
  repetitions and criteria: as many items as samples and no two for the same
  sample make a bijection, so a count of passes that equals the number of
  samples leaves none out. *Tool loop*: `ListedExecuted`, as a call is listed
  when it is audited or never. *Turn*: `TurnEvidence`; the response is cleared
  before anything is asked, and what it reports stands beside what was served,
  call by call (`TurnInv`), until one is not valid. *Golden evaluation*:
  `GoldenPassed`; rows are evaluated in turn, so the verdicts read are those of
  the first rows, and `completed` was seen only of a completed run. *Versions*:
  `ManifestTells`; a version keeps what it was created with, and each creator
  compares its own with what it sent. *Traffic*: `TrafficPromised`, for every
  year. Days, months and years follow one another without a gap, so the ordinal
  a rule computes is one day's (`Ordinals`, `OneDate`, `NthWeekday`,
  `LastWeekday`), and with the day after and before it is the observed one
  (`HolidaysAreKept`); `TrafficInv` carries the decision to the end of the job.
* **`ServerProofs`**. *Research*: `ResearchOwn`; a request has the plan of its
  own question, and its session is its own, opened as the deployment's persona
  and audited call by call (`PlannedAs`, `SessionOwned`), however many requests
  interleave. *Support*: `SupportProven`; a hosted call is made for the principal
  it was bound to (`HostedInScope`), and the scenarios are evaluated in turn
  (`EvaluatedInTurn`). *The route*: `VerifiedTruly`; what was read is so at some
  instant of the verification (`ReadingInv`).
* **`EstateProofs`**. *Data store*: `Connections`, `BuildsPaid`, `SpineKept` for
  any number of calls and interruptions: between taking and giving back the lock
  the file is as the holder's last step left it, and a checked digest stays true
  because nobody touches a spine. *Rehearsal*: `CapacityOwned`, `PassedStopped`,
  `PassedRightly` and `ResumedRepeatsNothing` for any number of presenters,
  revisions, faults and resumptions. That a passed rehearsal's replica stopped
  needs `ReplicaSeen`: a replica that is held runs and is active, so a process
  that saw no other revision active and none of that one running saw its own
  replica stop, whatever was scaled up between its two reads. `RunOnce` says that
  the steps up to the work order are taken once and that a resumed process is
  past them. *Registration*: `VersionsRestOnEvidence` and `ReportsOwnVersion`;
  the log and the list of versions only grow, and a registrant that has created
  its version queries no more (`EvidenceKept`). *Gateway rehearsal*:
  `GuardedWhenPassed`; each step leaves what it saw until the verdict rests on
  all of it. *Toolbox*: `ToolsKept`, for any requests on one database. What a row belongs to never
  changes, since the one update that there is spares it (`CasesInv`), so what a
  request was told in its scope stays in it; a call that is about to write
  passed the checks for its own row (`BoxInv`); the chain is a path without
  repetition that is no longer than the bound (`WalkInv`); and a write's call
  ends well or is still under way (`LogInv`).
* **`GateProofs`**. *The plan*: `SoundPlans`; an address is a walk down from the
  group, and a scope that never goes up ends inside (`AddressInside`), at the
  scope itself if it does not pass "." (`AddressIsOwn`). *The check*:
  `CleanCheck`, for any plan, inventory and paging. While others leave the
  subscription alone what was found is there, and each collection that is off
  the list of pending reads was found in full (`FoundInv`, `CoverInv`), so from
  the comparison on the report speaks of the subscription itself (`StillInv`).
  *Regions*: `ChoiceRight`; a region that is left when a gate was passed has
  what the gates so far ask for (`GateInv`), its total is the sum over the basket
  (`TotalInv`), and keys are compared position by position, so the first of the
  ranking has no higher total than the rest (`PrecedesIsAnOrder`,
  `WinnerIsCheapest`). *Prices*: `PageDeadline`; a request lasts no longer than
  what remains or a second, and a pause ends with the deadline. `VerdictRight`,
  for any catalogue, estimate, paging and earlier runs, has three parts. The
  arithmetic: the listing has the tiers in order (`ListingIsSorted`), one unit
  more adds the price of the last tier that begins below it (`OneMore`), so what
  is added up tier by tier is what is counted unit by unit (`MarginalIsCounted`,
  `CostIsCountedOut`). The pages: what was read is the first rows of what is
  published (`PageMore`), and the last page completes them (`PagesEnd`). The run:
  while nothing is repriced a live run remembers only what is published, and has
  spent on each line before the one it is at what that line owes, once, and on no
  other (`PricingInv`), so when it is done its total is the bill (`DoneIsDue`).

Folds over sets are not defined by recursion but as the value some choice
function leads to, and the theorems for induction take an operator, which the
provers cannot instantiate. `GateProofs` does without: a finite set is well
founded under inclusion, so if some subset had no such value there would be a
least one (`LeastSet`), which one more element would reach (`FoldExists`), and
two values of one set agree (`OneFold`). From these come the laws of sums that
the totals need: some member can be taken out (`SumOfSet`), then any
(`SumWithout`), terms that are nothing can be left out (`SumOfPart`), and a sum
changes by as much as one term (`SumChanged`). The same argument lists a set of
rows by floor and counts up to a quantity (`ListingIsSorted`,
`MarginalIsCounted`), where induction would be the habit.

What the proofs showed of the models: the addresses of `BoundaryPlan` once took
a scope's segments from right to left, which no plan of the run could tell; and
two scopes that differ as texts may address one thing if a segment is ".", which
`check_plan` does not notice (`boundary.py:602`) and `SoundPlanIsRemovable`
therefore leaves out.

**Only model-checked.** Every invariant and every step property that a passing run
checks is a theorem. What is left are the properties that something ends, which are
liveness under fairness and out of the prover's reach.

## Findings

Each is a run that violates one property, which is what a document or a comment
says.

* **`release_foreign_route`**. The demo guide says a rollback "refuses to
  overwrite a route changed by another operator". The code compares version
  numbers, and the receipt is written before the patch: the receipt of a
  promotion that died before its patch rolls back the same version routed by
  somebody else.
* **`experiment_relabel`**. A resumed experiment compares the deployments before
  it waits for the runs and never again, so a judge redeployed during the wait
  grades a summary that names the old one. The original compares twice.
* **`rollout_switch`**. Each release's job deployment sets the traffic switch
  back to its default, though the document says promotion keeps it.
* **`concierge_shared_dev`**. Two package runs share DEV between import and
  export: one exports the other's source under its own commit.
* **`concierge_acceptance`**. The acceptance suite is put to whatever TEST has
  published; nothing ties that to the package that is re-issued.

What the models reach and no property covers: a store without a digest
(`ExpectsDigest = FALSE`, which the packaged runtime never is) that looks while
another call builds opens a database with tables and no rows; governance may
drift between the preflight and the patch (nothing reads it again); a deployment
that dies after the identity and before the app makes every later run of the
Travel workflow refuse until somebody removes it; a catalogue that is repriced
between two pages, or has more than twenty, is priced from the rows that were
read, so `VerdictIsTodays` speaks of runs nothing was repriced under and
`CatalogueAssumption` of the pages; and
resource types whose locations cannot be read eliminate regions that may have
them (`regions.py:224-245` says so), which `QualifiedIsTrue` allows for.

## What is not modelled, and why

Text is not: prompts, answers, PII patterns, rendering. The golden evaluation and
the live preflights that `Release` and `Concierge` make are their verdicts
there; `GoldenEvaluation` and `Boundary` are modules of their own. The Azure,
Foundry, GitHub and Power Platform services are modelled from how the code uses
them and marked external in the map. Templates are declarative; what deploying
`infra/travel.bicep` changes is in `Rollout`.

Partly modelled: the toolbox without the loading of its contracts, the choice of
a policy row and the resolution of location names; the Field agent without
the framework call that answers.

Not modelled: the Gateway and control plane checks (`gateway.py`,
`control_plane.py`) compare one snapshot with a checked-in one, field by field
and without state, and a model would restate each comparison; data generation is
seeded and sequential, and checks of its output are predicates on tables; the
scanners match strings; the remaining workflows start a command and keep nothing;
`discovery.py` and the command line read and print.

Nor do the models follow some paths that end in an error or add dimensions of
data: `DataStore` is of a store whose path is the one the build writes, as every
caller has it (`tools.py:67-68` refuses another); the arguments' types, choices
and ranges and the results of `Toolbox` are as its contracts say
(`toolbox/tools.py:53-107`), the lines of an order and the notes of a case are
read with the lookup they belong to, and a booking's policy exists; the revision
and start time that `Registration` also asks for are parts of the run; the zones
that `Traffic` names exist; and the models and quotas `Regions` asks for are one
list. The run `concierge` has one commit, so what it shows is not about naming
the wrong one; `concierge_serial` has two. No scope that `config/boundary.yaml`
queries has a wildcard, so the reads of `Boundary` do not depend on what was
found (`boundary.py:159-178`).

Simplifications a reader should know: money in `Prices` is counted in parts that
every unit of measure divides, and all pauses share one cap (`MaxPause`);
distances in `Regions` are numbers and a blocked geography is one that is not
allowed; the tables `Regions` reads do not change during a run.

## Plan

1. A refinement of `Toolbox` to a view of the spine that contains only rows of
   the scope, step by step.
2. The support agent's workflow, after the pattern of `Rollout`.
