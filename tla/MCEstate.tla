------------------------------ MODULE MCEstate ------------------------------
(***************************************************************************)
(* Small instances of what surrounds the agents: the first build of the    *)
(* data store, the Field and the Gateway rehearsal, the registration, the  *)
(* plan of the boundary and its live check, the price gate, the choice of  *)
(* a region, and the toolbox.  They share no state, so a behaviour is      *)
(* about one of them (subject) and leaves the others at rest.              *)
(***************************************************************************)
EXTENDS DataStore, Rehearsal, Registration, GatewayRehearsal, Boundary, BoundaryPlan, Prices, Regions,
        Toolbox, Integers, Sequences, TLC

CONSTANTS c1, c2, c3, r1, r2, q1, q2, b1, b2

VARIABLE subject

field == <<rehearsal, registration, gatewayRun>>
gates == <<boundary, planning, prices, choosing>>
estateVars == <<subject, vars, field, gates, toolbox>>

-----------------------------------------------------------------------------
(* Field and Gateway *)

\* Two presenters at once; or one, with faults and a resumption.
TwoOrFaults ==
    {[crew |-> {r1, r2}, faults |-> 0, resumes |-> 0],
     [crew |-> {r1}, faults |-> 2, resumes |-> 1]}

\* The agent's spans of two operations, only the second with enrichment, and the
\* spans that tie them to the smoke runs "a" and "b".
ArrivingSpans ==
    {[operation |-> 1, smoke |-> "a", agent |-> FALSE, id |-> Unset],
     [operation |-> 2, smoke |-> "a", agent |-> FALSE, id |-> Unset],
     [operation |-> 2, smoke |-> "b", agent |-> FALSE, id |-> Unset],
     [operation |-> 1, smoke |-> Unset, agent |-> TRUE, id |-> AgentId],
     [operation |-> 1, smoke |-> Unset, agent |-> TRUE, id |-> Unset],
     [operation |-> 2, smoke |-> Unset, agent |-> TRUE, id |-> Unset]}
RunOfEach == [q \in {q1, q2} |-> IF q = q1 THEN "a" ELSE "b"]
SecondEnriched == <<Unset, AgentId>>

-----------------------------------------------------------------------------
(* Boundary *)

\* An account, the identity of its agent, and two deployments of the optional module.
Entry(n, ms, mod, req, e, m) ==
    [name |-> n, matches |-> ms, module |-> mod, required |-> req, expected |-> e, most |-> m]
DeclaredEntries ==
    {Entry("account", {"account"}, "core", TRUE, 1, 1),
     Entry("agent", {"agent"}, "core", FALSE, 1, 1),
     Entry("deploy", {"d1", "d2"}, "optional", TRUE, 2, 2)}
AssignedRoles ==
    {[principal |-> "agent", role |-> "user", matches |-> {"account"}, module |-> "core", required |-> FALSE],
     [principal |-> "operator", role |-> "reader", matches |-> {"."}, module |-> "core", required |-> TRUE]}
RoleOf(p, r, s) == [principal |-> p, role |-> r, scope |-> s]
OperatorsOwn == RoleOf("po", "reader", ".")
AgentsOwn == RoleOf("pa", "user", "account")
Asking(static, alive, existing, modules, readiness, supplied) ==
    [static |-> static, live |-> alive, existing |-> existing, modules |-> modules,
     readiness |-> readiness, supplied |-> supplied]
Operator == {"operator"}
ChecksAsked ==
    {Asking(TRUE, TRUE, TRUE, {"optional"}, FALSE, Operator),
     Asking(TRUE, TRUE, TRUE, {}, TRUE, Operator),
     Asking(FALSE, TRUE, TRUE, {}, FALSE, {}),
     Asking(TRUE, TRUE, FALSE, {}, FALSE, Operator),
     Asking(TRUE, FALSE, FALSE, {}, FALSE, Operator)}
AllThere == {"account", "agent", "d1", "d2"}
\* Where the optional module is not enabled, its deployments are nobody's.
Inventories == {AllThere, {"account"}}
GrantsAtFirst == {{OperatorsOwn, AgentsOwn}, {AgentsOwn}}
PrincipalOf == [s \in AllThere |-> IF s = "agent" THEN "pa" ELSE NoPrincipal]
ShownIn == [s \in AllThere |-> IF s = "agent" THEN "detail" ELSE "list"]
Collections == "deployments" :> {"d1", "d2"} @@ "agents" :> {"agent"} @@ "account" :> {"account"}
OperatorOnly == {[name |-> "operator", module |-> "core", required |-> TRUE]}
OwnerOf == "operator" :> "po"
ReadsOfOne == {"account"}
GrantsOfOthers == {AgentsOwn, RoleOf("pa", "user", "above"), RoleOf("px", "owner", ".")}

\* One entry of any kind and scope, beside the workspace and a removal or none.
PlanEntry(section, name, module, path, absolute) ==
    [section |-> section, name |-> name, module |-> module, scope |-> path, absolute |-> absolute,
     reuse |-> FALSE, role |-> "reader", workspace |-> "logs", group |-> FALSE]
Workspace == PlanEntry("resources", "logs", "core", <<"logs">>, FALSE)
Removals ==
    {{}, {PlanEntry("teardown", "logs", "core", <<"logs">>, FALSE)},
     {[PlanEntry("teardown", "g", "core", <<".">>, FALSE) EXCEPT !.group = TRUE]}}
Paths ==
    {<<>>, <<".">>, <<"a">>, <<"a", "b">>, <<"..", "x">>, <<"a", "..", "..", "..">>,
     <<"a..b">>, <<"xresourcegroup", "x">>, <<"subscriptions", "x">>, <<"subscription">>,
     <<"providers", "microsoft.management">>, <<"subscriptions", "ours", "resourcegroups", "here">>}
OddEntries ==
    {PlanEntry(s, "x", m, p, a) : s \in {"resources", "role_assignments", "diagnostic_settings"},
                                  m \in {"core", "typo"}, p \in Paths, a \in BOOLEAN}
    \cup {[PlanEntry("resources", "x", "core", <<"x">>, FALSE) EXCEPT !.reuse = TRUE],
          [PlanEntry("role_assignments", "x", "core", <<"x">>, FALSE) EXCEPT !.role = None],
          [PlanEntry("diagnostic_settings", "x", "core", <<"x">>, FALSE) EXCEPT !.workspace = "shared"],
          PlanEntry("resources", "y", "core", <<"logs">>, FALSE),
          PlanEntry("resources", "y", "core", <<".", "logs">>, FALSE)}
PlanOf(defaulted, matches, entries, variable, teardown) ==
    [modules |-> {"core"}, defaulted |-> defaulted, matches |-> matches, entries |-> {Workspace} \cup entries,
     principals |-> {[module |-> "core", variable |-> variable]}, teardown |-> teardown]
PlansDrawn ==
    {PlanOf(FALSE, TRUE, {}, "V", FALSE)} \cup
    {PlanOf(TRUE, m, {x} \cup d, v, t) :
          x \in OddEntries, d \in Removals, m \in BOOLEAN, t \in BOOLEAN, v \in {"V", None}}
\* Removals are listed only where the plan declares a teardown at all.
PlansChecked == {p \in PlansDrawn : p.teardown \/ \A e \in p.entries : e.section # "teardown"}

-----------------------------------------------------------------------------
(* Prices and regions *)

Meter(meter, named, date, min, price, unit) ==
    [meter |-> meter, named |-> named, term |-> FALSE, date |-> date, min |-> min, price |-> price, unit |-> unit]
Disk == Meter("m2", TRUE, 1, 0, 3, 1)
\* An old row beside two tiers of today; another date, with a reservation; two meters that
\* both match the name, and nothing of the disk.
CatalogueBefore ==
    "calls" :> <<Meter("m1", TRUE, 1, 0, 10, 1), Meter("m1", TRUE, 2, 1, 6, 10), Meter("m1", TRUE, 2, 0, 20, 10)>>
    @@ "disk" :> <<Disk>>
CatalogueAfter ==
    "calls" :> <<Meter("m1", TRUE, 3, 0, 40, 10), Meter("m1", TRUE, 3, 1, 10, 10)>>
    @@ "disk" :> <<Disk, [Meter("m2", TRUE, 2, 0, 1, 1) EXCEPT !.term = TRUE]>>
CatalogueAmbiguous ==
    "calls" :> <<Meter("m1", TRUE, 3, 0, 40, 10), Meter("m9", TRUE, 3, 1, 10, 10), Meter("m9", FALSE, 3, 1, 10, 10)>>
    @@ "disk" :> <<>>
Line(module, billing, filter, quantity, published, reserve, unit) ==
    [module |-> module, billing |-> billing, filter |-> filter, quantity |-> quantity,
     published |-> published, reserve |-> reserve, unit |-> unit, term |-> FALSE]
Estimate(lines) ==
    [currency |-> "USD", budget |-> 40, modules |-> {"core", "optional"}, default |-> {"core"}, lines |-> lines]
SoundEstimate ==
    Estimate(<<Line("core", "azure", "calls", 25, TRUE, None, 10),
               Line("optional", "azure", "disk", 3, TRUE, None, None),
               Line("core", "external", "x", 9, TRUE, None, None),
               Line("core", "azure", "x", 1, FALSE, 2, None)>>)
LooseEstimate ==
    Estimate(<<Line("core", "azure", "disk", 3, TRUE, None, 1), Line("core", "azure", "x", 1, FALSE, None, None)>>)
Order(estimate, offline, extra, currency, budget) ==
    [estimate |-> estimate, offline |-> offline, extra |-> extra, currency |-> currency, budget |-> budget]
CataloguesShown == {CatalogueBefore, CatalogueAfter, CatalogueAmbiguous}
OrdersGiven ==
    {Order(SoundEstimate, FALSE, {}, "USD", None),
     Order(SoundEstimate, FALSE, {"optional"}, "USD", 50),
     Order(SoundEstimate, TRUE, {"optional"}, "USD", None),
     Order(LooseEstimate, FALSE, {}, "USD", None),
     Order(SoundEstimate, FALSE, {}, "EUR", None)}

About(physical, geography, paired, zones, km) ==
    [physical |-> physical, geography |-> geography, paired |-> paired, zones |-> zones, km |-> km]
NearOne == About(TRUE, "us", TRUE, 3, 2)
FarOne == About(TRUE, "us", TRUE, 3, 5)
Maps ==
    {<<FarOne, NearOne, NearOne>>, <<[FarOne EXCEPT !.physical = FALSE], NearOne, NearOne>>,
     <<[FarOne EXCEPT !.geography = "eu"], [NearOne EXCEPT !.paired = FALSE], [FarOne EXCEPT !.km = 9]>>}
PriceLists ==
    {<<"gpt" :> 3 @@ "vm" :> a, "gpt" :> 5 @@ "vm" :> b, "gpt" :> c @@ "vm" :> 4>> :
        a \in {4, Nil}, b \in {2, Nil}, c \in {4, Emptied}}
Needed(candidates, km, models, quota) ==
    [candidates |-> candidates, geographies |-> {"us"}, pair |-> TRUE, zones |-> 2, km |-> km,
     types |-> {"account"}, capabilities |-> {"agents"}, models |-> models, quota |-> quota,
     basket |-> {"gpt", "vm"}]
Clouds ==
    {[meta |-> m, offered |-> "account" :> {1, 2, 3} @@ "search" :> {1, 2},
      models |-> <<{"g"}, {"g"}, {"g", "h"}>>, headroom |-> <<10, 20, 20>>, price |-> p] :
         m \in Maps, p \in PriceLists}
Anywhere == Needed({}, Nil, {"h"}, 5)
Requirements == {Needed({}, 6, {"g"}, 10), Needed({1, 2}, 6, {"g"}, 15), Anywhere}
RegionNumbers == 1 .. 3
ModuleAdditions ==
    "opt" :> [types |-> {"search"}, capabilities |-> {"hosted"}]
    @@ "broken" :> [types |-> {}, capabilities |-> {"typo"}]
CapabilityMatrix ==
    "agents" :> [regions |-> 1 .. 3, excluded |-> {}, derived |-> Nil]
    @@ "hosted" :> [regions |-> {}, excluded |-> {1}, derived |-> "agents"]
ModulesAsked == {{}, {"opt"}, {"broken"}, {"unknown"}}

-----------------------------------------------------------------------------
(* Toolbox *)

Datum(table, region, parent, group_, internal) ==
    [table |-> table, region |-> region, parent |-> parent, group |-> group_, internal |-> internal]
Of(table, parent) == Datum(table, Absent, parent, "x", FALSE)
Employee(region, department) == Datum("employees", region, Absent, department, FALSE)
\* A customer in each region, with an order and its line, a case each, a note and an
\* internal one; four employees, bookings of two of them, a product and a policy.
Spine ==
    <<Datum("customers", "emea", Absent, "x", FALSE), Datum("customers", "apac", Absent, "x", FALSE),
      Of("orders", 1), Of("order_lines", 3), Of("support_cases", 1), Of("support_cases", 2),
      Of("case_notes", 5), Datum("case_notes", Absent, 5, "x", TRUE),
      Employee("emea", "sales"), Employee("emea", "it"), Employee("apac", "it"),
      Of("travel_bookings", 9), Of("travel_bookings", 10), Of("products", Absent),
      Datum("hr_policies", "GLOBAL", Absent, "x", FALSE), Employee("emea", "sales")>>
\* The manager column goes round.
Managers == 9 :> 10 @@ 10 :> 16 @@ 16 :> 9 @@ 11 :> 9
Identity(roles, its, employee) == [roles |-> roles, regions |-> its, employee |-> employee]
TravelPolicies ==
    [ordinary |-> [rank |-> 1, threshold |-> 100, notice |-> 7],
     exception |-> [rank |-> 3, threshold |-> 300, notice |-> 0]]
Fare(rank, price, seats) == [rank |-> rank, price |-> price, seats |-> seats]
Contract(kind, table, fields) == [kind |-> kind, table |-> table, roles |-> {"read"}, fields |-> fields]
Contracts ==
    "lookup_order" :> Contract("lookup", "orders", {"key"})
    @@ "lookup_case" :> Contract("lookup", "support_cases", {"key"})
    @@ "search" :> Contract("search", "employees", {"filter", "limit"})
    @@ "products" :> Contract("search", "products", {"limit"})
    @@ "policies" :> Contract("search", "hr_policies", {"limit"})
    @@ "count" :> Contract("count", "employees", {"filter"})
    @@ "aggregate" :> Contract("aggregate", "employees", {"filter"})
    @@ "chain" :> Contract("chain", "employees", {"key"})
    @@ "bookings" :> Contract("bookings", "travel_bookings", {"filter"})
    @@ "book" :> Contract("booking", "fares", {"key", "dates"})
    @@ "update" :> Contract("update", "support_cases", {"key", "changes"})
    @@ "admin" :> [Contract("none", "x", {}) EXCEPT !.roles = {"read", "admin"}]
Anything == [group |-> Absent, parent |-> Absent]
Plain(tool) ==
    [tool |-> tool, fields |-> {}, key |-> 0, filter |-> Anything, limit |-> 0, changes |-> <<>>,
     depart |-> 0, back |-> Absent]
ByKey(tool, key) == [Plain(tool) EXCEPT !.fields = {"key"}, !.key = key]
Some(tool, filter, limit) == [Plain(tool) EXCEPT !.filter = filter, !.limit = limit]
Trip(fare, depart, back) ==
    [Plain("book") EXCEPT !.fields = {"key", "dates"}, !.key = fare, !.depart = depart, !.back = back]
Update(case, change) ==
    [Plain("update") EXCEPT !.fields = {"key", "changes"}, !.key = case, !.changes = change]
It == [Anything EXCEPT !.group = "it"]
ToolRequests ==
    {ByKey("lookup_order", 3), ByKey("lookup_case", 5), ByKey("lookup_case", 6), ByKey("chain", 11), ByKey("chain", 9),
     Some("search", Anything, 2), Some("search", It, 9), Plain("products"), Some("policies", Anything, 1),
     Plain("count"), Plain("aggregate"), Some("aggregate", It, 0),
     Some("bookings", Anything, 5), Some("bookings", [Anything EXCEPT !.parent = 10], 5),
     Trip(1, 7, Absent), Trip(1, 7, 9), Trip(2, 6, Absent), Trip(3, 9, Absent), Trip(4, 9, Absent), Trip(1, -1, Absent),
     Update(5, "status" :> "closed"), Update(6, "status" :> "closed"), Update(5, "customer" :> 2), Update(5, <<>>),
     Plain("nope"), Plain("admin"), [Plain("search") EXCEPT !.fields = {"region"}]}
Principals ==
    {Identity({"read"}, {"emea"}, 9), Identity({"read"}, {}, 9), Absent,
     Identity({"read", "support.write", "travel.coordinate"}, {"emea", "apac"}, 10)}
CasesAtFirst == 5 :> [customer |-> 1, status |-> "open"] @@ 6 :> [customer |-> 2, status |-> "open"]
RouteFares == <<Fare(1, 60, 2), Fare(3, 90, 1), Fare(1, 100, 0), Fare(1, 1, 1)>>

-----------------------------------------------------------------------------
(* One subject at a time; those with many initial states rest in one. *)

EstateInit ==
    /\ subject \in {"store", "rehearsal", "registration", "gateway", "boundary", "plan", "prices",
                    "region", "toolbox"}
    /\ Init /\ (subject # "store" => file = "absent")
    /\ RehearsalInit /\ (subject # "rehearsal" => setbacks = 0)
    /\ RegistrationInit
    /\ GatewayInit
    /\ subject # "gateway" => fact["denied"] = fact["allowed"] /\ fact["denied"] = [status |-> 500, backend |-> NoBackend]
    /\ BoundaryInit
    /\ subject # "boundary" => group = "absent" /\ grants = {AgentsOwn} /\ ~ request.static
    /\ PlanInit /\ (subject # "plan" => plan = CHOOSE p \in PlansChecked : p.matches)
    /\ PricesInit
    /\ subject # "prices" => catalogue = CatalogueBefore /\ order.currency = "EUR"
    /\ RegionsInit
    /\ subject # "region" => world = (CHOOSE w \in Clouds : TRUE) /\ needs = Anywhere
    /\ ToolboxInit /\ (subject # "toolbox" => scope = [b \in {b1, b2} |-> Absent])

Calling(c) == subject = "store" /\ Step(c)
Presenting(r) == subject = "rehearsal" /\ GoOn(r)
BoundaryWorks == subject = "boundary" /\ CheckStep
Running == subject = "prices" /\ PricesStep

FieldNext ==
    \/ subject = "rehearsal" /\ RehearsalNext /\ UNCHANGED <<registration, gatewayRun>>
    \/ subject = "registration" /\ RegistrationNext /\ UNCHANGED <<rehearsal, gatewayRun>>
    \/ subject = "gateway" /\ GatewayNext /\ UNCHANGED <<rehearsal, registration>>

GatesNext ==
    \/ subject = "boundary" /\ BoundaryNext /\ UNCHANGED <<planning, prices, choosing>>
    \/ subject = "plan" /\ PlanNext /\ UNCHANGED <<boundary, prices, choosing>>
    \/ subject = "prices" /\ PricesNext /\ UNCHANGED <<boundary, planning, choosing>>
    \/ subject = "region" /\ RegionsNext /\ UNCHANGED <<boundary, planning, prices>>

EstateNext ==
    /\ UNCHANGED subject
    /\ \/ subject = "store" /\ Next /\ UNCHANGED <<field, gates, toolbox>>
       \/ FieldNext /\ UNCHANGED <<vars, gates, toolbox>>
       \/ GatesNext /\ UNCHANGED <<vars, field, toolbox>>
       \/ subject = "toolbox" /\ ToolboxNext /\ UNCHANGED <<vars, field, gates>>

EstateSpec ==
    /\ EstateInit /\ [][EstateNext]_estateVars
    /\ \A c \in Calls : WF_vars(Calling(c))
    /\ \A r \in {r1, r2} : WF_rehearsal(Presenting(r))
    /\ WF_boundary(BoundaryWorks) /\ WF_prices(Running)

-----------------------------------------------------------------------------
(* Every call of connect returns, a rehearsal gives its capacity back, and *)
(* every check and every pricing run ends.  The calls are interchangeable, *)
(* and one stands for all.                                                 *)
EverythingEnds ==
    /\ subject = "store" => CallEnds(c1)
    /\ subject = "rehearsal" => CapacityGivenBack
    /\ subject = "boundary" => CheckEnds
    /\ subject = "prices" => RunEnds
=============================================================================
