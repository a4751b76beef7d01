------------------------------ MODULE MCAgents ------------------------------
(***************************************************************************)
(* Small instances of what surrounds an answer: the turns of the Travel    *)
(* agent, its callback loop, traffic, golden evaluation, versions and the  *)
(* output items of its experiments, the Research server, and the Support   *)
(* agent with the verification of its route.  They share no state, so a    *)
(* behaviour is about one of them (subject) and leaves the others at rest. *)
(***************************************************************************)
EXTENDS OutputItems, Turn, ToolLoop, Traffic, GoldenEvaluation, AgentVersion, Research, Support,
        SupportRoute, Integers, TLC

CONSTANTS r1, r2, c1, c2, flight, hotel, correct

VARIABLE subject

others == <<turns, looping, golden, creating>>
agentVars == <<subject, vars, others, job, serving, support, route>>

-----------------------------------------------------------------------------
(* Travel *)

\* "both" ends with the names of two tools, "none" with no tool's.
NameMeans == [n \in {"fares", "both", "none"} |->
                 CASE n = "fares" -> {"fares"} [] n = "both" -> {"fares", "x"} [] n = "none" -> {}]

\* The federal holidays as traffic.yaml has them; New Year's Day of 2022 is a Saturday.
Fixed(id, m, d) ==
    [id |-> id, month |-> m, day |-> d, weekday |-> NoDay, nth |-> NoDay, observe |-> TRUE]
Moving(id, m, w, n) ==
    [id |-> id, month |-> m, day |-> NoDay, weekday |-> w, nth |-> n, observe |-> FALSE]
Holidays ==
    << Fixed(1, 1, 1), Moving(2, 1, 0, 3), Moving(3, 2, 0, 3), Moving(4, 5, 0, Last),
       Fixed(5, 6, 19), Fixed(6, 7, 4), Moving(7, 9, 0, 1), Moving(8, 10, 0, 2),
       Fixed(9, 11, 11), Moving(10, 11, 3, 4), Fixed(11, 12, 25) >>
QuietSlots == {<<10, 0>>, <<14, 0>>}
TrafficYaml == [maximum |-> 4, travel |-> 2, quarters |-> {0, 30}, opens |-> 8, closes |-> 18,
                rules |-> Holidays, weekend |-> QuietSlots, holiday |-> QuietSlots,
                personas |-> {"consultant", "planner"}, scenarios |-> {"planner"}]
PlansRead ==
    {TrafficYaml, [TrafficYaml EXCEPT !.quarters = {0, 15, 30}],
     [TrafficYaml EXCEPT !.scenarios = {"planner", "engineer"}]}
FederalHolidays == 1 .. 11
ScheduledAt == {<<10, 0>>, <<17, 30>>, <<18, 0>>}

SearchFrom(a) == [name |-> "search", arguments |-> a]
Policy == [name |-> "policy", arguments |-> <<>>]
GoldenRows ==
    << [include |-> {"route"}, exclude |-> {"booked"}, expected |-> <<SearchFrom("from" :> "A")>>],
       [include |-> {"policy"}, exclude |-> {}, expected |-> <<Policy>>] >>
GoldenReplies ==
    [says : {{"route"}, {"route", "booked"}, {"policy", "route"}},
     calls : {<<>>, <<Policy>>, <<SearchFrom("from" :> "B")>>,
              <<SearchFrom("from" :> "A" @@ "to" :> "B")>>, <<SearchFrom("from" :> "A"), Policy>>}]

AgentYaml == [name |-> "travel", major |-> 1, instructions |-> "first", model |-> "model",
              pinned |-> TRUE, transport |-> "openapi_project_connection", connection |-> 1,
              operations |-> <<"fares", "routes">>]
AgentYamls ==
    {AgentYaml, [AgentYaml EXCEPT !.instructions = "second"], [AgentYaml EXCEPT !.connection = 2],
     [AgentYaml EXCEPT !.operations = <<"fares", "fares">>], [AgentYaml EXCEPT !.pinned = FALSE]}

-----------------------------------------------------------------------------
(* Research *)

Says(ids, topics) ==
    [human |-> TRUE, text |-> TRUE, question |-> [ids |-> ids, topics |-> topics]]
Shows == [human |-> TRUE, text |-> FALSE, question |-> Missing]
Product == Says({"product"}, {"stock"})
Overdue == Says({"customer"}, {"overdue", "order"})
Weather == Says({}, {})
Asked == {<<Overdue>>, <<Overdue, Product>>, <<Product>>, <<Product, Shows>>, <<Weather>>}
ResearchTools == {"orders_search_invoices", "catalog_lookup_product", "catalog_check_stock"}
Row(tool, rows) == [tool |-> tool, rows |-> rows]
UserRoutes == "user" :> "planner"
SeenBy == "planner" :> [t \in ResearchTools |-> 1]
          @@ "lead" :> [t \in ResearchTools |-> IF t = "catalog_check_stock" THEN Denied ELSE 2]
Wanted == Product.question :> <<Row("catalog_lookup_product", 1), Row("catalog_check_stock", 1)>>
          @@ Overdue.question :> <<Row("orders_search_invoices", 2)>>

-----------------------------------------------------------------------------
(* Support *)

RegionOfCase == "west" :> "amer" @@ "east" :> "emea"
RegionsOf == "oid-lead" :> {"amer"} @@ "oid-travel" :> {"emea"}
OidOf == "lead" :> "oid-lead" @@ "travel" :> "oid-travel" @@ "gone" :> "oid-gone"
Expect(u, c, e) == [user |-> u, case |-> c, expect |-> e]
SupportScenarios ==
    <<Expect("lead", "west", "row"), Expect("lead", "east", "null"),
      Expect(NoOne, "west", "error"), Expect("gone", "east", "error"),
      Expect("travel", "west", "null"), Expect("travel", "east", "null")>>

-----------------------------------------------------------------------------
(* One subject at a time; those with many initial states rest in one. *)

ItemsRest ==
    /\ submitted = {} /\ truth = <<>> /\ counts = [total |-> 0, passed |-> 0, failed |-> 0, errored |-> 0]
    /\ items = <<>> /\ pages = 0 /\ stage = "reading" /\ result = <<>>
TrafficRests ==
    /\ document = TrafficYaml /\ day = [y |-> 2021, m |-> 1, d |-> 1] /\ clock = <<0, 0>>
    /\ switches = [enabled |-> FALSE, force |-> FALSE]
    /\ phase = "rests" /\ attempts = 0 /\ talks = {} /\ traced = {}
RouteRests ==
    /\ status = <<>> /\ speaks = <<>> /\ rules = <<>> /\ publishes = FALSE /\ changes = 0
    /\ reading = "rests" /\ stepping = "rests" /\ wasRouted = FALSE /\ wasActive = FALSE

AgentsInit ==
    /\ subject \in {"items", "turn", "loop", "traffic", "golden", "version", "research", "support", "route"}
    /\ IF subject = "items" THEN Init ELSE ItemsRest
    /\ TurnInit /\ LoopInit /\ GoldenInit
    /\ IF subject = "traffic" THEN TrafficInit ELSE TrafficRests
    /\ VersionInit /\ (subject # "version" => target = "https")
    /\ ResearchInit
    /\ subject # "research" => server.mode = "hosted" /\ server.route = "lead" /\ server.checks = Checks
    /\ SupportInit
    /\ subject # "support" => hosting = "hosted" /\ binding = "oid-lead" /\ intact
    /\ IF subject = "route" THEN SupportRouteInit ELSE RouteRests

Looping == subject = "loop" /\ Work
Grading == subject = "golden" /\ Evaluate
Handling(r) == subject = "research" /\ Handle(r)

AgentNext ==
    \/ subject = "turn" /\ TurnNext
       /\ UNCHANGED <<looping, job, golden, creating, serving, support, route>>
    \/ subject = "loop" /\ LoopNext
       /\ UNCHANGED <<turns, job, golden, creating, serving, support, route>>
    \/ subject = "traffic" /\ TrafficNext
       /\ UNCHANGED <<others, serving, support, route>>
    \/ subject = "golden" /\ GoldenNext
       /\ UNCHANGED <<turns, looping, job, creating, serving, support, route>>
    \/ subject = "version" /\ VersionNext
       /\ UNCHANGED <<turns, looping, golden, job, serving, support, route>>
    \/ subject = "research" /\ ResearchNext
       /\ UNCHANGED <<others, job, support, route>>
    \/ subject = "support" /\ SupportNext
       /\ UNCHANGED <<others, job, serving, route>>
    \/ subject = "route" /\ SupportRouteNext
       /\ UNCHANGED <<others, job, serving, support>>

AgentsNext ==
    /\ UNCHANGED subject
    /\ \/ subject = "items" /\ Next
          /\ UNCHANGED <<others, job, serving, support, route>>
       \/ subject # "items" /\ AgentNext /\ UNCHANGED vars

AgentsSpec ==
    /\ AgentsInit /\ [][AgentsNext]_agentVars
    /\ WF_looping(Looping) /\ WF_golden(Grading) /\ \A r \in {r1, r2} : WF_serving(Handling(r))

-----------------------------------------------------------------------------
(* A turn, an evaluation and a request end, whatever the model asks for    *)
(* and however long the platform's run takes.                              *)
EveryRequestEnds ==
    /\ TurnEnds
    /\ subject = "golden" => EvaluationEnds
    /\ RequestsEnd
=============================================================================
