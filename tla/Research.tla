------------------------------ MODULE Research ------------------------------
(***************************************************************************)
(* The Research agent: a server answers concurrent requests with a graph   *)
(* of planner, retrieval and synthesis (hosted.py, workflow.py), in the    *)
(* scope its deployment fixed; the evaluation (evaluate.py) invokes the    *)
(* same graph, scenario by scenario, with users of its allow-list.         *)
(***************************************************************************)
EXTENDS Naturals, Sequences

CONSTANTS
    Requests,     \* bound: the requests or scenarios
    Conversations,\* bound: what they may say, sequences of [human, text, question]
    Users,        \* bound: the platform's user keys; Missing is none of them
    Routes,       \* the caller routes clients may write into a request
    Canonical,    \* CANONICAL_PERSONA_ROUTES, and the keys of PERSONA_ROUTES
    Allowed,      \* Allowed[user]: EVALUATION_USER_ROUTES
    Configured,   \* bound: caller routes of deployments and evaluations
    Visible,      \* Visible[route][tool]: the rows a persona sees, or Denied
    Denied,       \* the tool raises
    Expected,     \* Expected[question]: the tools and rows a scenario expects
    Missing       \* no user, no question

VARIABLES
    server,   \* [mode, checks, route, state]: what is run, and how far it came
    at,       \* where each request is
    body,     \* what the client sent: [messages, route, user]
    context,  \* the graph's caller_route and call_id of each request
    plan,     \* the steps planned
    evidence, \* the evidence collected: [tool, rows]
    session,  \* each request's session, an index into sessions
    sessions, \* the Toolboxes opened: [persona, audit, open]
    sent      \* what the model was sent: [call, evidence] of each request

serving == <<server, at, body, context, plan, evidence, session, sessions, sent>>

Checks == {"name", "hosted_version", "version", "data_lock", "contracts"}

ResearchInit ==
    /\ server \in [mode : {"hosted", "evaluation"}, route : Configured, state : {"starting"},
                   checks : {Checks} \cup {Checks \ {c} : c \in Checks}]
    /\ at = [r \in Requests |-> "new"]
    /\ body = [r \in Requests |-> Missing] /\ context = [r \in Requests |-> Missing]
    /\ plan = [r \in Requests |-> <<>>] /\ evidence = [r \in Requests |-> <<>>]
    /\ session = [r \in Requests |-> 0] /\ sessions = <<>>
    /\ sent = [r \in Requests |-> Missing]

-----------------------------------------------------------------------------
(* The planner: an id decides before any topic, the topics in this order. *)

Step(tool, filter) == [tool |-> tool, filter |-> filter]

Plan(question) ==
    LET topics == question.topics
        customer == question.ids \cap {"customer"}
    IN  CASE "invoice" \in question.ids -> <<Step("orders_lookup_invoice", {"invoice"})>>
          [] "invoice" \notin question.ids /\ "order" \in question.ids ->
                <<Step("orders_lookup_order", {"order"})>>
          [] question.ids \cap {"invoice", "order"} = {} /\ "product" \in question.ids ->
                <<Step("catalog_lookup_product", {"product"}), Step("catalog_check_stock", {"product"})>>
          [] OTHER ->
                IF "overdue" \in topics THEN <<Step("orders_search_invoices", customer \cup {"overdue"})>>
                ELSE IF "invoice" \in topics
                THEN [i \in 1 .. 3 |-> Step("orders_search_invoices",
                                            customer \cup {<<"issued", "part_paid", "overdue">>[i]})]
                ELSE IF "stock" \in topics THEN <<Step("catalog_check_stock", {})>>
                ELSE IF "product" \in topics THEN <<Step("catalog_search_products", {"current"})>>
                ELSE IF "order" \in topics THEN <<Step("orders_search_orders", customer)>>
                ELSE IF "customer" \in topics THEN <<Step("customer_search", customer)>>
                ELSE <<>>

\* The newest message of a human that is text.
QuestionOf(messages) ==
    LET said == {i \in DOMAIN messages : messages[i].human /\ messages[i].text}
    IN  IF said = {} THEN Missing
        ELSE messages[CHOOSE i \in said : \A j \in said : j <= i].question

-----------------------------------------------------------------------------
(* Starting *)

\* Version and data are checked before the contracts; the hosted server checks the
\* route it runs as first, the evaluation its document.
StartServer ==
    /\ server.state = "starting"
    /\ server' = [server EXCEPT !.state = IF server.checks = Checks THEN "serving" ELSE "refused"]
    /\ UNCHANGED <<at, body, context, plan, evidence, session, sessions, sent>>

-----------------------------------------------------------------------------
(* Requests *)

Moves(r, from, to) == at[r] = from /\ at' = [at EXCEPT ![r] = to]

\* A scenario is invoked when the one before has passed.
Turned(r) ==
    server.mode = "evaluation" => \A q \in Requests \ {r} : at[q] \in {"new", "passed"}

\* resolve_trusted_request and resolve_fixed_request.
Resolve(user) ==
    IF user = Missing THEN Missing
    ELSE IF server.mode = "evaluation"
    THEN IF user \in DOMAIN Allowed /\ Allowed[user] = server.route THEN server.route ELSE Missing
    ELSE IF server.route \in Canonical THEN server.route ELSE Missing

\* The trusted keys replace what the client sent under them.
BuildInput(route, user, call) == IF call THEN Resolve(user) ELSE Missing

\* The evaluation asks one question, and writes no route.
Receive(r, messages, route, user, call) ==
    /\ server.state = "serving" /\ Turned(r) /\ at[r] = "new"
    /\ server.mode = "evaluation" => Len(messages) = 1 /\ route = Missing /\ call
    /\ body' = [body EXCEPT ![r] = [messages |-> messages, route |-> route, user |-> user]]
    /\ LET trusted == BuildInput(route, user, call) IN
       /\ context' = [context EXCEPT ![r] = trusted]
       /\ at' = [at EXCEPT ![r] = IF trusted = Missing THEN "failed" ELSE "received"]
    /\ UNCHANGED <<server, plan, evidence, session, sessions, sent>>

\* An empty question, or one outside the domains, fails the request.
Planner(r) ==
    LET question == QuestionOf(body[r].messages)
        steps == IF question = Missing THEN <<>> ELSE Plan(question)
    IN  /\ at[r] = "received"
        /\ at' = [at EXCEPT ![r] = IF steps = <<>> THEN "failed" ELSE "planned"]
        /\ plan' = [plan EXCEPT ![r] = steps]
        /\ UNCHANGED <<server, body, context, evidence, session, sessions, sent>>

\* Mutant of OpenToolbox: a Toolbox that is open is used again.
OpenToolboxShared(r) ==
    /\ Moves(r, "planned", "retrieving")
    /\ IF sessions # <<>> /\ sessions[Len(sessions)].open
       THEN session' = [session EXCEPT ![r] = Len(sessions)] /\ UNCHANGED sessions
       ELSE /\ sessions' = Append(sessions, [persona |-> context[r], audit |-> <<>>, open |-> TRUE])
            /\ session' = [session EXCEPT ![r] = Len(sessions) + 1]
    /\ UNCHANGED <<server, body, context, plan, evidence, sent>>

\* open_toolbox: a connection and a Toolbox of the request's persona; the routes it
\* has an identity for are the canonical ones.
OpenToolbox(r) ==
    /\ Moves(r, "planned", "retrieving")
    /\ context[r] \in Canonical
    /\ sessions' = Append(sessions, [persona |-> context[r], audit |-> <<>>, open |-> TRUE])
    /\ session' = [session EXCEPT ![r] = Len(sessions')]
    /\ UNCHANGED <<server, body, context, plan, evidence, sent>>

\* A route without an identity, or a database that does not open, fails the request.
OpenToolboxFails(r) ==
    /\ Moves(r, "planned", "failed")
    /\ UNCHANGED <<server, body, context, plan, evidence, session, sessions, sent>>

\* One step of the plan; an exception of the tool closes the session, too.
CallTool(r) ==
    LET s == session[r]
        i == Len(evidence[r]) + 1
        rows == Visible[sessions[s].persona][plan[r][i].tool]
        call == [tool |-> plan[r][i].tool, rows |-> rows]
        audited == [sessions EXCEPT ![s].audit = Append(@, call)]
    IN  IF rows = Denied
        THEN /\ sessions' = [audited EXCEPT ![s].open = FALSE]
             /\ at' = [at EXCEPT ![r] = "failed"] /\ UNCHANGED evidence
        ELSE /\ sessions' = audited
             /\ evidence' = [evidence EXCEPT ![r] = Append(@, call)] /\ UNCHANGED at

Retrieve(r) ==
    /\ at[r] = "retrieving" /\ Len(evidence[r]) < Len(plan[r])
    /\ CallTool(r)
    /\ UNCHANGED <<server, body, context, plan, session, sent>>

\* The audit is read, then the connection is closed.
CloseToolbox(r) ==
    /\ Len(evidence[r]) = Len(plan[r]) /\ Moves(r, "retrieving", "retrieved")
    /\ sessions' = [sessions EXCEPT ![session[r]].open = FALSE]
    /\ UNCHANGED <<server, body, context, plan, evidence, session, sent>>

\* The model is sent the evidence under the request's call id, and may fail or answer
\* nothing; the evaluation's synthesis does not.
Synthesize(r) ==
    /\ at[r] = "retrieved"
    /\ IF server.mode = "hosted"
       THEN /\ sent' = [sent EXCEPT ![r] = [call |-> r, evidence |-> evidence[r]]]
            /\ \E end \in {"answered", "failed"} : at' = [at EXCEPT ![r] = end]
       ELSE at' = [at EXCEPT ![r] = "answered"] /\ UNCHANGED sent
    /\ UNCHANGED <<server, body, context, plan, evidence, session, sessions>>

\* A scenario passes with the tools and the numbers of rows it expects.
Score(r) ==
    LET expected == Expected[QuestionOf(body[r].messages)]
    IN  /\ server.mode = "evaluation" /\ at[r] = "answered"
        /\ at' = [at EXCEPT ![r] = IF evidence[r] = expected THEN "passed" ELSE "failed"]
        /\ UNCHANGED <<server, body, context, plan, evidence, session, sessions, sent>>

Handle(r) ==
    \/ Planner(r) \/ OpenToolbox(r) \/ OpenToolboxFails(r) \/ Retrieve(r) \/ CloseToolbox(r)
    \/ Synthesize(r) \/ Score(r)

ResearchNext ==
    \/ StartServer
    \/ \E r \in Requests :
          \/ \E messages \in Conversations, route \in Routes \cup {Missing},
                user \in Users \cup {Missing}, call \in BOOLEAN : Receive(r, messages, route, user, call)
          \/ Handle(r)

\* The nodes of a graph that was invoked are run.
ResearchSpec == ResearchInit /\ [][ResearchNext]_serving /\ \A r \in Requests : WF_serving(Handle(r))

-----------------------------------------------------------------------------
(* "Bind platform identity to graph state before any research node runs"   *)
(* (hosted.py:26): an answer rests on what the deployment's persona sees,  *)
(* whatever route the client wrote and whoever else is being answered, and *)
(* on the plan of the question asked.                                      *)
AnswerInScope ==
    \A r \in Requests : at[r] \in {"answered", "passed"} =>
        /\ plan[r] = Plan(QuestionOf(body[r].messages))
        /\ evidence[r] = [i \in DOMAIN plan[r] |->
              [tool |-> plan[r][i].tool, rows |-> Visible[server.route][plan[r][i].tool]]]

(* "one immutable Toolbox per invocation" (workflow.py:77): the audit a    *)
(* request returns is of its own calls, one entry for each of its plan.    *)
AuditIsOwn ==
    \A r \in Requests : at[r] \in {"retrieved", "answered", "passed"} =>
        sessions[session[r]].audit = evidence[r]

(* A connection is open only while its request retrieves: none is left     *)
(* behind by a tool that raises.                                           *)
SessionsClosed ==
    \A s \in DOMAIN sessions : sessions[s].open =>
        \E r \in Requests : session[r] = s /\ at[r] = "retrieving"

(* An answer, its audit and its connection are of one request and its      *)
(* persona, whoever else is being answered.                                *)
ResearchIsOwn == AnswerInScope /\ AuditIsOwn /\ SessionsClosed

(* Each request that is received ends, and with it its session.            *)
RequestsEnd ==
    \A r \in Requests : (at[r] = "received") ~> (at[r] \in {"answered", "passed", "failed"})
=============================================================================
