---------------------------- MODULE ServerProofs -----------------------------
(***************************************************************************)
(* What the Research and Support agents promise, for any number of         *)
(* requests, sessions, calls and scenarios.                                *)
(***************************************************************************)
EXTENDS Research, Support, SupportRoute, TLAPS

-----------------------------------------------------------------------------
(* Research.  A request owns the session it opened, and the evidence is    *)
(* that of the first steps of its plan, as the deployment's persona.       *)

ToolNames ==
    {"orders_lookup_invoice", "orders_lookup_order", "catalog_lookup_product", "catalog_check_stock",
     "orders_search_invoices", "catalog_search_products", "orders_search_orders", "customer_search"}
Filters ==
    {"invoice", "order", "product", "customer", "overdue", "issued", "part_paid", "current"}
Steps == [tool : ToolNames, filter : SUBSET Filters]

\* What a persona is shown when it calls a tool, as evidence and in an audit.
Shown(tool) == [tool |-> tool, rows |-> Visible[server.route][tool]]
Entries == {Shown(tool) : tool \in ToolNames}
Opened == [persona : {server.route}, audit : Seq(Entries), open : BOOLEAN]

Early == {"new", "received", "planned"}
Done == {"retrieved", "answered", "passed"}

ServerTypes ==
    /\ server \in [mode : {"hosted", "evaluation"}, route : Configured,
                   state : {"starting", "serving", "refused"},
                   checks : {Checks} \cup {Checks \ {c} : c \in Checks}]
    /\ at \in [Requests -> Early \cup Done \cup {"retrieving", "failed"}]
    /\ DOMAIN body = Requests /\ DOMAIN context = Requests
    /\ plan \in [Requests -> Seq(Steps)]
    /\ evidence \in [Requests -> Seq(Entries)]
    /\ session \in [Requests -> Nat]
    /\ sessions \in Seq(Opened)

(* A request carries the deployment's route, the plan of its question, and *)
(* evidence for the first steps of it.                                     *)
PlannedAs ==
    \A r \in Requests :
        /\ at[r] \notin {"new", "failed"} => context[r] = server.route
        /\ at[r] \in {"planned", "retrieving"} \cup Done =>
              plan[r] = Plan(QuestionOf(body[r].messages))
        /\ at[r] \in Early => evidence[r] = <<>>
        /\ at[r] \in {"retrieving"} \cup Done =>
              /\ Len(evidence[r]) <= Len(plan[r])
              /\ \A i \in DOMAIN evidence[r] : evidence[r][i] = Shown(plan[r][i].tool)
        /\ at[r] \in Done => Len(evidence[r]) = Len(plan[r])

(* A session is of one request; it is open while that request retrieves,   *)
(* and its audit is that request's evidence.                               *)
SessionOwned ==
    /\ \A r \in Requests : at[r] \in Early => session[r] = 0
    /\ \A r \in Requests : session[r] # 0 => session[r] \in DOMAIN sessions
    /\ \A r \in Requests : at[r] \in {"retrieving"} \cup Done =>
          session[r] # 0 /\ sessions[session[r]].audit = evidence[r]
    /\ \A r, q \in Requests : session[r] # 0 /\ session[r] = session[q] => r = q
    /\ SessionsClosed

ResearchInv == ServerTypes /\ PlannedAs /\ SessionOwned

LEMMA PlanTyped ==
    ASSUME NEW question PROVE Plan(question) \in Seq(Steps)
<1> DEFINE customer == question.ids \cap {"customer"}
           state(i) == <<"issued", "part_paid", "overdue">>[i]
<1>1. \A tool \in ToolNames, filter \in SUBSET Filters :
        Step(tool, filter) \in Steps /\ <<Step(tool, filter)>> \in Seq(Steps)
  BY DEF Step, Steps
<1>2. customer \in SUBSET Filters /\ customer \cup {"overdue"} \in SUBSET Filters
  BY DEF Filters
<1>3. \A i \in 1 .. 3 : customer \cup {state(i)} \in SUBSET Filters
  <2>1. \A i \in 1 .. 3 : state(i) \in Filters
    BY DEF Filters
  <2> HIDE DEF state, customer
  <2> QED
    BY <1>2, <2>1
<1>4. {"invoice"} \in SUBSET Filters /\ {"order"} \in SUBSET Filters /\ {"product"} \in SUBSET Filters
      /\ {} \in SUBSET Filters /\ {"current"} \in SUBSET Filters
  BY DEF Filters
<1>5. ToolNames = {"orders_lookup_invoice", "orders_lookup_order", "catalog_lookup_product",
                   "catalog_check_stock", "orders_search_invoices", "catalog_search_products",
                   "orders_search_orders", "customer_search"}
  BY DEF ToolNames
<1> HIDE DEF state, customer
<1>6. [i \in 1 .. 3 |-> Step("orders_search_invoices", customer \cup {state(i)})] \in Seq(Steps)
  <2>1. [i \in 1 .. 3 |-> Step("orders_search_invoices", customer \cup {state(i)})] \in [1 .. 3 -> Steps]
    BY <1>1, <1>3, <1>5
  <2> QED
    BY <2>1
<1>7. <<Step("catalog_lookup_product", {"product"}), Step("catalog_check_stock", {"product"})>> \in Seq(Steps)
  <2>1. Step("catalog_lookup_product", {"product"}) \in Steps /\ Step("catalog_check_stock", {"product"}) \in Steps
    BY <1>1, <1>4, <1>5
  <2> HIDE DEF Steps
  <2> QED
    BY <2>1
<1>8. <<>> \in Seq(Steps)
  OBVIOUS
<1>9. /\ <<Step("orders_lookup_invoice", {"invoice"})>> \in Seq(Steps)
      /\ <<Step("orders_lookup_order", {"order"})>> \in Seq(Steps)
      /\ <<Step("orders_search_invoices", customer \cup {"overdue"})>> \in Seq(Steps)
      /\ <<Step("catalog_check_stock", {})>> \in Seq(Steps)
      /\ <<Step("catalog_search_products", {"current"})>> \in Seq(Steps)
      /\ <<Step("orders_search_orders", customer)>> \in Seq(Steps)
      /\ <<Step("customer_search", customer)>> \in Seq(Steps)
  BY <1>1, <1>2, <1>4, <1>5
<1> DEFINE S == Seq(Steps)
<1> HIDE DEF S
<1> QED
  BY <1>6, <1>7, <1>8, <1>9 DEF Plan, customer, state, S

(* What a persona is shown depends on the route alone.                     *)
LEMMA ScopeKept ==
    ASSUME server'.route = server.route
    PROVE  Entries' = Entries /\ Opened' = Opened /\ \A tool : Shown(tool)' = Shown(tool)
BY DEF Entries, Opened, Shown

(* A step leaves the requests it is not about as they are.                 *)
Untouched(r) ==
    \A q \in Requests \ {r} :
        /\ at'[q] = at[q] /\ body'[q] = body[q] /\ context'[q] = context[q]
        /\ plan'[q] = plan[q] /\ evidence'[q] = evidence[q] /\ session'[q] = session[q]

LEMMA PlannedKept ==
    ASSUME ResearchInv, NEW r \in Requests, Untouched(r), server'.route = server.route,
           /\ at'[r] \notin {"new", "failed"} => context'[r] = server.route
           /\ at'[r] \in {"planned", "retrieving"} \cup Done =>
                 plan'[r] = Plan(QuestionOf(body'[r].messages))
           /\ at'[r] \in Early => evidence'[r] = <<>>
           /\ at'[r] \in {"retrieving"} \cup Done =>
                 /\ Len(evidence'[r]) <= Len(plan'[r])
                 /\ \A i \in DOMAIN evidence'[r] : evidence'[r][i] = Shown(plan'[r][i].tool)
           /\ at'[r] \in Done => Len(evidence'[r]) = Len(plan'[r])
    PROVE  PlannedAs'
<1>1. \A tool : Shown(tool)' = Shown(tool)
  BY DEF Shown
<1>2. ASSUME NEW q \in Requests, q # r
      PROVE  /\ at'[q] = at[q] /\ body'[q] = body[q] /\ context'[q] = context[q]
             /\ plan'[q] = plan[q] /\ evidence'[q] = evidence[q]
  BY <1>2 DEF Untouched
<1> SUFFICES ASSUME NEW q \in Requests
             PROVE  /\ at'[q] \notin {"new", "failed"} => context'[q] = server'.route
                    /\ at'[q] \in {"planned", "retrieving"} \cup Done =>
                          plan'[q] = Plan(QuestionOf(body'[q].messages))
                    /\ at'[q] \in Early => evidence'[q] = <<>>
                    /\ at'[q] \in {"retrieving"} \cup Done =>
                          /\ Len(evidence'[q]) <= Len(plan'[q])
                          /\ \A i \in DOMAIN evidence'[q] : evidence'[q][i] = Shown(plan'[q][i].tool)
                    /\ at'[q] \in Done => Len(evidence'[q]) = Len(plan'[q])
  BY <1>1 DEF PlannedAs
<1>3. CASE q = r
  BY <1>3
<1>4. CASE q # r
  BY <1>2, <1>4 DEF ResearchInv, PlannedAs
<1> QED
  BY <1>3, <1>4

LEMMA ResearchInvariant == ResearchSpec => []ResearchInv
<1>1. ResearchInit => ResearchInv
  BY DEF ResearchInit, ResearchInv, ServerTypes, PlannedAs, SessionOwned, SessionsClosed, Early, Done
<1>2. ResearchInv /\ [ResearchNext]_serving => ResearchInv'
  <2> SUFFICES ASSUME ResearchInv, [ResearchNext]_serving PROVE ResearchInv'
    OBVIOUS
  <2>1. CASE StartServer
    <3>1. /\ UNCHANGED <<at, body, context, plan, evidence, session, sessions>>
          /\ server'.route = server.route
          /\ server' \in [mode : {"hosted", "evaluation"}, route : Configured,
                          state : {"starting", "serving", "refused"},
                          checks : {Checks} \cup {Checks \ {c} : c \in Checks}]
      BY <2>1 DEF StartServer, ResearchInv, ServerTypes
    <3>2. Entries' = Entries /\ Opened' = Opened /\ \A tool : Shown(tool)' = Shown(tool)
      BY <3>1 DEF Entries, Opened, Shown
    <3> QED
      BY <3>1, <3>2 DEF ResearchInv, ServerTypes, PlannedAs, SessionOwned, SessionsClosed
  <2>2. ASSUME NEW r \in Requests, NEW messages, NEW from, NEW who, NEW call,
               Receive(r, messages, from, who, call)
        PROVE  ResearchInv'
    <3>1. /\ at[r] = "new" /\ UNCHANGED <<server, plan, evidence, session, sessions>>
          /\ body' = [body EXCEPT ![r] = [messages |-> messages, route |-> from, user |-> who]]
          /\ context' = [context EXCEPT ![r] = BuildInput(from, who, call)]
          /\ at' = [at EXCEPT ![r] = IF BuildInput(from, who, call) = Missing THEN "failed" ELSE "received"]
      BY <2>2 DEF Receive
    <3>2. BuildInput(from, who, call) # Missing => BuildInput(from, who, call) = server.route
      BY DEF BuildInput, Resolve
    <3>3. Untouched(r)
      BY <3>1 DEF Untouched, ResearchInv, ServerTypes
    <3>4. evidence[r] = <<>> /\ session[r] = 0
      BY <3>1 DEF ResearchInv, PlannedAs, SessionOwned, Early
    <3>5. ServerTypes'
      BY <3>1 DEF ResearchInv, ServerTypes, Early, Entries, Opened, Shown
    <3>6. PlannedAs'
      <4>1. at'[r] \in {"received", "failed"} /\ (at'[r] = "received" => context'[r] = server.route)
        BY <3>1, <3>2 DEF ResearchInv, ServerTypes
      <4> QED
        BY <3>1, <3>3, <3>4, <4>1, PlannedKept DEF Early, Done
    <3>7. SessionOwned'
      BY <3>1, <3>4 DEF ResearchInv, ServerTypes, SessionOwned, SessionsClosed, Early, Done
    <3> QED
      BY <3>5, <3>6, <3>7 DEF ResearchInv
  <2>3. ASSUME NEW r \in Requests, Planner(r) PROVE ResearchInv'
    <3> DEFINE question == QuestionOf(body[r].messages)
               steps == IF question = Missing THEN <<>> ELSE Plan(question)
    <3>1. /\ at[r] = "received" /\ UNCHANGED <<server, body, context, evidence, session, sessions>>
          /\ plan' = [plan EXCEPT ![r] = steps]
          /\ at' = [at EXCEPT ![r] = IF steps = <<>> THEN "failed" ELSE "planned"]
      BY <2>3 DEF Planner
    <3>2. steps \in Seq(Steps)
      <4>1. Plan(question) \in Seq(Steps)
        BY PlanTyped
      <4> QED
        BY <4>1
    <3>3. steps # <<>> => steps = Plan(question)
      OBVIOUS
    <3> HIDE DEF steps
    <3>4. Untouched(r)
      BY <3>1 DEF Untouched, ResearchInv, ServerTypes
    <3>5. evidence[r] = <<>> /\ session[r] = 0 /\ context[r] = server.route
      BY <3>1 DEF ResearchInv, PlannedAs, SessionOwned, Early
    <3>6. ServerTypes'
      <4>1. Entries' = Entries /\ Opened' = Opened
        BY <3>1, ScopeKept
      <4>2. at' \in [Requests -> Early \cup Done \cup {"retrieving", "failed"}]
        BY <3>1 DEF ResearchInv, ServerTypes, Early
      <4>3. plan' \in [Requests -> Seq(Steps)]
        BY <3>1, <3>2 DEF ResearchInv, ServerTypes
      <4> QED
        BY <3>1, <4>1, <4>2, <4>3 DEF ResearchInv, ServerTypes
    <3>7. PlannedAs'
      <4>1. at'[r] \in {"planned", "failed"} /\ plan'[r] = steps /\ (at'[r] = "planned" => steps # <<>>)
        BY <3>1 DEF ResearchInv, ServerTypes
      <4> QED
        BY <3>1, <3>3, <3>4, <3>5, <4>1, PlannedKept DEF Early, Done
    <3>8. SessionOwned'
      BY <3>1, <3>5 DEF ResearchInv, ServerTypes, SessionOwned, SessionsClosed, Early, Done
    <3> QED
      BY <3>6, <3>7, <3>8 DEF ResearchInv
  <2>4. ASSUME NEW r \in Requests, OpenToolbox(r) PROVE ResearchInv'
    <3> DEFINE n == Len(sessions)
    <3>1. /\ at[r] = "planned" /\ UNCHANGED <<server, body, context, plan, evidence>>
          /\ at' = [at EXCEPT ![r] = "retrieving"]
          /\ sessions' = Append(sessions, [persona |-> context[r], audit |-> <<>>, open |-> TRUE])
          /\ session' = [session EXCEPT ![r] = Len(sessions')]
      BY <2>4 DEF OpenToolbox, Moves
    <3>2. evidence[r] = <<>> /\ session[r] = 0 /\ context[r] = server.route
          /\ plan[r] = Plan(QuestionOf(body[r].messages))
      BY <3>1 DEF ResearchInv, PlannedAs, SessionOwned, Early
    <3>3. [persona |-> context[r], audit |-> <<>>, open |-> TRUE] \in Opened
      BY <3>2 DEF Opened
    <3>4. /\ n \in Nat /\ sessions' \in Seq(Opened) /\ Len(sessions') = n + 1
          /\ DOMAIN sessions = 1 .. n /\ DOMAIN sessions' = 1 .. n + 1
          /\ \A s \in 1 .. n : sessions'[s] = sessions[s]
          /\ sessions'[n + 1] = [persona |-> context[r], audit |-> <<>>, open |-> TRUE]
      BY <3>1, <3>3 DEF ResearchInv, ServerTypes
    <3> HIDE DEF n
    <3>5. Untouched(r)
      BY <3>1 DEF Untouched, ResearchInv, ServerTypes
    <3>6. ServerTypes'
      <4>1. Entries' = Entries /\ Opened' = Opened
        BY <3>1, ScopeKept
      <4>2. at' \in [Requests -> Early \cup Done \cup {"retrieving", "failed"}]
        BY <3>1 DEF ResearchInv, ServerTypes
      <4>3. session' \in [Requests -> Nat]
        BY <3>1, <3>4 DEF ResearchInv, ServerTypes
      <4> QED
        BY <3>1, <3>4, <4>1, <4>2, <4>3 DEF ResearchInv, ServerTypes
    <3>7. PlannedAs'
      <4>1. at'[r] = "retrieving"
        BY <3>1 DEF ResearchInv, ServerTypes
      <4>2. Len(plan[r]) \in Nat
        BY DEF ResearchInv, ServerTypes
      <4> QED
        BY <3>1, <3>2, <3>5, <4>1, <4>2, PlannedKept DEF Early, Done
    <3>8. SessionOwned'
      <4>1. session'[r] = n + 1 /\ at'[r] = "retrieving" /\ sessions'[n + 1].audit = evidence'[r]
        BY <3>1, <3>2, <3>4 DEF ResearchInv, ServerTypes
      <4>2. \A q \in Requests \ {r} : /\ session'[q] = session[q] /\ at'[q] = at[q] /\ evidence'[q] = evidence[q]
                                      /\ session[q] # 0 => session[q] \in 1 .. n
        BY <3>4, <3>5 DEF Untouched, ResearchInv, SessionOwned
      <4>3. \A q \in Requests \ {r} : session[q] # n + 1
        BY <3>4, <4>2
      <4>4. SessionsClosed'
        <5> SUFFICES ASSUME NEW s \in 1 .. n + 1, sessions'[s].open
                     PROVE  \E q \in Requests : session'[q] = s /\ at'[q] = "retrieving"
          BY <3>4 DEF SessionsClosed
        <5>1. CASE s = n + 1
          BY <4>1, <5>1
        <5>2. CASE s # n + 1
          <6>1. s \in 1 .. n /\ sessions[s].open
            BY <3>4, <5>2
          <6>2. PICK q \in Requests : session[q] = s /\ at[q] = "retrieving"
            BY <3>4, <6>1 DEF ResearchInv, SessionOwned, SessionsClosed
          <6>3. q # r
            BY <3>1, <6>2
          <6> QED
            BY <4>2, <6>2, <6>3
        <5> QED
          BY <5>1, <5>2
      <4>5. \A q \in Requests : at'[q] \in Early => session'[q] = 0
        BY <4>1, <4>2 DEF ResearchInv, SessionOwned, Early
      <4>6. \A q \in Requests : session'[q] # 0 => session'[q] \in DOMAIN sessions'
        BY <3>4, <4>1, <4>2
      <4>7. \A q \in Requests : at'[q] \in {"retrieving"} \cup Done =>
               session'[q] # 0 /\ sessions'[session'[q]].audit = evidence'[q]
        BY <3>4, <4>1, <4>2 DEF ResearchInv, SessionOwned
      <4>8. \A p, q \in Requests : session'[p] # 0 /\ session'[p] = session'[q] => p = q
        BY <4>1, <4>2, <4>3 DEF ResearchInv, SessionOwned
      <4> QED
        BY <4>4, <4>5, <4>6, <4>7, <4>8 DEF SessionOwned
    <3> QED
      BY <3>6, <3>7, <3>8 DEF ResearchInv
  <2>5. ASSUME NEW r \in Requests, Retrieve(r) PROVE ResearchInv'
    <3> DEFINE s == session[r]
               i == Len(evidence[r]) + 1
               call == [tool |-> plan[r][i].tool, rows |-> Visible[sessions[s].persona][plan[r][i].tool]]
    <3>1. /\ at[r] = "retrieving" /\ Len(evidence[r]) < Len(plan[r])
          /\ UNCHANGED <<server, body, context, plan, session>>
      BY <2>5 DEF Retrieve
    <3>2. /\ s # 0 /\ s \in DOMAIN sessions /\ sessions[s].audit = evidence[r]
          /\ sessions[s] \in Opened
      BY <3>1 DEF ResearchInv, ServerTypes, SessionOwned
    <3>3. /\ Len(evidence[r]) \in Nat /\ i \in DOMAIN plan[r] /\ plan[r][i] \in Steps
      BY <3>1 DEF ResearchInv, ServerTypes
    <3>4. call = Shown(plan[r][i].tool) /\ call \in Entries
      BY <3>2, <3>3 DEF Opened, Shown, Entries, Steps
    <3>5. \/ /\ sessions' = [[sessions EXCEPT ![s].audit = Append(@, call)] EXCEPT ![s].open = FALSE]
             /\ at' = [at EXCEPT ![r] = "failed"] /\ evidence' = evidence
          \/ /\ sessions' = [sessions EXCEPT ![s].audit = Append(@, call)]
             /\ evidence' = [evidence EXCEPT ![r] = Append(@, call)] /\ at' = at
      BY <2>5 DEF Retrieve, CallTool
    <3> HIDE DEF call
    <3>6. /\ sessions' \in Seq(Opened) /\ DOMAIN sessions' = DOMAIN sessions
          /\ \A k \in DOMAIN sessions \ {s} : sessions'[k] = sessions[k]
          /\ sessions'[s].audit = Append(evidence[r], call)
          /\ at' = at => sessions'[s].open = sessions[s].open
          /\ at' # at => sessions'[s].open = FALSE
      <4>1. Append(sessions[s].audit, call) \in Seq(Entries)
        BY <3>2, <3>4 DEF Opened
      <4>2. DOMAIN sessions = 1 .. Len(sessions) /\ Len(sessions) \in Nat /\ sessions \in [1 .. Len(sessions) -> Opened]
        BY DEF ResearchInv, ServerTypes
      <4>3. at[r] # "failed" /\ r \in DOMAIN at
        BY <3>1 DEF ResearchInv, ServerTypes
      <4>4. CASE /\ sessions' = [sessions EXCEPT ![s].audit = Append(@, call)] /\ at' = at
        <5>1. sessions' = [sessions EXCEPT ![s] = [sessions[s] EXCEPT !.audit = Append(sessions[s].audit, call)]]
          BY <4>4
        <5>2. /\ [sessions[s] EXCEPT !.audit = Append(sessions[s].audit, call)] \in Opened
              /\ [sessions[s] EXCEPT !.audit = Append(sessions[s].audit, call)].audit = Append(sessions[s].audit, call)
              /\ [sessions[s] EXCEPT !.audit = Append(sessions[s].audit, call)].open = sessions[s].open
          BY <3>2, <4>1 DEF Opened
        <5>3. sessions' \in [1 .. Len(sessions) -> Opened]
          BY <3>2, <4>2, <5>1, <5>2
        <5> QED
          BY <3>2, <4>2, <4>4, <5>1, <5>2, <5>3
      <4>5. CASE /\ sessions' = [[sessions EXCEPT ![s].audit = Append(@, call)] EXCEPT ![s].open = FALSE]
                 /\ at' = [at EXCEPT ![r] = "failed"]
        <5> DEFINE new == [[sessions[s] EXCEPT !.audit = Append(sessions[s].audit, call)] EXCEPT !.open = FALSE]
        <5>1. sessions' = [sessions EXCEPT ![s] = new]
          BY <4>5, <3>2
        <5>2. /\ new \in Opened
              /\ new.audit = Append(sessions[s].audit, call)
              /\ new.open = FALSE
          BY <3>2, <4>1 DEF Opened
        <5> HIDE DEF new
        <5>3. sessions' \in [1 .. Len(sessions) -> Opened]
          BY <3>2, <4>2, <5>1, <5>2
        <5>4. at' # at
          BY <4>3, <4>5
        <5> QED
          BY <3>2, <4>2, <5>1, <5>2, <5>3, <5>4
      <4> QED
        BY <3>5, <4>4, <4>5
    <3>7. \/ at' = [at EXCEPT ![r] = "failed"] /\ evidence' = evidence
          \/ at' = at /\ evidence' = [evidence EXCEPT ![r] = Append(@, call)]
      BY <3>5
    <3>8. Untouched(r)
      BY <3>1, <3>7 DEF Untouched, ResearchInv, ServerTypes
    <3>9. Append(evidence[r], call) \in Seq(Entries)
      BY <3>4 DEF ResearchInv, ServerTypes
    <3>10. ServerTypes'
      <4>1. Entries' = Entries /\ Opened' = Opened
        BY <3>1 DEF Entries, Opened, Shown
      <4>2. evidence' \in [Requests -> Seq(Entries)]
        BY <3>7, <3>9 DEF ResearchInv, ServerTypes
      <4>3. at' \in [Requests -> Early \cup Done \cup {"retrieving", "failed"}]
        BY <3>7 DEF ResearchInv, ServerTypes
      <4> QED
        BY <3>1, <3>6, <4>1, <4>2, <4>3 DEF ResearchInv, ServerTypes
    <3>11. PlannedAs'
      <4>1. CASE at' = [at EXCEPT ![r] = "failed"]
        <5>1. at'[r] = "failed"
          BY <4>1 DEF ResearchInv, ServerTypes
        <5> QED
          BY <3>1, <3>8, <5>1, PlannedKept DEF Early, Done
      <4>2. CASE at' = at /\ evidence' = [evidence EXCEPT ![r] = Append(@, call)]
        <5> DEFINE n == Len(evidence[r])
        <5>1. evidence'[r] = Append(evidence[r], call)
          BY <4>2 DEF ResearchInv, ServerTypes
        <5>2. /\ n \in Nat /\ DOMAIN evidence'[r] = 1 .. n + 1 /\ Len(evidence'[r]) = n + 1
              /\ \A k \in 1 .. n : evidence'[r][k] = evidence[r][k]
              /\ evidence'[r][n + 1] = call /\ DOMAIN evidence[r] = 1 .. n
          BY <3>4, <5>1 DEF ResearchInv, ServerTypes
        <5>3. /\ \A k \in 1 .. n : evidence[r][k] = Shown(plan[r][k].tool)
              /\ context[r] = server.route /\ plan[r] = Plan(QuestionOf(body[r].messages))
              /\ Len(plan[r]) \in Nat
          <6>1. Len(plan[r]) \in Nat
            BY DEF ResearchInv, ServerTypes
          <6> HIDE DEF n
          <6>2. /\ \A k \in DOMAIN evidence[r] : evidence[r][k] = Shown(plan[r][k].tool)
                /\ context[r] = server.route /\ plan[r] = Plan(QuestionOf(body[r].messages))
            BY <3>1 DEF ResearchInv, PlannedAs
          <6> QED
            BY <5>2, <6>1, <6>2
        <5>4. at'[r] = "retrieving" /\ Len(evidence'[r]) <= Len(plan'[r])
          BY <3>1, <4>2, <5>2, <5>3
        <5>5. \A k \in DOMAIN evidence'[r] : evidence'[r][k] = Shown(plan'[r][k].tool)
          <6>1. i = n + 1
            OBVIOUS
          <6> HIDE DEF n, i
          <6> QED
            BY <3>1, <3>4, <5>2, <5>3, <6>1
        <5> QED
          BY <3>1, <3>8, <5>3, <5>4, <5>5, PlannedKept DEF Early, Done
      <4> QED
        BY <3>7, <4>1, <4>2
    <3>12. SessionOwned'
      <4>1. \A q \in Requests \ {r} : /\ session'[q] = session[q] /\ at'[q] = at[q] /\ evidence'[q] = evidence[q]
                                      /\ session[q] # s
        BY <3>2, <3>8 DEF Untouched, ResearchInv, SessionOwned
      <4>2. /\ session'[r] = s /\ at'[r] \in {"retrieving", "failed"}
            /\ at'[r] = "retrieving" => evidence'[r] = Append(evidence[r], call)
            /\ at' = at => at'[r] = "retrieving"
        BY <3>1, <3>7 DEF ResearchInv, ServerTypes
      <4>3. \A q \in Requests : at'[q] \in Early => session'[q] = 0
        BY <4>1, <4>2 DEF ResearchInv, SessionOwned, Early
      <4>4. \A q \in Requests : session'[q] # 0 => session'[q] \in DOMAIN sessions'
        BY <3>2, <3>6, <4>1, <4>2 DEF ResearchInv, SessionOwned
      <4>5. \A q \in Requests : at'[q] \in {"retrieving"} \cup Done =>
               session'[q] # 0 /\ sessions'[session'[q]].audit = evidence'[q]
        <5> SUFFICES ASSUME NEW q \in Requests, at'[q] \in {"retrieving"} \cup Done
                     PROVE  session'[q] # 0 /\ sessions'[session'[q]].audit = evidence'[q]
          OBVIOUS
        <5>1. CASE q = r
          <6>1. at'[r] = "retrieving"
            BY <4>2, <5>1 DEF Done
          <6> QED
            BY <3>2, <3>6, <4>2, <5>1, <6>1
        <5>2. CASE q # r
          <6>1. /\ session[q] # 0 /\ session[q] \in DOMAIN sessions /\ session[q] # s
                /\ sessions[session[q]].audit = evidence[q]
            BY <4>1, <5>2 DEF ResearchInv, SessionOwned
          <6> QED
            BY <3>6, <4>1, <5>2, <6>1
        <5> QED
          BY <5>1, <5>2
      <4>6. \A p, q \in Requests : session'[p] # 0 /\ session'[p] = session'[q] => p = q
        BY <4>1, <4>2 DEF ResearchInv, SessionOwned
      <4>7. SessionsClosed'
        <5> SUFFICES ASSUME NEW k \in DOMAIN sessions, sessions'[k].open
                     PROVE  \E q \in Requests : session'[q] = k /\ at'[q] = "retrieving"
          BY <3>6 DEF SessionsClosed
        <5>1. CASE k = s
          BY <3>6, <4>2, <5>1
        <5>2. CASE k # s
          <6>1. sessions[k].open
            BY <3>6, <5>2
          <6>2. PICK q \in Requests : session[q] = k /\ at[q] = "retrieving"
            BY <6>1 DEF ResearchInv, SessionOwned, SessionsClosed
          <6>3. q # r
            BY <5>2, <6>2
          <6> QED
            BY <4>1, <6>2, <6>3
        <5> QED
          BY <5>1, <5>2
      <4> QED
        BY <4>3, <4>4, <4>5, <4>6, <4>7 DEF SessionOwned
    <3> QED
      BY <3>10, <3>11, <3>12 DEF ResearchInv
  <2>6. ASSUME NEW r \in Requests, CloseToolbox(r) PROVE ResearchInv'
    <3> DEFINE s == session[r]
    <3>1. /\ at[r] = "retrieving" /\ Len(evidence[r]) = Len(plan[r])
          /\ at' = [at EXCEPT ![r] = "retrieved"]
          /\ sessions' = [sessions EXCEPT ![s].open = FALSE]
          /\ UNCHANGED <<server, body, context, plan, evidence, session>>
      BY <2>6 DEF CloseToolbox, Moves
    <3>2. s # 0 /\ s \in DOMAIN sessions /\ sessions[s].audit = evidence[r] /\ sessions[s] \in Opened
      BY <3>1 DEF ResearchInv, ServerTypes, SessionOwned
    <3>3. /\ sessions' \in Seq(Opened) /\ DOMAIN sessions' = DOMAIN sessions
          /\ \A k \in DOMAIN sessions \ {s} : sessions'[k] = sessions[k]
          /\ sessions'[s].audit = sessions[s].audit /\ sessions'[s].open = FALSE
      <4>1. DOMAIN sessions = 1 .. Len(sessions) /\ Len(sessions) \in Nat /\ sessions \in [1 .. Len(sessions) -> Opened]
        BY DEF ResearchInv, ServerTypes
      <4> DEFINE new == [sessions[s] EXCEPT !.open = FALSE]
      <4>2. sessions' = [sessions EXCEPT ![s] = new]
        BY <3>1
      <4>3. new \in Opened /\ new.audit = sessions[s].audit /\ new.open = FALSE
        BY <3>2 DEF Opened
      <4> HIDE DEF new
      <4>4. sessions' \in [1 .. Len(sessions) -> Opened]
        BY <3>2, <4>1, <4>2, <4>3
      <4> QED
        BY <3>2, <4>1, <4>2, <4>3, <4>4
    <3>4. Untouched(r)
      BY <3>1 DEF Untouched, ResearchInv, ServerTypes
    <3>5. ServerTypes'
      BY <3>1, <3>3 DEF ResearchInv, ServerTypes, Early, Done, Entries, Opened, Shown
    <3>6. PlannedAs'
      <4>1. at'[r] = "retrieved"
        BY <3>1 DEF ResearchInv, ServerTypes
      <4>2. /\ context[r] = server.route /\ plan[r] = Plan(QuestionOf(body[r].messages))
            /\ \A i \in DOMAIN evidence[r] : evidence[r][i] = Shown(plan[r][i].tool)
            /\ Len(evidence[r]) <= Len(plan[r])
        BY <3>1 DEF ResearchInv, PlannedAs
      <4> QED
        BY <3>1, <3>4, <4>1, <4>2, PlannedKept DEF Early, Done
    <3>7. SessionOwned'
      <4>1. \A q \in Requests \ {r} : session'[q] = session[q] /\ at'[q] = at[q] /\ session[q] # s
        BY <3>1, <3>2, <3>4 DEF Untouched, ResearchInv, SessionOwned
      <4>2. session'[r] = s /\ at'[r] = "retrieved" /\ evidence' = evidence
        BY <3>1 DEF ResearchInv, ServerTypes
      <4>3. SessionsClosed'
        <5> SUFFICES ASSUME NEW k \in DOMAIN sessions, sessions'[k].open
                     PROVE  \E q \in Requests : session'[q] = k /\ at'[q] = "retrieving"
          BY <3>3 DEF SessionsClosed
        <5>1. k # s /\ sessions[k].open
          BY <3>3
        <5>2. PICK q \in Requests : session[q] = k /\ at[q] = "retrieving"
          BY <5>1 DEF ResearchInv, SessionOwned, SessionsClosed
        <5> QED
          BY <4>1, <5>1, <5>2
      <4>4. \A q \in Requests : at'[q] \in {"retrieving"} \cup Done =>
               session'[q] # 0 /\ sessions'[session'[q]].audit = evidence'[q]
        BY <3>2, <3>3, <4>1, <4>2 DEF ResearchInv, SessionOwned
      <4>5. \A q \in Requests : at'[q] \in Early => session'[q] = 0
        BY <4>1, <4>2 DEF ResearchInv, SessionOwned, Early
      <4> QED
        BY <3>1, <3>3, <4>3, <4>4, <4>5 DEF ResearchInv, SessionOwned
    <3> QED
      BY <3>5, <3>6, <3>7 DEF ResearchInv
  <2>7. ASSUME NEW r \in Requests, Synthesize(r) \/ Score(r) PROVE ResearchInv'
    <3>1. /\ at[r] \in Done /\ UNCHANGED <<server, body, context, plan, evidence, session, sessions>>
          /\ \E to \in {"answered", "passed", "failed"} : at' = [at EXCEPT ![r] = to]
      BY <2>7 DEF Synthesize, Score, Done
    <3>2. ServerTypes'
      BY <3>1 DEF ResearchInv, ServerTypes, Early, Done, Entries, Opened, Shown
    <3>3. PlannedAs'
      <4>1. Untouched(r)
        BY <3>1 DEF Untouched, ResearchInv, ServerTypes
      <4>2. at'[r] \in {"answered", "passed", "failed"}
        BY <3>1 DEF ResearchInv, ServerTypes
      <4>3. /\ context[r] = server.route /\ plan[r] = Plan(QuestionOf(body[r].messages))
            /\ \A i \in DOMAIN evidence[r] : evidence[r][i] = Shown(plan[r][i].tool)
            /\ Len(evidence[r]) <= Len(plan[r]) /\ Len(evidence[r]) = Len(plan[r])
        BY <3>1 DEF ResearchInv, PlannedAs, Done
      <4> QED
        BY <3>1, <4>1, <4>2, <4>3, PlannedKept DEF Early, Done
    <3>4. SessionOwned'
      BY <3>1 DEF ResearchInv, ServerTypes, SessionOwned, SessionsClosed, Early, Done
    <3> QED
      BY <3>2, <3>3, <3>4 DEF ResearchInv
  <2>8. ASSUME NEW r \in Requests, OpenToolboxFails(r) PROVE ResearchInv'
    <3>1. /\ at[r] = "planned" /\ at' = [at EXCEPT ![r] = "failed"]
          /\ UNCHANGED <<server, body, context, plan, evidence, session, sessions>>
      BY <2>8 DEF OpenToolboxFails, Moves
    <3>2. Untouched(r)
      BY <3>1 DEF Untouched, ResearchInv, ServerTypes
    <3>3. session[r] = 0
      BY <3>1 DEF ResearchInv, SessionOwned, Early
    <3>4. ServerTypes'
      <4>1. Entries' = Entries /\ Opened' = Opened
        BY <3>1, ScopeKept
      <4> QED
        BY <3>1, <4>1 DEF ResearchInv, ServerTypes
    <3>5. PlannedAs'
      <4>1. at'[r] = "failed"
        BY <3>1 DEF ResearchInv, ServerTypes
      <4> QED
        BY <3>1, <3>2, <4>1, PlannedKept DEF Early, Done
    <3>6. SessionOwned'
      BY <3>1, <3>3 DEF ResearchInv, ServerTypes, SessionOwned, SessionsClosed, Early, Done
    <3> QED
      BY <3>4, <3>5, <3>6 DEF ResearchInv
  <2>9. CASE UNCHANGED serving
    <3>1. UNCHANGED <<server, at, body, context, plan, evidence, session, sessions>>
      BY <2>9 DEF serving
    <3>2. Entries' = Entries /\ Opened' = Opened /\ \A tool : Shown(tool)' = Shown(tool)
      BY <3>1, ScopeKept
    <3>3. ServerTypes'
      BY <3>1, <3>2 DEF ResearchInv, ServerTypes
    <3>4. PlannedAs'
      BY <3>1, <3>2 DEF ResearchInv, PlannedAs
    <3>5. SessionOwned'
      BY <3>1 DEF ResearchInv, SessionOwned, SessionsClosed
    <3> QED
      BY <3>3, <3>4, <3>5 DEF ResearchInv
  <2> QED
    BY <2>1, <2>2, <2>3, <2>4, <2>5, <2>6, <2>7, <2>8, <2>9 DEF ResearchNext, Handle
<1> QED
  BY <1>1, <1>2, PTL DEF ResearchSpec

(* An answer rests on the plan of its own question and on what the         *)
(* deployment's persona sees, its audit is of its own calls and its        *)
(* connection is closed, however many requests are answered at once.       *)
THEOREM ResearchOwn == ResearchSpec => []ResearchIsOwn
<1>1. ResearchInv => AnswerInScope
  <2> SUFFICES ASSUME ResearchInv, NEW r \in Requests, at[r] \in {"answered", "passed"}
               PROVE  /\ plan[r] = Plan(QuestionOf(body[r].messages))
                      /\ evidence[r] = [i \in DOMAIN plan[r] |->
                            [tool |-> plan[r][i].tool, rows |-> Visible[server.route][plan[r][i].tool]]]
    BY DEF AnswerInScope
  <2>1. /\ plan[r] = Plan(QuestionOf(body[r].messages)) /\ Len(evidence[r]) = Len(plan[r])
        /\ \A i \in DOMAIN evidence[r] : evidence[r][i] = Shown(plan[r][i].tool)
    BY DEF ResearchInv, PlannedAs, Done
  <2>2. evidence[r] \in Seq(Entries) /\ plan[r] \in Seq(Steps)
    BY DEF ResearchInv, ServerTypes
  <2>3. evidence[r] = [i \in DOMAIN plan[r] |-> Shown(plan[r][i].tool)]
    BY <2>1, <2>2
  <2> QED
    BY <2>1, <2>3 DEF Shown
<1>2. ResearchInv => AuditIsOwn /\ SessionsClosed
  BY DEF ResearchInv, SessionOwned, AuditIsOwn, Done
<1>3. ResearchInv => ResearchIsOwn
  BY <1>1, <1>2 DEF ResearchIsOwn
<1> QED
  BY <1>3, ResearchInvariant, PTL

-----------------------------------------------------------------------------
(* Support.  A call under way is made for the principal it was opened for, *)
(* and the evaluation is at most one scenario ahead of its results.        *)

Told == [case : SupportCases, row : SupportCases \cup {NoOne}]

(* What scenario i's expectation says of its user, as EvaluationProves.    *)
Shows(i) ==
    LET s == Scenarios[i]
        known == s.user # NoOne /\ s.user \in DOMAIN Mapping /\ Mapping[s.user] \in DOMAIN Directory
    IN  /\ s.expect = "error" => ~ known
        /\ s.expect # "error" => intact /\ known
        /\ s.expect = "null" => Region[s.case] \notin Directory[Mapping[s.user]]
        /\ s.expect = "row" => Region[s.case] \in Directory[Mapping[s.user]]

(* A hosted call is made as the deployment's principal, and a row is told  *)
(* when that principal sees it.                                            *)
HostedInScope ==
    /\ findings \in [HostedRequests -> Seq(Told)]
    /\ DOMAIN calling = Callers
    /\ hosting = "hosted" => \A r \in HostedRequests : calling[r] # NoOne =>
          calling[r].case \in SupportCases /\ calling[r].oid = binding
    /\ FindingsInScope

(* The evaluation is at most one scenario ahead of its results, and calls  *)
(* as the principal of that scenario's user, on a database that is there.  *)
EvaluatedInTurn ==
    /\ outcomes \in Seq({"passed", "error"})
    /\ scenario \in Nat /\ scenario \in {Len(outcomes), Len(outcomes) + 1} /\ scenario <= Len(Scenarios)
    /\ Len(outcomes) < scenario => user = Scenarios[scenario].user
    /\ hosting = "evaluation" /\ calling[Evaluator] # NoOne =>
          /\ Len(outcomes) < scenario /\ intact
          /\ user # NoOne /\ user \in DOMAIN Mapping
          /\ calling[Evaluator].oid = Mapping[user]
    /\ \A i \in DOMAIN outcomes : outcomes[i] = "passed" => Shows(i)

SupportInv == HostedInScope /\ EvaluatedInTurn

(* An investigation is told one thing more, which the principal may see.   *)
LEMMA ToldOneMore ==
    ASSUME SupportInv, NEW r \in HostedRequests, NEW case \in SupportCases,
           NEW row \in SupportCases \cup {NoOne},
           row # NoOne => binding \in DOMAIN Directory /\ Region[row] \in Directory[binding],
           Finds(r, case, row), binding' = binding
    PROVE  findings' \in [HostedRequests -> Seq(Told)] /\ FindingsInScope'
<1> DEFINE n == Len(findings[r])
           new == [case |-> case, row |-> row]
<1>1. new \in Told /\ findings[r] \in Seq(Told) /\ findings \in [HostedRequests -> Seq(Told)]
  BY DEF SupportInv, HostedInScope, Told
<1>2. findings' = [findings EXCEPT ![r] = Append(findings[r], new)]
  BY DEF Finds
<1>3. Append(findings[r], new) \in Seq(Told)
  BY <1>1
<1>4. findings' \in [HostedRequests -> Seq(Told)]
  BY <1>1, <1>2, <1>3
<1>5. /\ n \in Nat /\ DOMAIN findings'[r] = 1 .. n + 1 /\ DOMAIN findings[r] = 1 .. n
      /\ \A i \in 1 .. n : findings'[r][i] = findings[r][i]
      /\ findings'[r][n + 1] = new
      /\ \A q \in HostedRequests \ {r} : findings'[q] = findings[q]
  BY <1>1, <1>2
<1> HIDE DEF n
<1>6. FindingsInScope'
  <2> SUFFICES ASSUME NEW q \in HostedRequests, NEW i \in DOMAIN findings'[q], findings'[q][i].row # NoOne
               PROVE  binding \in DOMAIN Directory /\ Region[findings'[q][i].row] \in Directory[binding]
    BY DEF FindingsInScope
  <2>1. CASE q = r /\ i = n + 1
    BY <1>5, <2>1
  <2>2. CASE ~ (q = r /\ i = n + 1)
    <3>1. i \in DOMAIN findings[q] /\ findings'[q][i] = findings[q][i]
      <4>1. CASE q = r
        <5>1. i \in 1 .. n
          BY <1>5, <2>2, <4>1
        <5> QED
          BY <1>5, <4>1, <5>1
      <4>2. CASE q # r
        BY <1>5, <4>2
      <4> QED
        BY <4>1, <4>2
    <3> QED
      BY <3>1 DEF SupportInv, HostedInScope, FindingsInScope
  <2> QED
    BY <2>1, <2>2
<1> QED
  BY <1>4, <1>6

(* The evaluation records one result more, which shows what it should.     *)
LEMMA OneMoreShown ==
    ASSUME SupportInv, Len(outcomes) < scenario, NEW good \in BOOLEAN, Conclude(good), good => Shows(scenario),
           UNCHANGED <<intact, scenario>>
    PROVE  /\ outcomes' \in Seq({"passed", "error"}) /\ Len(outcomes') = scenario
           /\ \A i \in DOMAIN outcomes' : outcomes'[i] = "passed" => Shows(i)'
<1> DEFINE n == Len(outcomes)
           new == IF good THEN "passed" ELSE "error"
<1>1. outcomes \in Seq({"passed", "error"}) /\ scenario = n + 1 /\ n \in Nat
  BY DEF SupportInv, EvaluatedInTurn
<1>2. outcomes' = Append(outcomes, new)
  BY DEF Conclude
<1>3. /\ outcomes' \in Seq({"passed", "error"}) /\ DOMAIN outcomes' = 1 .. n + 1 /\ DOMAIN outcomes = 1 .. n
      /\ \A i \in 1 .. n : outcomes'[i] = outcomes[i]
      /\ outcomes'[n + 1] = new /\ Len(outcomes') = n + 1
  BY <1>1, <1>2
<1> HIDE DEF n
<1>4. \A i : Shows(i)' = Shows(i)
  BY DEF Shows
<1>5. \A i \in 1 .. n + 1 : outcomes'[i] = "passed" => Shows(i)
  BY <1>1, <1>3 DEF SupportInv, EvaluatedInTurn
<1> QED
  BY <1>1, <1>3, <1>4, <1>5

LEMMA Unmoved ==
    ASSUME SupportInv, UNCHANGED <<hosting, binding, intact, findings, calling, user, scenario, outcomes>>
    PROVE  SupportInv'
BY DEF SupportInv, HostedInScope, FindingsInScope, EvaluatedInTurn, Shows

LEMMA SupportInvariant == SupportSpec => []SupportInv
<1>1. SupportInit => SupportInv
  <2> SUFFICES ASSUME SupportInit PROVE SupportInv
    OBVIOUS
  <2>1. HostedInScope
    <3>1. findings = [r \in HostedRequests |-> <<>>] /\ calling = [c \in Callers |-> NoOne]
      BY DEF SupportInit
    <3>2. findings \in [HostedRequests -> Seq(Told)]
      BY <3>1
    <3>3. \A r \in HostedRequests : DOMAIN findings[r] = {} /\ calling[r] = NoOne
      BY <3>1 DEF Callers
    <3> QED
      BY <3>1, <3>2, <3>3 DEF HostedInScope, FindingsInScope
  <2>2. EvaluatedInTurn
    <3>1. Len(Scenarios) \in Nat
      BY SupportAssumption
    <3>2. calling[Evaluator] = NoOne /\ outcomes = <<>> /\ scenario = 0
      BY DEF SupportInit, Callers
    <3> QED
      BY <3>1, <3>2 DEF EvaluatedInTurn
  <2> QED
    BY <2>1, <2>2 DEF SupportInv
<1>2. SupportInv /\ [SupportNext]_support => SupportInv'
  <2> SUFFICES ASSUME SupportInv, [SupportNext]_support PROVE SupportInv'
    OBVIOUS
  <2> USE DEF SupportInv
  <2>1. ASSUME NEW r \in HostedRequests, Intake(r) \/ Review(r) \/ Break(r) PROVE SupportInv'
    <3>1. UNCHANGED <<hosting, binding, intact, findings, calling, user, scenario, outcomes>>
      BY <2>1 DEF Intake, Review, Break
    <3> QED
      BY <3>1, Unmoved
  <2>2. ASSUME NEW r \in HostedRequests, NEW tool, NEW case \in SupportCases,
               NEW trusted \in BOOLEAN, AskTool(r, tool, case, trusted)
        PROVE  SupportInv'
    <3>1. hosting = "hosted" /\ UNCHANGED <<hosting, binding, intact, user, scenario, outcomes>>
      BY <2>2 DEF AskTool
    <3>2. EvaluatedInTurn'
      BY <3>1 DEF EvaluatedInTurn, Shows
    <3>3. CASE Finds(r, case, NoOne) /\ UNCHANGED calling
      <4>1. findings' \in [HostedRequests -> Seq(Told)] /\ FindingsInScope'
        BY <3>1, <3>3, ToldOneMore
      <4> QED
        BY <3>1, <3>2, <3>3, <4>1 DEF HostedInScope
    <3>4. CASE Connect(r, case) /\ UNCHANGED findings
      <4>1. calling' = [calling EXCEPT ![r] = [case |-> case, oid |-> binding]]
        BY <3>1, <3>4 DEF Connect, Principal
      <4>2. FindingsInScope'
        BY <3>1, <3>4 DEF HostedInScope, FindingsInScope
      <4> QED
        BY <3>1, <3>2, <3>4, <4>1, <4>2 DEF HostedInScope
    <3> QED
      BY <2>2, <3>3, <3>4 DEF AskTool
  <2>3. ASSUME NEW r \in HostedRequests, Answer(r) PROVE SupportInv'
    <3> DEFINE case == calling[r].case
               row == IF binding \in DOMAIN Directory THEN Lookup(binding, case) ELSE NoOne
    <3>1. /\ hosting = "hosted" /\ UNCHANGED <<hosting, binding, intact, user, scenario, outcomes>>
          /\ calling[r] # NoOne /\ calling' = [calling EXCEPT ![r] = NoOne]
      BY <2>3 DEF Answer, Rest
    <3>2. case \in SupportCases /\ calling[r].oid = binding
      BY <3>1 DEF HostedInScope
    <3>3. Finds(r, case, row)
      BY <2>3, <3>2 DEF Answer
    <3>4. /\ row \in SupportCases \cup {NoOne}
          /\ row # NoOne => binding \in DOMAIN Directory /\ Region[row] \in Directory[binding]
      BY <3>2 DEF Lookup
    <3> HIDE DEF case, row
    <3>5. findings' \in [HostedRequests -> Seq(Told)] /\ FindingsInScope'
      BY <3>1, <3>2, <3>3, <3>4, ToldOneMore
    <3>6. EvaluatedInTurn'
      BY <3>1 DEF EvaluatedInTurn, Shows
    <3> QED
      BY <3>1, <3>5, <3>6 DEF HostedInScope
  <2>4. CASE NextScenario
    <3>1. /\ hosting = "evaluation" /\ Len(outcomes) = scenario /\ scenario < Len(Scenarios)
          /\ scenario' = scenario + 1 /\ user' = Scenarios[scenario + 1].user
          /\ UNCHANGED <<hosting, binding, intact, findings, calling, outcomes>>
      BY <2>4 DEF NextScenario
    <3>2. HostedInScope'
      BY <3>1 DEF HostedInScope, FindingsInScope
    <3>3. \A i : Shows(i)' = Shows(i)
      BY <3>1 DEF Shows
    <3>4. Len(Scenarios) \in Nat
      BY SupportAssumption
    <3>5. EvaluatedInTurn'
      BY <3>1, <3>3, <3>4 DEF EvaluatedInTurn
    <3> QED
      BY <3>2, <3>5
  <2>5. CASE Call
    <3>1. /\ hosting = "evaluation" /\ calling[Evaluator] = NoOne /\ Len(outcomes) < scenario
          /\ UNCHANGED <<hosting, binding, intact, findings, scenario>>
      BY <2>5 DEF Call, Evaluating
    <3>2. user = Here.user
      BY <3>1 DEF EvaluatedInTurn, Here
    <3>3. CASE Principal # NoOne /\ intact
      <4>1. /\ UNCHANGED <<outcomes, user>>
            /\ calling' = [calling EXCEPT ![Evaluator] = [case |-> Here.case, oid |-> Principal]]
        BY <2>5, <3>3 DEF Call, Connect
      <4>2. user # NoOne /\ user \in DOMAIN Mapping /\ Principal = Mapping[user]
        BY <3>1, <3>3 DEF Principal
      <4>3. HostedInScope'
        BY <3>1, <4>1 DEF HostedInScope, FindingsInScope
      <4>4. calling'[Evaluator].oid = Mapping[user]
        BY <4>1, <4>2 DEF HostedInScope, Callers
      <4>5. \A i : Shows(i)' = Shows(i)
        BY <3>1 DEF Shows
      <4>6. EvaluatedInTurn'
        BY <3>1, <3>3, <4>1, <4>2, <4>4, <4>5 DEF EvaluatedInTurn
      <4> QED
        BY <4>3, <4>6
    <3>4. CASE ~ (Principal # NoOne /\ intact)
      <4> DEFINE good == Principal = NoOne /\ Here.expect = "error"
      <4>1. Conclude(good) /\ calling' = calling
        BY <2>5, <3>4 DEF Call
      <4>2. good => Shows(scenario)
        BY <3>1, <3>2, SupportAssumption DEF Principal, Shows, Here
      <4>3. good \in BOOLEAN
        OBVIOUS
      <4> HIDE DEF good
      <4>4. /\ outcomes' \in Seq({"passed", "error"}) /\ Len(outcomes') = scenario
            /\ \A i \in DOMAIN outcomes' : outcomes'[i] = "passed" => Shows(i)'
        BY <3>1, <4>1, <4>2, <4>3, OneMoreShown
      <4>5. HostedInScope'
        BY <3>1, <4>1 DEF HostedInScope, FindingsInScope
      <4>6. EvaluatedInTurn'
        BY <3>1, <4>1, <4>4 DEF EvaluatedInTurn
      <4> QED
        BY <4>5, <4>6
    <3> QED
      BY <3>3, <3>4
  <2>6. CASE Judge
    <3> DEFINE oid == calling[Evaluator].oid
               row == IF oid \in DOMAIN Directory THEN Lookup(oid, Here.case) ELSE NoOne
               good == AsExpected(oid, row)
    <3>1. /\ hosting = "evaluation" /\ calling[Evaluator] # NoOne
          /\ Conclude(good) /\ calling' = [calling EXCEPT ![Evaluator] = NoOne]
          /\ UNCHANGED <<hosting, binding, intact, findings, scenario>>
      BY <2>6 DEF Judge, Rest
    <3>2. /\ Len(outcomes) < scenario /\ intact /\ user = Here.user
          /\ user # NoOne /\ user \in DOMAIN Mapping /\ oid = Mapping[user]
      BY <3>1 DEF EvaluatedInTurn, Here
    <3>3. Here.case \in SupportCases
      <4>1. scenario \in 1 .. Len(Scenarios)
        BY <3>2 DEF EvaluatedInTurn
      <4> QED
        BY <4>1, SupportAssumption DEF Here
    <3>4. good \in BOOLEAN
      BY DEF AsExpected
    <3>5. good => Shows(scenario)
      BY <3>2, <3>3, SupportAssumption DEF AsExpected, Lookup, Shows, Here
    <3> HIDE DEF good
    <3>6. /\ outcomes' \in Seq({"passed", "error"}) /\ Len(outcomes') = scenario
          /\ \A i \in DOMAIN outcomes' : outcomes'[i] = "passed" => Shows(i)'
      BY <3>1, <3>2, <3>4, <3>5, OneMoreShown
    <3>7. HostedInScope'
      BY <3>1 DEF HostedInScope, FindingsInScope
    <3>8. calling'[Evaluator] = NoOne
      BY <3>1 DEF HostedInScope, Callers
    <3>9. EvaluatedInTurn'
      BY <3>1, <3>6, <3>8 DEF EvaluatedInTurn
    <3> QED
      BY <3>7, <3>9
  <2>7. CASE UNCHANGED support
    BY <2>7, Unmoved DEF support
  <2> QED
    BY <2>1, <2>2, <2>3, <2>4, <2>5, <2>6, <2>7 DEF SupportNext, Host
<1> QED
  BY <1>1, <1>2, PTL DEF SupportSpec

(* In a hosted deployment no investigation is told of a row its principal  *)
(* does not see, and an evaluation without an error showed for each of its *)
(* scenarios what the scenario claims, however the calls interleave.       *)
THEOREM SupportProven == SupportSpec => []SupportIsProven
<1>1. SupportInv => FindingsInScope
  BY DEF SupportInv, HostedInScope
<1>2. SupportInv => EvaluationProves
  BY DEF SupportInv, EvaluatedInTurn, EvaluationProves, AllPassed, Shows
<1> QED
  BY <1>1, <1>2, SupportInvariant, PTL DEF SupportIsProven

-----------------------------------------------------------------------------
(* SupportRoute.  What was read was so when it was read, and what was so   *)
(* since the reading began is remembered.                                  *)

(* What a reading says was so at an instant since the reading began.       *)
ReadingInv ==
    /\ status \in [Versions -> {"missing", "creating", "active", "failed"}]
    /\ speaks \in [Versions -> BOOLEAN] /\ rules \in RuleSets /\ publishes \in BOOLEAN
    /\ reading \in [rules : RuleSets \cup {<<>>}, publishes : BOOLEAN, speaks : BOOLEAN,
                    status : {"missing", "creating", "active", "failed", Unread}]
    /\ stepping \in {"agent", "version", "decide", "verified", "error"}
    /\ stepping \in {"version", "decide", "verified"} =>
          (reading.rules = Sole(Deployed) /\ reading.publishes => wasRouted)
    /\ stepping \in {"decide", "verified"} =>
          (reading.status = "active" /\ reading.speaks => wasActive)
    /\ VerifiedWasSo

\* What others change does not undo what was so.
LEMMA ReadingInvariant == SupportRouteSpec => []ReadingInv
<1>1. SupportRouteInit => ReadingInv
  BY DEF SupportRouteInit, ReadingInv, VerifiedWasSo, Unread
<1>2. ReadingInv /\ [SupportRouteNext]_route => ReadingInv'
  <2> SUFFICES ASSUME ReadingInv, [SupportRouteNext]_route PROVE ReadingInv'
    OBVIOUS
  <2> USE DEF ReadingInv, VerifiedWasSo
  <2>1. CASE UNCHANGED route
    BY <2>1 DEF route
  <2>2. ASSUME Remember PROVE (wasRouted => wasRouted') /\ (wasActive => wasActive')
    BY <2>2 DEF Remember
  <2>3. CASE Reroute /\ Remember
    BY <2>3, <2>2 DEF Reroute
  <2>4. ASSUME NEW v \in Versions, Settle(v), Remember PROVE ReadingInv'
    BY <2>4, <2>2 DEF Settle
  <2>5. CASE ReadAgent /\ Remember
    <3>1. reading'.rules = Sole(Deployed) /\ reading'.publishes => wasRouted'
      BY <2>5 DEF ReadAgent, Remember
    <3>2. reading' \in [rules : RuleSets \cup {<<>>}, publishes : BOOLEAN, speaks : BOOLEAN,
                        status : {"missing", "creating", "active", "failed", Unread}]
      BY <2>5 DEF ReadAgent
    <3> QED
      BY <2>5, <3>1, <3>2 DEF ReadAgent
  <2>6. CASE ReadVersion /\ Remember
    <3>1. reading'.status = "active" /\ reading'.speaks => wasActive'
      BY <2>6 DEF ReadVersion, Remember
    <3>2. reading'.rules = reading.rules /\ reading'.publishes = reading.publishes
      BY <2>6 DEF ReadVersion
    <3>3. reading' \in [rules : RuleSets \cup {<<>>}, publishes : BOOLEAN, speaks : BOOLEAN,
                        status : {"missing", "creating", "active", "failed", Unread}]
      BY <2>6 DEF ReadVersion, Versions
    <3>4. stepping' \in {"error", "decide"} /\ stepping = "version"
      BY <2>6 DEF ReadVersion
    <3> QED
      BY <2>6, <2>2, <3>1, <3>2, <3>3, <3>4 DEF ReadVersion
  <2>7. CASE ReadFails /\ Remember
    BY <2>7, <2>2 DEF ReadFails
  <2>8. CASE Decide /\ Remember
    BY <2>8, <2>2 DEF Decide, Routed
  <2> QED
    BY <2>1, <2>3, <2>4, <2>5, <2>6, <2>7, <2>8 DEF SupportRouteNext
<1> QED
  BY <1>1, <1>2, PTL DEF SupportRouteSpec

(* What a verification reports was so while it read: the sole route with   *)
(* the protocol at one instant, the active version at another, whatever    *)
(* others deploy meanwhile (deployment.py:54).                             *)
THEOREM VerifiedTruly == SupportRouteSpec => []VerifiedWasSo
<1>1. ReadingInv => VerifiedWasSo
  BY DEF ReadingInv
<1> QED
  BY <1>1, ReadingInvariant, PTL
=============================================================================
