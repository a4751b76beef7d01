------------------------------- MODULE Support -------------------------------
(***************************************************************************)
(* The Support agent (support_agent/): hosted, concurrent requests pass    *)
(* intake, investigation and review, and each tool call of an              *)
(* investigation opens a session of its own for the principal the          *)
(* deployment fixed; evaluated, the scenarios make the same calls one      *)
(* after the other, each for a principal of its own.                       *)
(***************************************************************************)
EXTENDS Naturals, Sequences, FiniteSets

CONSTANTS
    HostedRequests, \* bound: the requests that are hosted
    SupportCases,   \* the support cases
    Region,         \* Region[case]
    Directory,      \* Directory[oid]: the regions of an identity
    Bindings,       \* bound: the oids a deployment may be bound to
    Mapping,        \* Mapping[user]: the oid of a user of the evaluation
    Scenarios,      \* bound: [user, tool, case, expect] the evaluation runs
    SupportTools,   \* SUPPORT_TOOL_NAMES
    OtherTools,     \* bound: tools of the Toolbox that are not among them
    MaxCalls,       \* bound: tool calls of one investigation
    NoOne           \* no user, no principal, no row

\* NoOne is no oid and no case; the scenarios are a list, over the cases of the store.
ASSUME SupportAssumption ==
    /\ NoOne \notin DOMAIN Directory /\ NoOne \notin SupportCases
    /\ Scenarios \in Seq({Scenarios[i] : i \in DOMAIN Scenarios})
    /\ \A i \in DOMAIN Scenarios : Scenarios[i].case \in SupportCases

VARIABLES
    hosting,        \* "hosted" or "evaluation"
    binding,        \* the oid the deployment is bound to
    intact,         \* whether the database is there and, hosted, has its packaged digest
    station,        \* the stage of each request
    findings,       \* what each investigation was told: [case, row]
    calling,        \* the tool call each caller has under way, NoOne or [case, oid]
    user,           \* the evaluation's current user, a context variable
    scenario,       \* the scenario the evaluation is at
    outcomes        \* the results of the evaluation, in order

support == <<hosting, binding, intact, station, findings, calling, user, scenario, outcomes>>

Evaluator == "evaluator"
Callers == HostedRequests \cup {Evaluator}

SupportInit ==
    /\ hosting \in {"hosted", "evaluation"} /\ binding \in Bindings /\ intact \in BOOLEAN
    /\ station = [r \in HostedRequests |-> "new"] /\ findings = [r \in HostedRequests |-> <<>>]
    /\ calling = [c \in Callers |-> NoOne]
    /\ user = NoOne /\ scenario = 0 /\ outcomes = <<>>

-----------------------------------------------------------------------------
(* A session: resolve, connect, call, close. *)

\* The one row of the case, if an identity of these regions sees it.
Lookup(oid, case) == IF Region[case] \in Directory[oid] THEN case ELSE NoOne

\* RequestIdentityBinding.resolve: a hosted request is the deployment's principal, the
\* evaluation's its current user's, if there is one.
Principal ==
    IF hosting = "hosted" THEN binding
    ELSE IF user # NoOne /\ user \in DOMAIN Mapping THEN Mapping[user] ELSE NoOne

Rest(c) == calling' = [calling EXCEPT ![c] = NoOne]

\* The connection is open while the Toolbox resolves its scope and works.
Connect(c, case) ==
    /\ calling[c] = NoOne /\ Principal # NoOne /\ intact
    /\ calling' = [calling EXCEPT ![c] = [case |-> case, oid |-> Principal]]

-----------------------------------------------------------------------------
(* Hosted *)

Enters(r, from, to) == station[r] = from /\ station' = [station EXCEPT ![r] = to]

\* An oid that is malformed stops the server before it takes requests; here all are well
\* formed, though the directory may not know them.
Intake(r) ==
    /\ hosting = "hosted" /\ Enters(r, "new", "investigation")
    /\ UNCHANGED <<hosting, binding, intact, findings, calling, user, scenario, outcomes>>

Finds(r, case, row) ==
    findings' = [findings EXCEPT ![r] = Append(@, [case |-> case, row |-> row])]

\* The dispatcher refuses other tools, the binding a request without a call id of the
\* platform (trusted), and a database that is not intact refuses all: the investigator is
\* told so, and goes on.
AskTool(r, tool, case, trusted) ==
    /\ hosting = "hosted" /\ station[r] = "investigation" /\ calling[r] = NoOne
    /\ Len(findings[r]) < MaxCalls
    /\ IF tool \in SupportTools /\ trusted /\ intact THEN Connect(r, case) /\ UNCHANGED findings
       ELSE Finds(r, case, NoOne) /\ UNCHANGED calling
    /\ UNCHANGED <<hosting, binding, intact, station, user, scenario, outcomes>>

\* The session's connection is closed whether the scope is resolved or not.
Answer(r) ==
    /\ hosting = "hosted" /\ calling[r] # NoOne
    /\ LET oid == calling[r].oid IN
       Finds(r, calling[r].case,
             IF oid \in DOMAIN Directory THEN Lookup(oid, calling[r].case) ELSE NoOne)
    /\ Rest(r)
    /\ UNCHANGED <<hosting, binding, intact, station, user, scenario, outcomes>>

\* The reviewer has the investigation's last word, and gives the answer.
Review(r) ==
    /\ calling[r] = NoOne /\ Enters(r, "investigation", "reviewed")
    /\ UNCHANGED <<hosting, binding, intact, findings, calling, user, scenario, outcomes>>

\* An agent of the workflow fails, and the request with it.
Break(r) ==
    /\ calling[r] = NoOne /\ station[r] \in {"new", "investigation"} /\ hosting = "hosted"
    /\ station' = [station EXCEPT ![r] = "broken"]
    /\ UNCHANGED <<hosting, binding, intact, findings, calling, user, scenario, outcomes>>

-----------------------------------------------------------------------------
(* Evaluated *)

Here == Scenarios[scenario]
Evaluating == hosting = "evaluation" /\ scenario \in DOMAIN Scenarios /\ calling[Evaluator] = NoOne

\* The user of the scenario before was reset; this one's is set, and may be none.
NextScenario ==
    /\ hosting = "evaluation" /\ Len(outcomes) = scenario /\ scenario < Len(Scenarios)
    /\ scenario' = scenario + 1 /\ user' = Scenarios[scenario + 1].user
    /\ UNCHANGED <<hosting, binding, intact, station, findings, calling, outcomes>>

Conclude(good) ==
    /\ outcomes' = Append(outcomes, IF good THEN "passed" ELSE "error")
    /\ user' = NoOne

\* The session is opened, or the call ends before there is one: a user without a principal
\* is what such a scenario expects, a database that is missing never is.
Call ==
    /\ Evaluating /\ Len(outcomes) < scenario
    /\ IF Principal # NoOne /\ intact
       THEN Connect(Evaluator, Here.case) /\ UNCHANGED <<outcomes, user>>
       ELSE Conclude(Principal = NoOne /\ Here.expect = "error") /\ UNCHANGED calling
    /\ UNCHANGED <<hosting, binding, intact, station, findings, scenario>>

\* Mutant of AsExpected: a row is evidence, whatever was expected.
AsExpectedWithRow(oid, row) ==
    \/ oid \notin DOMAIN Directory /\ Here.expect = "error"
    \/ oid \in DOMAIN Directory /\ Here.expect # "error" /\ (row = Here.case \/ Here.expect = "null")

\* The expected error, no row, or the row.
AsExpected(oid, row) ==
    CASE oid \notin DOMAIN Directory -> Here.expect = "error"
      [] oid \in DOMAIN Directory /\ Here.expect = "null" -> row = NoOne
      [] oid \in DOMAIN Directory /\ Here.expect = "row"  -> row = Here.case
      [] OTHER -> FALSE

Judge ==
    /\ hosting = "evaluation" /\ calling[Evaluator] # NoOne
    /\ LET oid == calling[Evaluator].oid IN
       Conclude(AsExpected(oid, IF oid \in DOMAIN Directory THEN Lookup(oid, Here.case) ELSE NoOne))
    /\ Rest(Evaluator)
    /\ UNCHANGED <<hosting, binding, intact, station, findings, scenario>>

\* The first scenario that is not as expected ends the evaluation.
AllPassed == \A i \in DOMAIN outcomes : outcomes[i] = "passed"

Host ==
    \E r \in HostedRequests :
        \/ Intake(r) \/ Answer(r) \/ Review(r) \/ Break(r)
        \/ \E tool \in SupportTools \cup OtherTools, case \in SupportCases, trusted \in BOOLEAN :
              AskTool(r, tool, case, trusted)

SupportNext == Host \/ (AllPassed /\ (NextScenario \/ Call \/ Judge))

SupportSpec == SupportInit /\ [][SupportNext]_support

-----------------------------------------------------------------------------
(* "binds every request to the least-privilege principal fixed in          *)
(* deployment configuration" (identity.py:94): an investigation is told of *)
(* no row that principal does not see, by no tool and in no interleaving   *)
(* with other requests.                                                    *)
FindingsInScope ==
    \A r \in HostedRequests : \A i \in DOMAIN findings[r] :
        findings[r][i].row # NoOne =>
            binding \in DOMAIN Directory /\ Region[findings[r][i].row] \in Directory[binding]

(* "so CI cannot report a success-shaped evaluation" (evaluation.py:79):   *)
(* scenarios that have passed were run on a database that is there,        *)
(* and each expectation is true of the user it names.                      *)
EvaluationProves ==
    AllPassed => \A i \in DOMAIN outcomes :
        LET s == Scenarios[i]
            known == s.user # NoOne /\ s.user \in DOMAIN Mapping /\ Mapping[s.user] \in DOMAIN Directory
        IN  /\ s.expect = "error" => ~ known
            /\ s.expect # "error" => intact /\ known
            /\ s.expect = "null" => Region[s.case] \notin Directory[Mapping[s.user]]
            /\ s.expect = "row" => Region[s.case] \in Directory[Mapping[s.user]]

(* An investigation sees what its principal does, and what an evaluation   *)
(* reports was so.                                                         *)
SupportIsProven == FindingsInScope /\ EvaluationProves
=============================================================================
