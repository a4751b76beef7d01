---------------------------- MODULE SupportRoute ----------------------------
(***************************************************************************)
(* The verification of a deployed Support version (deployment.py): the     *)
(* agent and the version are read one after the other, while deployments   *)
(* of others create versions, activate them and change the route.          *)
(***************************************************************************)
EXTENDS Naturals, Sequences

CONSTANTS
    Deployed,   \* the version that was deployed
    Others,     \* bound: versions others deploy
    MaxChanges  \* bound: what others do

VARIABLES
    status,     \* status[v]: "missing", "creating", "active" or "failed"
    speaks,     \* speaks[v]: whether the definition has Responses 2.0.0
    rules,      \* the route: a sequence of [version, share]
    publishes,  \* whether the endpoint publishes the Responses protocol
    changes,    \* changes so far
    reading,    \* the agent as read, then the version
    stepping,   \* "agent", "version", "decide", "verified", "error"
    wasRouted,  \* history: the deployed version was the route since the reading began
    wasActive   \* history: it was active, and spoke Responses

route == <<status, speaks, rules, publishes, changes, reading, stepping, wasRouted, wasActive>>

Versions == {Deployed} \cup Others
Sole(version) == <<[version |-> version, share |-> 100]>>
RuleSets == {Sole(v) : v \in Versions}
            \cup {<<[version |-> Deployed, share |-> 90], [version |-> v, share |-> 10]>> : v \in Others}

Unread == "nothing"

SupportRouteInit ==
    /\ status \in [Versions -> {"missing", "creating", "active"}]
    /\ speaks \in [Versions -> BOOLEAN]
    /\ rules \in RuleSets /\ publishes \in BOOLEAN
    /\ changes = 0 /\ stepping = "agent" /\ reading = [rules |-> <<>>, publishes |-> FALSE,
                                                       status |-> Unread, speaks |-> FALSE]
    /\ wasRouted = FALSE /\ wasActive = FALSE

-----------------------------------------------------------------------------
(* Others *)

Changed == changes < MaxChanges /\ changes' = changes + 1

Reroute ==
    /\ Changed /\ rules' \in RuleSets \ {rules}
    /\ UNCHANGED <<status, speaks, publishes, reading, stepping>>

Settle(v) ==
    /\ Changed /\ status[v] \in {"creating", "active"}
    /\ \E s \in {"active", "failed"} \ {status[v]} : status' = [status EXCEPT ![v] = s]
    /\ UNCHANGED <<speaks, rules, publishes, reading, stepping>>

-----------------------------------------------------------------------------
(* verify_deployment *)

ReadAgent ==
    /\ stepping = "agent" /\ stepping' = "version"
    /\ reading' = [reading EXCEPT !.rules = rules, !.publishes = publishes]
    /\ UNCHANGED <<status, speaks, rules, publishes, changes>>

ReadVersion ==
    /\ stepping = "version" /\ stepping' = IF status[Deployed] = "missing" THEN "error" ELSE "decide"
    /\ reading' = [reading EXCEPT !.status = status[Deployed], !.speaks = speaks[Deployed]]
    /\ UNCHANGED <<status, speaks, rules, publishes, changes>>

\* The Azure CLI fails in one of the reads.
ReadFails ==
    /\ stepping \in {"agent", "version"} /\ stepping' = "error"
    /\ UNCHANGED <<status, speaks, rules, publishes, changes, reading>>

\* Mutant of Routed: a rule of the deployed version is enough.
RoutedAmong(read) == \E i \in DOMAIN read : read[i].version = Deployed

\* The rule of the deployed version is the only one, with all of the traffic.
Routed(read) == read = Sole(Deployed)

Decide ==
    /\ stepping = "decide"
    /\ stepping' = IF reading.status = "active" /\ reading.speaks /\ Routed(reading.rules) /\ reading.publishes
                   THEN "verified" ELSE "error"
    /\ UNCHANGED <<status, speaks, rules, publishes, changes, reading>>

\* History: what was true at an instant between the start and the last read.
Remember ==
    LET during == stepping \in {"agent", "version"} IN
    /\ wasRouted' = (wasRouted \/ (during /\ rules = Sole(Deployed) /\ publishes))
    /\ wasActive' = (wasActive \/ (during /\ status[Deployed] = "active" /\ speaks[Deployed]))

SupportRouteNext ==
    /\ Reroute \/ (\E v \in Versions : Settle(v)) \/ ReadAgent \/ ReadVersion \/ ReadFails \/ Decide
    /\ Remember

SupportRouteSpec == SupportRouteInit /\ [][SupportRouteNext]_route

-----------------------------------------------------------------------------
(* "Verify version status, Responses protocol, and the sole 100% route"    *)
(* (deployment.py:54): what the evidence says was so while it was          *)
(* gathered, the route and the status each at an instant of its own.       *)
VerifiedWasSo == stepping = "verified" => wasRouted /\ wasActive
=============================================================================
