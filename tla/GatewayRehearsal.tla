-------------------------- MODULE GatewayRehearsal --------------------------
(***************************************************************************)
(* The Gateway rehearsal (demo.py): one request without a credential, one  *)
(* with, and then the diagnostic log is polled until both are found in it. *)
(* Rows arrive late and in any order, and a request may leave several.     *)
(***************************************************************************)
EXTENDS Naturals

CONSTANTS
    Statuses,   \* HTTP statuses of answers
    NoBackend   \* no backend was called

Probes == {"denied", "allowed"}
Facts == [status : Statuses, backend : Statuses \cup {NoBackend}]

VARIABLES
    stage,      \* the step the rehearsal is about to take, or how it ended
    fact,       \* fact[q]: what the Gateway did with request q
    answers,    \* answers[q]: the status request q was answered with
    shown       \* shown[q]: the rows of q in the diagnostic log, those of no other

gatewayRun == <<stage, fact, answers, shown>>

GatewayInit ==
    /\ stage = "preflight"
    /\ fact \in [Probes -> Facts]
    /\ answers = [q \in Probes |-> NoBackend]
    /\ shown = [q \in Probes |-> {}]

\* Boundary, governance, route and subscription are the expected ones.
Preflight ==
    /\ stage = "preflight" /\ stage' = "denied"
    /\ UNCHANGED <<fact, answers, shown>>

\* 401 without a credential; with one, 200 and the words asked for.
Wanted == [denied |-> 401, allowed |-> 200]
Following == [denied |-> "allowed", allowed |-> "logs"]

Send(q) ==
    /\ stage = q
    /\ answers' = [answers EXCEPT ![q] = fact[q].status]
    /\ stage' = IF fact[q].status = Wanted[q] THEN Following[q] ELSE "failed"
    /\ UNCHANGED <<fact, shown>>

\* A row tells the truth about the request whose correlation it has.
Log(q) ==
    /\ answers[q] # NoBackend
    /\ shown' = [shown EXCEPT ![q] = @ \cup {fact[q]}]
    /\ UNCHANGED <<stage, fact, answers>>

\* Mutant of Contradicts: where a refusal came from is not looked at.
ContradictsStatus(q) ==
    \E row \in shown[q] : row.status # answers[q]

Contradicts(q) ==
    \E row \in shown[q] :
        \/ row.status # answers[q]
        \/ answers[q] = 200 /\ row.backend # 200
        \/ answers[q] = 401 /\ row.backend # NoBackend

\* Both are found and nothing disagrees; until then it is polled again.
Poll ==
    /\ stage = "logs"
    /\ ~ \E q \in Probes : Contradicts(q)
    /\ \A q \in Probes : shown[q] # {}
    /\ stage' = "passed"
    /\ UNCHANGED <<fact, answers, shown>>

\* A check, a request or a row says otherwise, or the deadline is over.
Abandon ==
    /\ stage \notin {"passed", "failed"} /\ stage' = "failed"
    /\ UNCHANGED <<fact, answers, shown>>

GatewayNext ==
    Preflight \/ Poll \/ Abandon \/ \E q \in Probes : Send(q) \/ Log(q)

GatewaySpec == GatewayInit /\ [][GatewayNext]_gatewayRun

-----------------------------------------------------------------------------
(* The summary says "denied_before_backend" and "both_requests_correlated" *)
(* (demo.py:185-194): that is what happened, and the log has shown it.     *)
PassedMeansGuarded ==
    stage = "passed" =>
        /\ fact["denied"].status = 401 /\ fact["denied"].backend = NoBackend
        /\ fact["allowed"].status = 200 /\ fact["allowed"].backend = 200
        /\ \A q \in Probes : shown[q] = {fact[q]}
=============================================================================
