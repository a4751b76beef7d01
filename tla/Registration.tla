---------------------------- MODULE Registration ----------------------------
(***************************************************************************)
(* Registration of the external Field agent (field/register.py): a         *)
(* registrant queries Application Insights for the smoke run its operator  *)
(* names, and creates an agent version only if every span of that run      *)
(* carries the agent's telemetry id.  Spans arrive one by one.             *)
(***************************************************************************)
EXTENDS Naturals, FiniteSets, Sequences

CONSTANTS
    Registrants,    \* the processes, each given one correlation by its operator
    Named,          \* Named[q]: the correlation of the smoke run q is to rest on
    Spans,          \* what may be recorded: [operation, smoke, agent, id]
    Enrichment,     \* Enrichment[o]: the id the process of operation o adds where
                    \* there is none, or Unset where it is told not to
    AgentId,        \* the telemetry id the agent is to be registered with
    Unset           \* no value

VARIABLES
    log,        \* the spans Application Insights has by now
    registrant, \* registrant[q]: the step q is about to take, or how it ended
    summary,    \* summary[q]: the spans its query summarised
    versions,   \* the agent's versions, in order: who made each, with what id
    told        \* told[q]: the version number q was told

registration == <<log, registrant, summary, versions, told>>

RegistrationInit ==
    /\ log = {} /\ versions = <<>>
    /\ registrant = [q \in Registrants |-> "boundary"]
    /\ summary = [q \in Registrants |-> {}]
    /\ told = [q \in Registrants |-> Unset]

Advance(q, from, to) == registrant[q] = from /\ registrant' = [registrant EXCEPT ![q] = to]

\* The span processor completes the agent's own spans only, and changes no id.
OnStart(s) ==
    IF s.agent /\ s.id = Unset THEN [s EXCEPT !.id = Enrichment[s.operation]] ELSE s

Arrive(s) ==
    /\ OnStart(s) \notin log
    /\ log' = log \cup {OnStart(s)}
    /\ UNCHANGED <<registrant, summary, versions, told>>

\* The boundary is clean, the target is the declared one, and the flags agree.
CheckTarget(q) ==
    /\ Advance(q, "boundary", "query")
    /\ UNCHANGED <<log, summary, versions, told>>

\* The operations the named smoke run is found in, and the agent's spans there.
SmokeOperations(q) == {s.operation : s \in {t \in log : t.smoke = Named[q]}}
Found(q) == {s \in log : s.agent /\ s.operation \in SmokeOperations(q)}

Query(q) ==
    /\ Advance(q, "query", "verify")
    /\ summary' = [summary EXCEPT ![q] = Found(q)]
    /\ UNCHANGED <<log, versions, told>>

\* Mutant of Attributed: spans without an id do not count.
AttributedWhereSet(found) ==
    /\ found # {} /\ Cardinality({s.operation : s \in found}) = 1
    /\ {s.id : s \in found} \ {Unset} = {AgentId}

\* One operation, some spans, and every one of them with the agent's id.
Attributed(found) ==
    /\ found # {} /\ Cardinality({s.operation : s \in found}) = 1
    /\ {s.id : s \in found} = {AgentId}

VerifyTelemetry(q, register) ==
    /\ Attributed(summary[q])
    /\ Advance(q, "verify", IF register THEN "create" ELSE "verified")
    /\ UNCHANGED <<log, summary, versions, told>>

\* The version exists from here on; the reply, with its number, may be lost.
Create(q) ==
    /\ \/ /\ Advance(q, "create", "readBack")
          /\ told' = [told EXCEPT ![q] = Len(versions) + 1]
       \/ Advance(q, "create", "failed") /\ UNCHANGED told
    /\ versions' = Append(versions, [by |-> q, id |-> AgentId])
    /\ UNCHANGED <<log, summary>>

\* The version is read by its number and must be what was created.
ReadBack(q) ==
    /\ Advance(q, "readBack", "accepted")
    /\ versions[told[q]] = [by |-> q, id |-> AgentId]
    /\ UNCHANGED <<log, summary, versions, told>>

\* A gate, a query or a call fails: nothing is undone.
GiveUp(q) ==
    /\ registrant[q] \notin {"accepted", "verified", "failed"}
    /\ registrant' = [registrant EXCEPT ![q] = "failed"]
    /\ UNCHANGED <<log, summary, versions, told>>

RegistrationNext ==
    \/ \E s \in Spans : Arrive(s)
    \/ \E q \in Registrants :
          \/ CheckTarget(q) \/ Query(q) \/ \E register \in BOOLEAN : VerifyTelemetry(q, register)
          \/ Create(q) \/ ReadBack(q) \/ GiveUp(q)

RegistrationSpec == RegistrationInit /\ [][RegistrationNext]_registration

-----------------------------------------------------------------------------
Smoked(q) == {s \in log : s.smoke = Named[q]}

(* A version is made only by a registrant whose run really happened and    *)
(* left spans of the agent with its id, all of the run's spans the query   *)
(* could see among them (register.py:91-110).                              *)
RegisteredOnEvidence ==
    \A n \in 1 .. Len(versions) :
        LET q == versions[n].by IN
        /\ Smoked(q) # {}
        /\ summary[q] # {} /\ summary[q] \subseteq log
        /\ \A s \in summary[q] : s.id = versions[n].id

(* What a registrant reports as registered is the version it made itself,  *)
(* though others register at the same time (register.py:201-213).          *)
AcceptedIsOwn ==
    \A q \in Registrants : registrant[q] = "accepted" =>
        told[q] \in 1 .. Len(versions) /\ versions[told[q]].by = q

(* What a registrant reports rests on its own run's evidence, and is the   *)
(* version it made on it, however the registrants interleave.              *)
RegistrationIsOwn == RegisteredOnEvidence /\ AcceptedIsOwn
=============================================================================
