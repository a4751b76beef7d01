-------------------------------- MODULE Turn --------------------------------
(***************************************************************************)
(* Turns of the Travel agent (runtime.py, service.py).  One runtime asks   *)
(* several times; the platform calls the tool service, whose answers may   *)
(* be lost, and replies with items that claim what was called.  A turn     *)
(* that checks out leaves the calls as evidence for whoever grades it.     *)
(***************************************************************************)
EXTENDS Naturals, Sequences

CONSTANTS
    Tools,      \* the tools of the agent's definition
    Operations, \* SAFE_OPERATIONS of the service
    Names,      \* names items may have
    Means,      \* Means[n]: the tools n is the name of, or ends with
    MaxTurns,   \* bound: turns of one runtime
    MaxItems,   \* bound: items of one response
    Silence     \* no response

ASSUME MeansAssumption == Means \in [Names -> SUBSET Tools]

VARIABLES
    turn,       \* how many turns were begun
    turnStage,  \* "idle", or "asked" while the platform works on a turn
    reported,   \* what the platform did in this turn, as it will report it
    served,     \* the operations the service answered in this turn, with the status
    response,   \* the response the runtime shows: the turn it is of
    executed,   \* the calls the runtime shows as executed
    verdict     \* how the last turn ended

turns == <<turn, turnStage, reported, served, response, executed, verdict>>

TurnInit ==
    /\ turn = 0 /\ turnStage = "idle" /\ reported = <<>> /\ served = <<>>
    /\ response = Silence /\ executed = <<>> /\ verdict = "none"

-----------------------------------------------------------------------------
(* The tool service *)

Arguments == {"fine", "malformed", "scoped"}

\* The order of the checks: the key, the request, then the operation.  The
\* Toolbox refuses what its contract does not declare, and whatever else is raised while
\* it works is the service's own error.
Status(key, request, operation, arguments) ==
    CASE ~ key                       -> {401}
      [] ~ request                   -> {400}
      [] operation \notin Operations -> {400}
      [] arguments # "fine"          -> {400}
      [] OTHER                       -> {200, 500}

-----------------------------------------------------------------------------
(* The runtime and the platform *)

\* A turn that is refused leaves nothing of an earlier one, too.
Refused ==
    /\ verdict' = "error" /\ response' = Silence /\ executed' = <<>>
    /\ UNCHANGED <<turnStage, reported, served>>

\* Mutant of Begin: the evidence stays until there is other evidence.
BeginKeeping(prompt) ==
    /\ turnStage = "idle" /\ turn < MaxTurns
    /\ turn' = turn + 1
    /\ \/ ~ prompt /\ verdict' = "error" /\ UNCHANGED <<turnStage, reported, served, response, executed>>
       \/ /\ prompt
          /\ turnStage' = "asked" /\ reported' = <<>> /\ served' = <<>>
          /\ UNCHANGED <<response, executed, verdict>>

\* An empty prompt, version or continuation is refused after the reset.
Begin(prompt) ==
    /\ turnStage = "idle" /\ turn < MaxTurns
    /\ turn' = turn + 1
    /\ \/ ~ prompt /\ Refused
       \/ /\ prompt
          /\ turnStage' = "asked" /\ reported' = <<>> /\ served' = <<>>
          /\ response' = Silence /\ executed' = <<>> /\ verdict' = "none"

\* The platform calls the service under one of the names; an answer, whatever its
\* status, completes the call, and its output is reported unless it was lost.
ServeCall(name, operation, arguments, key, request) ==
    /\ turnStage = "asked" /\ Len(reported) < MaxItems
    /\ operation \in Means[name] \/ Means[name] = {}
    /\ \E status \in Status(key, request, operation, arguments) :
          served' = Append(served, [operation |-> operation, status |-> status])
    /\ \E completed, output \in BOOLEAN :
          reported' = Append(reported, [kind |-> "call", name |-> name, arguments |-> arguments,
                                        completed |-> completed, output |-> completed /\ output])
    /\ UNCHANGED <<turn, turnStage, response, executed, verdict>>

\* The service is not reached.
LoseCall(name) ==
    /\ turnStage = "asked" /\ Len(reported) < MaxItems
    /\ \E completed \in BOOLEAN :
          reported' = Append(reported, [kind |-> "call", name |-> name, arguments |-> "fine",
                                        completed |-> completed, output |-> FALSE])
    /\ UNCHANGED <<turn, turnStage, served, response, executed, verdict>>

AskBack(name) ==
    /\ turnStage = "asked" /\ Len(reported) < MaxItems
    /\ reported' = Append(reported, [kind |-> "callback", name |-> name, arguments |-> "fine",
                                     completed |-> TRUE, output |-> FALSE])
    /\ UNCHANGED <<turn, turnStage, served, response, executed, verdict>>

\* The request to the model fails: no response, and no evidence.
Fail ==
    /\ turnStage = "asked" /\ turnStage' = "idle" /\ verdict' = "error"
    /\ UNCHANGED <<turn, reported, served, response, executed>>

\* _operation_name: the one tool whose name the item's name is or ends with.
Named(name) == \E tool \in Tools : Means[name] \cap Tools = {tool}
OperationName(name) == CHOOSE tool \in Tools : tool \in Means[name]

\* A call is completed, has a completed output, and names no scope.
Valid(item) ==
    /\ item.kind = "call" /\ item.completed /\ item.output
    /\ item.arguments = "fine" /\ Named(item.name)

\* The response is shown even when its validation fails, its calls are not.
Reply(text) ==
    /\ turnStage = "asked" /\ turnStage' = "idle"
    /\ response' = turn
    /\ IF text /\ \A i \in DOMAIN reported : Valid(reported[i])
       THEN /\ verdict' = "ok"
            /\ executed' = [i \in DOMAIN reported |-> OperationName(reported[i].name)]
       ELSE verdict' = "error" /\ UNCHANGED executed
    /\ UNCHANGED <<turn, reported, served>>

TurnNext ==
    \/ \E prompt \in BOOLEAN : Begin(prompt)
    \/ \E name \in Names :
          \/ LoseCall(name) \/ AskBack(name)
          \/ \E operation \in Operations \cup Tools, arguments \in Arguments, key, request \in BOOLEAN :
                ServeCall(name, operation, arguments, key, request)
    \/ Fail
    \/ \E text \in BOOLEAN : Reply(text)

TurnSpec == TurnInit /\ [][TurnNext]_turns

-----------------------------------------------------------------------------
(* "Failed turns must not leave a previous turn's successful evidence      *)
(* visible" (runtime.py:177): what the runtime shows between turns is of   *)
(* the last one, and calls are shown only if that turn was good.           *)
EvidenceIsOfThisTurn ==
    turnStage = "idle" => /\ response \in {Silence, turn}
                          /\ executed # <<>> => verdict = "ok"

(* The calls of a good turn are the operations the tool service answered   *)
(* in it, in their order: none is claimed that was lost, none is missing.  *)
EvidenceWasServed ==
    verdict = "ok" => executed = [i \in DOMAIN served |-> served[i].operation]

(* Between turns the runtime shows no evidence of an earlier turn, and as  *)
(* executed what was served in this one (runtime.py:177).                  *)
TurnEvidenceIsTrue == EvidenceIsOfThisTurn /\ EvidenceWasServed
=============================================================================
