------------------------------ MODULE ToolLoop ------------------------------
(***************************************************************************)
(* The callback loop of the Travel agent (TravelAgentRuntime): the model   *)
(* asks for tool calls, the runtime executes them one by one on its        *)
(* Toolbox and sends the outputs back, for at most MaxRounds rounds.       *)
(***************************************************************************)
EXTENDS Naturals, Sequences

CONSTANTS
    MaxRounds,  \* max_tool_rounds
    MaxAsked,   \* bound: calls in one response
    MaxPrompts  \* bound: turns of one runtime

VARIABLES
    prompts,    \* how many turns were begun
    mode,       \* "rest", "model" while a response is awaited, or "tools"
    round,      \* the rounds of this turn so far
    asked,      \* the calls of the last response that are still to be made
    trail,      \* the Toolbox's audit: whether each call succeeded
    listed,     \* executed_calls: positions in the audit
    answered    \* how the last turn ended

looping == <<prompts, mode, round, asked, trail, listed, answered>>

LoopInit ==
    /\ prompts = 0 /\ mode = "rest" /\ round = 0 /\ asked = 0
    /\ trail = <<>> /\ listed = <<>> /\ answered = "none"

Prompt ==
    /\ mode = "rest" /\ prompts < MaxPrompts
    /\ prompts' = prompts + 1 /\ mode' = "model" /\ round' = 0
    /\ UNCHANGED <<asked, trail, listed, answered>>

EndTurn(result) == mode' = "rest" /\ answered' = result

\* Mutant of Respond: a response with neither text nor calls is sent back.
RespondEmpty(calls) ==
    /\ mode = "model" /\ UNCHANGED <<prompts, trail, listed>>
    /\ CASE calls = 0 -> /\ \/ EndTurn("text") /\ UNCHANGED asked
                            \/ mode' = "tools" /\ asked' = 0 /\ UNCHANGED answered
                         /\ UNCHANGED round
         [] calls > 0 /\ round = MaxRounds -> EndTurn("error") /\ UNCHANGED <<round, asked>>
         [] OTHER -> /\ mode' = "tools" /\ asked' = calls /\ round' = round + 1
                     /\ UNCHANGED answered

\* Without calls the text ends the turn, if there is any; the response after the
\* last round may not ask for more.
Respond(calls) ==
    /\ mode = "model" /\ UNCHANGED <<prompts, trail, listed>>
    /\ CASE calls = 0 -> /\ \E result \in {"text", "error"} : EndTurn(result)
                         /\ UNCHANGED <<round, asked>>
         [] calls > 0 /\ round = MaxRounds -> EndTurn("error") /\ UNCHANGED <<round, asked>>
         [] OTHER -> /\ mode' = "tools" /\ asked' = calls /\ round' = round + 1
                     /\ UNCHANGED answered

\* Mutant of Execute: a call is listed before it is made.
ExecuteListed ==
    /\ mode = "tools" /\ asked > 0
    /\ \E success \in BOOLEAN :
          /\ trail' = Append(trail, success) /\ listed' = Append(listed, Len(trail) + 1)
          /\ IF success THEN asked' = asked - 1 /\ UNCHANGED <<mode, answered>>
             ELSE EndTurn("error") /\ asked' = 0
    /\ UNCHANGED <<prompts, round>>

\* The Toolbox audits every call, the runtime lists those that returned; an
\* exception ends the turn and the calls that were still to be made.
Execute ==
    /\ mode = "tools" /\ asked > 0
    /\ \E success \in BOOLEAN :
          /\ trail' = Append(trail, success)
          /\ IF success THEN /\ asked' = asked - 1 /\ listed' = Append(listed, Len(trail) + 1)
                             /\ UNCHANGED <<mode, answered>>
             ELSE EndTurn("error") /\ asked' = 0 /\ UNCHANGED listed
    /\ UNCHANGED <<prompts, round>>

\* Arguments that are malformed or name a scope never reach the Toolbox.
RefuseArguments ==
    /\ mode = "tools" /\ asked > 0
    /\ EndTurn("error") /\ asked' = 0
    /\ UNCHANGED <<prompts, round, trail, listed>>

SendOutputs ==
    /\ mode = "tools" /\ asked = 0 /\ mode' = "model"
    /\ UNCHANGED <<prompts, round, asked, trail, listed, answered>>

Work ==
    \/ \E calls \in 0 .. MaxAsked : Respond(calls)
    \/ Execute \/ RefuseArguments \/ SendOutputs

LoopNext == Prompt \/ Work

LoopSpec == LoopInit /\ [][LoopNext]_looping /\ WF_looping(Work)

-----------------------------------------------------------------------------
(* executed_calls is the audit without its failures, in order, over all    *)
(* turns: an example that shows it shows what the Toolbox did.             *)
ListedWereExecuted ==
    /\ \A i \in DOMAIN listed : trail[listed[i]]
    /\ \A i, j \in DOMAIN listed : i < j => listed[i] < listed[j]
    /\ \A n \in DOMAIN trail : trail[n] => \E i \in DOMAIN listed : listed[i] = n

(* A turn ends although the model may always want another tool.            *)
TurnEnds == (mode # "rest") ~> (mode = "rest")
=============================================================================
