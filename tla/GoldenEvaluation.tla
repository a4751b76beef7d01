-------------------------- MODULE GoldenEvaluation --------------------------
(***************************************************************************)
(* The golden evaluation of a Travel candidate (evaluation.py): every row  *)
(* of the golden set is put to the candidate, the answers become samples   *)
(* of an evaluation run of the platform, and the run is polled until it is *)
(* terminal or the deadline has passed.                                    *)
(***************************************************************************)
EXTENDS Integers, Sequences, FiniteSets

CONSTANTS
    Rows,       \* the golden set: [include, exclude, expected]
    Replies,    \* bound: what the candidate may answer, [says, calls]
    Absent,     \* the value of an argument that is not given
    ByServer,   \* server_executed: an answer may do without tools
    Deadline,   \* timeout_seconds, in ticks of the clock
    Interval    \* poll_seconds

IsSequence(s) == s \in Seq({s[i] : i \in DOMAIN s})

\* Rows and calls come in an order.
ASSUME GoldenAssumption ==
    /\ IsSequence(Rows) /\ \A i \in DOMAIN Rows : IsSequence(Rows[i].expected)
    /\ \A reply \in Replies : IsSequence(reply.calls)

VARIABLES
    samples,    \* the samples collected, in the order of the rows
    progress,   \* the run of the platform, "none" before it is created
    grades,     \* the platform's grade of every sample of a completed run
    seen,       \* the status the evaluation read last
    timer,      \* the time since the run was created
    step,       \* "collect", "check", "sleep", "items"
    ended       \* how the evaluation ended

golden == <<samples, progress, grades, seen, timer, step, ended>>

Terminal == {"completed", "failed", "canceled"}

GoldenInit ==
    /\ samples = <<>> /\ progress = "none" /\ grades = <<>> /\ seen = "none"
    /\ timer = 0 /\ step = "collect" /\ ended = "none"

End(how) == step' = "ended" /\ ended' = how

-----------------------------------------------------------------------------
(* The samples *)

Argument(call, name) == IF name \in DOMAIN call.arguments THEN call.arguments[name] ELSE Absent

\* tool_calls_match: the same calls in order, each with the expected arguments at
\* least.
CallsMatch(actual, expected) ==
    /\ Len(actual) = Len(expected)
    /\ \A i \in DOMAIN expected :
          /\ actual[i].name = expected[i].name
          /\ \A n \in DOMAIN expected[i].arguments :
                Argument(actual[i], n) = expected[i].arguments[n]

\* eval_item: the three results the string checks of the run are about.
EvalItem(row, reply) ==
    [safety |-> row.exclude \cap reply.says = {},
     task   |-> row.include \subseteq reply.says,
     tool   |-> CallsMatch(reply.calls, row.expected)]

Collect(reply) ==
    /\ step = "collect" /\ Len(samples) < Len(Rows)
    /\ IF reply.calls = <<>> /\ ~ ByServer THEN End("error") /\ UNCHANGED samples
       ELSE samples' = Append(samples, reply) /\ UNCHANGED <<step, ended>>
    /\ UNCHANGED <<progress, grades, seen, timer>>

\* The candidate does not answer, or the platform fails to create the evaluation or its
\* run, to retrieve it or to list its items: the evaluation ends with the exception.
RequestFails ==
    /\ step \in {"collect", "sleep", "items"}
    /\ End("error") /\ UNCHANGED <<samples, progress, grades, seen, timer>>

CreateRun ==
    /\ step = "collect" /\ Len(samples) = Len(Rows)
    /\ IF samples = <<>> THEN End("error") /\ UNCHANGED <<progress, seen>>
       ELSE /\ progress' = "queued" /\ seen' = "queued" /\ step' = "check"
            /\ UNCHANGED ended
    /\ UNCHANGED <<samples, grades, timer>>

-----------------------------------------------------------------------------
(* The platform *)

\* A sample passes when the judge and the three string checks do; the judge may
\* not come to a label.
GradesOf(i) ==
    LET item == EvalItem(Rows[i], samples[i]) IN
    IF item.safety /\ item.task /\ item.tool THEN {"passed", "failed", "errored"}
    ELSE {"failed", "errored"}

Advance ==
    /\ progress \in {"queued", "in_progress"}
    /\ \/ progress' \in {"in_progress", "failed", "canceled"} \ {progress} /\ UNCHANGED grades
       \/ /\ progress' = "completed"
          /\ \E g \in [DOMAIN samples -> {"passed", "failed", "errored"}] :
                /\ \A i \in DOMAIN samples : g[i] \in GradesOf(i)
                /\ grades' = g
    /\ UNCHANGED <<samples, seen, timer, step, ended>>

-----------------------------------------------------------------------------
(* Polling *)

\* A status that is terminal counts, however late it was read.
Check ==
    /\ step = "check"
    /\ CASE seen = "completed" -> step' = "items" /\ UNCHANGED ended
         [] seen \in Terminal \ {"completed"} -> End("error")
         [] seen \notin Terminal /\ timer >= Deadline -> End("timeout")
         [] OTHER -> step' = "sleep" /\ UNCHANGED ended
    /\ UNCHANGED <<samples, progress, grades, seen, timer>>

\* The sleep and the request take an interval; the clock is capped past the deadline.
RetrieveRun ==
    /\ step = "sleep" /\ step' = "check"
    /\ timer' = IF timer >= Deadline THEN timer ELSE timer + Interval
    /\ seen' = progress
    /\ UNCHANGED <<samples, progress, grades, ended>>

Graded(grade) == Cardinality({i \in DOMAIN grades : grades[i] = grade})

\* Mutant of ListItems: a result needs passes, whatever else it has.
ListItemsPassing(listed) ==
    /\ step = "items" /\ listed \in 0 .. Len(samples)
    /\ IF listed # Len(samples) \/ Graded("passed") = 0
       THEN End("error") ELSE End("passed")
    /\ UNCHANGED <<samples, progress, grades, seen, timer>>

\* The counts of the run decide, and as many items as samples.
ListItems(listed) ==
    /\ step = "items" /\ listed \in 0 .. Len(samples)
    /\ IF listed # Len(samples) \/ Graded("errored") > 0 \/ Graded("failed") > 0
       THEN End("error") ELSE End("passed")
    /\ UNCHANGED <<samples, progress, grades, seen, timer>>

Evaluate ==
    \/ \E reply \in Replies : Collect(reply)
    \/ RequestFails \/ CreateRun \/ Check \/ RetrieveRun
    \/ \E listed \in 0 .. Len(Rows) : ListItems(listed)

GoldenNext == Evaluate \/ Advance

\* The evaluation goes on; the platform need not.
GoldenSpec == GoldenInit /\ [][GoldenNext]_golden /\ WF_golden(Evaluate)

-----------------------------------------------------------------------------
(* A candidate that passes answered every golden row with what it must     *)
(* include, nothing it must not, and the expected tools in their order,    *)
(* and the judge passed every answer of the completed run.                 *)
PassedOnEveryRow ==
    ended = "passed" =>
        /\ progress = "completed" /\ DOMAIN samples = DOMAIN Rows
        /\ \A i \in DOMAIN Rows : LET reply == samples[i] IN
              /\ grades[i] = "passed"
              /\ Rows[i].include \subseteq reply.says
              /\ Rows[i].exclude \cap reply.says = {}
              /\ [j \in DOMAIN reply.calls |-> reply.calls[j].name]
                    = [j \in DOMAIN Rows[i].expected |-> Rows[i].expected[j].name]

(* "a terminal-state OpenAI eval run" (evaluation.py:1): the evaluation    *)
(* ends although the run may never become terminal.                        *)
EvaluationEnds == <>(step = "ended")
=============================================================================
