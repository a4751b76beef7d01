------------------------------ MODULE Traffic ------------------------------
(***************************************************************************)
(* The Travel traffic job (traffic.py): a schedule starts it twice an      *)
(* hour, a calendar decides whether it holds a synthetic conversation, and *)
(* the platform runs it once more when it fails.  Times are local: the     *)
(* time zone shifts whole hours, and not during the day.                   *)
(***************************************************************************)
EXTENDS Integers, FiniteSets, Sequences

CONSTANTS
    TrafficPlans, \* what traffic.yaml may say: [maximum, travel, quarters, opens, closes, rules,
                  \* weekend, holiday, personas, scenarios], a scenario by its persona
    Required,     \* the ids of the eleven federal holidays
    Years,        \* bound: the years looked at
    Clocks,       \* bound: the times the schedule fires at, as <<hour, minute>>
    RetryLimit,   \* replicaRetryLimit
    Last,         \* the last such weekday of the month
    NoDay         \* no day of the month, or no weekday

VARIABLES
    document,     \* the traffic.yaml in the image
    day,          \* the date, as [y, m, d]
    clock,        \* when the attempt under way looks at its clock
    switches,     \* [enabled, force]
    phase,        \* "start", "decide", "talk", "flush", or how the attempt ended
    attempts,     \* attempts before this one
    talks,        \* the attempts that held a conversation in this slot
    traced        \* the attempts whose trace arrived

job == <<document, day, clock, switches, phase, attempts, talks, traced>>

-----------------------------------------------------------------------------
(* Dates: ordinals and weekdays as in datetime, Monday is 0. *)

Leap(y) == y % 4 = 0 /\ (y % 100 # 0 \/ y % 400 = 0)
MonthLength(y, m) ==
    IF m = 2 THEN IF Leap(y) THEN 29 ELSE 28 ELSE IF m \in {4, 6, 9, 11} THEN 30 ELSE 31
BeforeMonth == <<0, 31, 59, 90, 120, 151, 181, 212, 243, 273, 304, 334>>
Ordinal(y, m, d) ==
    LET p == y - 1 IN
    365 * p + p \div 4 - p \div 100 + p \div 400
      + BeforeMonth[m] + (IF m > 2 /\ Leap(y) THEN 1 ELSE 0) + d
Weekday(n) == (n + 6) % 7

\* A clock shows hours and minutes. Every year has the days that a plan names: no fifth
\* weekday of a month, which would fall into the next one, and no 29th of February.
ASSUME TrafficAssumption ==
    /\ Clocks \subseteq [1 .. 2 -> Nat] /\ Years \subseteq Int /\ RetryLimit \in Nat
    /\ \A plan \in TrafficPlans : plan.opens \in Int /\ plan.closes \in Int
    /\ \A plan \in TrafficPlans : \A i \in DOMAIN plan.rules : LET rule == plan.rules[i] IN
          /\ rule.month \in 1 .. 12 /\ rule.observe \in BOOLEAN
          /\ rule.day # NoDay => rule.day \in 1 .. MonthLength(2023, rule.month)
          /\ rule.day = NoDay => rule.weekday \in 0 .. 6 /\ rule.nth \in {Last} \cup 1 .. 4

-----------------------------------------------------------------------------
(* FederalHolidayRule *)

\* Either a day, valid in a leap year, or a weekday with an occurrence.
WellFormed(rule) ==
    /\ rule.month \in 1 .. 12
    /\ \/ /\ rule.day # NoDay /\ rule.weekday = NoDay /\ rule.nth = NoDay
          /\ rule.day \in 1 .. MonthLength(2024, rule.month)
       \/ /\ rule.day = NoDay /\ rule.weekday # NoDay
          /\ rule.nth = Last \/ rule.nth \in 1 .. 5

Actual(rule, y) ==
    IF rule.day # NoDay THEN Ordinal(y, rule.month, rule.day)
    ELSE IF rule.nth = Last
    THEN LET last == Ordinal(y, rule.month, MonthLength(y, rule.month)) IN
         last - ((Weekday(last) - rule.weekday) % 7)
    ELSE LET first == Ordinal(y, rule.month, 1) IN
         first + ((rule.weekday - Weekday(first)) % 7) + 7 * (rule.nth - 1)

Dates(rule, y) ==
    LET actual == Actual(rule, y) IN
    {actual} \cup (IF ~ rule.observe THEN {}
                   ELSE IF Weekday(actual) = 5 THEN {actual - 1}
                   ELSE IF Weekday(actual) = 6 THEN {actual + 1} ELSE {})

-----------------------------------------------------------------------------
(* TrafficPlan *)

Accepted(doc) ==
    /\ doc.maximum = 4 /\ doc.travel = 2
    /\ Cardinality(doc.quarters) = doc.travel /\ doc.quarters \subseteq {0, 15, 30, 45}
    /\ doc.scenarios # {} /\ doc.scenarios \subseteq doc.personas
    /\ \A i \in DOMAIN doc.rules : WellFormed(doc.rules[i])
    /\ {doc.rules[i].id : i \in DOMAIN doc.rules} = Required
    /\ Len(doc.rules) = Cardinality(Required)

\* Mutant of IsHoliday: a holiday is observed in its own year.
IsHolidayOfYear(date) ==
    \E i \in DOMAIN document.rules :
        Ordinal(date.y, date.m, date.d) \in Dates(document.rules[i], date.y)

\* The years around it count: New Year's Day may be observed in December.
IsHoliday(date) ==
    \E i \in DOMAIN document.rules : \E y \in date.y - 1 .. date.y + 1 :
        Ordinal(date.y, date.m, date.d) \in Dates(document.rules[i], y)

AllowedAt(date, time) ==
    IF IsHoliday(date) THEN time \in document.holiday
    ELSE IF Weekday(Ordinal(date.y, date.m, date.d)) >= 5 THEN time \in document.weekend
    ELSE document.opens <= time[1] /\ time[1] < document.closes /\ time[2] \in document.quarters

-----------------------------------------------------------------------------
(* The job *)

TrafficInit ==
    /\ document \in TrafficPlans
    /\ \E y \in Years, m \in 1 .. 12 : \E d \in 1 .. MonthLength(y, m) :
          day = [y |-> y, m |-> m, d |-> d]
    /\ clock \in Clocks
    /\ switches \in [enabled : BOOLEAN, force : BOOLEAN]
    /\ phase = "start" /\ attempts = 0 /\ talks = {} /\ traced = {}

Go(from, to) == phase = from /\ phase' = to

\* A replica may start a minute late.
Start(late) ==
    /\ Go("start", IF Accepted(document) THEN "decide" ELSE "refused")
    /\ clock' = IF late THEN [clock EXCEPT ![2] = @ + 1] ELSE clock
    /\ UNCHANGED <<document, day, switches, attempts, talks, traced>>

ScenarioFor ==
    /\ Go("decide", IF switches.enabled /\ (switches.force \/ AllowedAt(day, clock))
                    THEN "talk" ELSE "skipped")
    /\ UNCHANGED <<document, day, clock, switches, attempts, talks, traced>>

\* run_turn fails, with or without the conversation; the trace of what fails may arrive.
Talk ==
    /\ phase = "talk"
    /\ \/ phase' = "flush" /\ talks' = talks \cup {attempts} /\ UNCHANGED traced
       \/ /\ phase' = "failed" /\ talks' \in {talks, talks \cup {attempts}}
          /\ traced' \in {traced, traced \cup {attempts}}
    /\ UNCHANGED <<document, day, clock, switches, attempts>>

Flush ==
    /\ phase = "flush"
    /\ \/ phase' = "completed" /\ traced' = traced \cup {attempts}
       \/ phase' = "failed" /\ traced' \in {traced, traced \cup {attempts}}
    /\ UNCHANGED <<document, day, clock, switches, attempts, talks>>

\* The platform runs a failed replica again, in the same minute or later.
Retry ==
    /\ phase \in {"failed", "refused"} /\ attempts < RetryLimit
    /\ attempts' = attempts + 1 /\ phase' = "start"
    /\ UNCHANGED <<document, day, clock, switches, talks, traced>>

TrafficNext == (\E late \in BOOLEAN : Start(late)) \/ ScenarioFor \/ Talk \/ Flush \/ Retry

TrafficSpec == TrafficInit /\ [][TrafficNext]_job

-----------------------------------------------------------------------------
(* The holidays, said of a day instead of a rule: it is the n-th such       *)
(* weekday of its month, or a fixed date, or next to one on a weekend.     *)
FallsOn(rule, date) ==
    LET w == Weekday(Ordinal(date.y, date.m, date.d)) IN
    /\ date.m = rule.month
    /\ IF rule.day # NoDay THEN date.d = rule.day
       ELSE /\ w = rule.weekday
            /\ IF rule.nth = Last THEN date.d + 7 > MonthLength(date.y, date.m)
               ELSE (date.d + 6) \div 7 = rule.nth

Tomorrow(date) ==
    IF date.d < MonthLength(date.y, date.m) THEN [date EXCEPT !.d = @ + 1]
    ELSE IF date.m < 12 THEN [date EXCEPT !.d = 1, !.m = @ + 1]
    ELSE [y |-> date.y + 1, m |-> 1, d |-> 1]
Yesterday(date) ==
    IF date.d > 1 THEN [date EXCEPT !.d = @ - 1]
    ELSE IF date.m > 1 THEN [date EXCEPT !.d = MonthLength(date.y, date.m - 1), !.m = @ - 1]
    ELSE [y |-> date.y - 1, m |-> 12, d |-> 31]

Kept(date) ==
    LET w == Weekday(Ordinal(date.y, date.m, date.d)) IN
    \E i \in DOMAIN document.rules : LET rule == document.rules[i] IN
       \/ FallsOn(rule, date)
       \/ rule.observe /\ w = 4 /\ FallsOn(rule, Tomorrow(date))
       \/ rule.observe /\ w = 0 /\ FallsOn(rule, Yesterday(date))
Quiet(date) == Kept(date) \/ Weekday(Ordinal(date.y, date.m, date.d)) \in {5, 6}

Promised(date, time) ==
    IF Kept(date) THEN time \in document.holiday
    ELSE IF Quiet(date) THEN time \in document.weekend
    ELSE time[1] \in document.opens .. document.closes - 1 /\ time[2] \in document.quarters

(* "weekends and all eleven US federal holidays, including observed dates, *)
(* use two quiet daytime slots" (docs/agents/travel.md:100): a             *)
(* conversation is held if and only if that day and time are promised.     *)
CalendarAsPromised ==
    switches.enabled /\ ~ switches.force =>
        /\ phase \in {"talk", "flush", "completed"} => Promised(day, clock)
        /\ phase = "skipped" => ~ Promised(day, clock)

(* "Travel can claim only two configured quarter-hour slots per hour"      *)
(* (docs/agents/travel.md:102), on working days, of any plan that loads.   *)
HalfTheEstate ==
    phase = "decide" /\ ~ Quiet(day) =>
        Cardinality({q \in {0, 15, 30, 45} : AllowedAt(day, <<clock[1], q>>)}) <= 2

(* A slot is reported as completed only with the trace of the conversation *)
(* that this attempt held; a failed one may have held one too, and sent    *)
(* its trace, but no attempt holds two, and none follows the completed.    *)
CompletedIsTraced ==
    /\ phase = "completed" => attempts \in talks \cap traced
    /\ talks \cup traced \subseteq 0 .. attempts /\ attempts <= RetryLimit

(* A conversation is held if and only if the calendar promises it for that *)
(* day and time, never in more than two quarters of an hour, and is        *)
(* completed only with its trace.                                          *)
TrafficAsPromised == CalendarAsPromised /\ HalfTheEstate /\ CompletedIsTraced
=============================================================================
