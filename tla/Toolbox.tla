------------------------------ MODULE Toolbox -------------------------------
(***************************************************************************)
(* The approvals toolbox: each request has a Toolbox of its own, bound to  *)
(* the scope of one resolved principal, and all of them work on one        *)
(* database.  A call is admitted, handled over the scoped repository       *)
(* (repository.py) and audited (tools.py).  The one write path reads a     *)
(* case, updates it and reads it again, each a statement of its own.       *)
(***************************************************************************)
EXTENDS Integers, FiniteSets, Sequences, SequencesExt

CONSTANTS
    Boxes,       \* the toolboxes of requests under way
    Identities,  \* bound: the rows of the identity table there may be for a box:
                 \* [roles, regions, employee], or Absent
    Rows,        \* the other rows, in the order of their keys: [table, region, parent,
                 \* group, internal]; a row without a region has that of its parent
    StartCases,  \* the cases at first: row -> [customer, status]
    Global,      \* GLOBAL_TABLES
    Company,     \* the region of rows of the whole company in hr_policies
    Manager,     \* employee -> manager, or Absent
    Excepted,    \* the employees of a department with the other travel policy
    Policies,    \* their policies: [rank, threshold, notice] with and without exception
    Fares,       \* the fares of a route: [rank, price, seats]
    Tools,       \* tool -> [kind, table, roles, fields]: what the contracts declare
    Asks,        \* bound: [tool, fields, key, filter, limit, changes, depart, back]
    Updatable,   \* UPDATABLE_SUPPORT_CASE_COLUMNS
    MinCohort,   \* minimum_cohort
    MaxDepth,    \* of a walk up the management chain (8)
    MaxRows,     \* the most rows of a result (200)
    MaxCalls,    \* bound: calls of a box
    Absent       \* nothing: no identity, parent, region, manager, value or answer

VARIABLES
    cases,       \* the support cases
    scope,       \* the scope of each box
    doing,       \* where its call is
    call,        \* what is asked
    walked,      \* the chain a walk has read
    answer,      \* [kind, rows, count] of the last call
    audit,       \* the outcomes recorded, in order
    ended,       \* history: how the calls ended, in order
    writes       \* history: [box, call, visible] of what was committed

\* Where a case belongs is not among what may be updated; an identity is that of an
\* employee; only the lookup of a case reads its notes and only the listing of bookings
\* those; prices, ranks and days are numbers.
ASSUME ToolboxAssumption ==
    /\ "customer" \notin Updatable /\ \A i \in DOMAIN StartCases : "customer" \in DOMAIN StartCases[i]
    /\ \A i \in DOMAIN Rows : Rows[i].internal => Rows[i].table = "case_notes"
    /\ \A who \in Identities : who # Absent => who.employee # Absent
    /\ \A t \in DOMAIN Tools : Tools[t].kind \in {"lookup", "search"} =>
          Tools[t].table \notin {"case_notes", "travel_bookings"}
    /\ \A k \in DOMAIN Fares : Fares[k].rank \in Int /\ Fares[k].price \in Int /\ Fares[k].seats \in Int
    /\ \A p \in {Policies.ordinary, Policies.exception} :
          p.rank \in Int /\ p.threshold \in Int /\ p.notice \in Int
    /\ \A r \in Asks : r.depart \in Int
    /\ MaxDepth \in Nat

toolbox == <<cases, scope, doing, call, walked, answer, audit, ended, writes>>

Nothing == [kind |-> "none", rows |-> {}, count |-> 0]

ToolboxInit ==
    /\ cases = StartCases
    /\ scope \in [Boxes -> Identities]
    /\ doing = [b \in Boxes |-> "new"] /\ call \in [Boxes -> {Absent}] /\ walked = [b \in Boxes |-> <<>>]
    /\ answer = [b \in Boxes |-> Nothing] /\ audit = [b \in Boxes |-> <<>>]
    /\ ended = [b \in Boxes |-> <<>>] /\ writes = {}

Proceed(b, where) == doing' = [doing EXCEPT ![b] = where]

-----------------------------------------------------------------------------
(* The scoped repository *)

\* A case belongs to its customer, which is data of the case; any other row to its parent.
Owners == [i \in DOMAIN Rows |-> IF i \in DOMAIN cases THEN cases[i].customer ELSE Rows[i].parent]

\* SCOPE_PATHS: the region of a row, or of what it belongs to.
RegionsBy(owners) ==
    LET region[i \in DOMAIN Rows] ==
            IF owners[i] # Absent THEN region[owners[i]] ELSE Rows[i].region
    IN  region
RegionOf == RegionsBy(Owners)

\* _scoped_from: the predicate every read has.
InScope(b, i) ==
    \/ Rows[i].table \in Global
    \/ RegionOf[i] \in scope[b].regions
    \/ Rows[i].table = "hr_policies" /\ RegionOf[i] = Company

\* _fetch_by_key.
Fetched(b, table, i) == i \in DOMAIN Rows /\ Rows[i].table = table /\ InScope(b, i)

\* The rows of a table in scope that a filter leaves.
Filtered(b, table, filter) ==
    {i \in DOMAIN Rows : /\ Rows[i].table = table /\ InScope(b, i)
                         /\ filter.group # Absent => Rows[i].group = filter.group
                         /\ filter.parent # Absent => Rows[i].parent = filter.parent}

\* list_rows: bounded, and ordered by key.
ListRows(b, table, filter, limit) ==
    LET most == IF limit < 1 THEN 1 ELSE IF limit > MaxRows THEN MaxRows ELSE limit
        found == Filtered(b, table, filter)
    IN  {i \in found : Cardinality({j \in found : j <= i}) <= most}

ChildrenOf(i) == [group |-> Absent, parent |-> i]

-----------------------------------------------------------------------------
(* Toolbox.call *)

\* The principal is resolved before there is a tool to call: an unknown one, or one
\* without a region, has no toolbox.
Resolve(b) ==
    /\ doing[b] = "new"
    /\ Proceed(b, IF scope[b] = Absent \/ scope[b].regions = {} THEN "refused" ELSE "idle")
    /\ UNCHANGED <<cases, scope, call, walked, answer, audit, ended, writes>>

Ask(b, request) ==
    /\ doing[b] = "idle" /\ Len(ended[b]) < MaxCalls
    /\ call' = [call EXCEPT ![b] = request] /\ Proceed(b, "asked")
    /\ walked' = [walked EXCEPT ![b] = <<>>] /\ answer' = [answer EXCEPT ![b] = Nothing]
    /\ UNCHANGED <<cases, scope, audit, ended, writes>>

\* What is raised is audited and raised again.
Raise(b) ==
    /\ Proceed(b, "idle") /\ audit' = [audit EXCEPT ![b] = Append(@, "error")]
    /\ ended' = [ended EXCEPT ![b] = Append(@, "raised")]
    /\ UNCHANGED <<cases, scope, call, walked, answer, writes>>

\* A result is returned after its success was recorded.
Return(b, result) ==
    /\ Proceed(b, "idle") /\ audit' = [audit EXCEPT ![b] = Append(@, "success")]
    /\ ended' = [ended EXCEPT ![b] = Append(@, "returned")]
    /\ answer' = [answer EXCEPT ![b] = result]
    /\ UNCHANGED <<cases, scope, call, walked, writes>>

Tool(b) == Tools[call[b].tool]
Declares(b) == call[b].tool \in DOMAIN Tools

\* Undeclared arguments first, then roles, of which one is enough.
Admitted(b) ==
    /\ Declares(b) /\ call[b].fields \subseteq Tool(b).fields
    /\ Tool(b).roles \cap scope[b].roles # {}

Kinds == {"lookup", "search", "count", "aggregate", "chain", "bookings", "booking", "update"}

Admit(b) ==
    /\ doing[b] = "asked"
    /\ IF Admitted(b) /\ Tool(b).kind \in Kinds
       THEN Proceed(b, Tool(b).kind) /\ UNCHANGED <<cases, scope, call, walked, answer, audit, ended, writes>>
       ELSE Raise(b)

Result(kind, found, n) == [kind |-> kind, rows |-> found, count |-> n]

-----------------------------------------------------------------------------
(* The handlers *)

\* A row with what belongs to it: lines of an order, notes of a case. Internal notes are
\* for those who may write.
Lookup(b) ==
    /\ doing[b] = "lookup"
    /\ LET i == call[b].key
           below == UNION {ListRows(b, t, ChildrenOf(i), MaxRows) : t \in {"order_lines", "case_notes"}}
           shown == {j \in below : Rows[j].internal => "support.write" \in scope[b].roles}
       IN  Return(b, IF Fetched(b, Tool(b).table, i) THEN Result("rows", {i} \cup shown, 1) ELSE Nothing)

Search(b) ==
    /\ doing[b] = "search"
    /\ Return(b, Result("rows", ListRows(b, Tool(b).table, call[b].filter, call[b].limit), 0))

Count(b) ==
    /\ doing[b] = "count"
    /\ Return(b, Result("count", {}, Cardinality(Filtered(b, Tool(b).table, call[b].filter))))

\* Groups below the cohort are dropped; only such groups are an error.
Aggregate(b) ==
    /\ doing[b] = "aggregate"
    /\ LET found == Filtered(b, Tool(b).table, call[b].filter)
           Members(g) == {i \in found : Rows[i].group = g}
           large == {g \in {Rows[i].group : i \in found} : Cardinality(Members(g)) >= MinCohort}
       IN  IF large = {} /\ found # {} THEN Raise(b)
           ELSE Return(b, Result("groups", {<<g, Cardinality(Members(g))>> : g \in large}, 0))

\* The walk up stops at the edge of scope, at its bound and where it has been.
Goes(b, e) ==
    /\ e # Absent /\ \A k \in DOMAIN walked[b] : walked[b][k] # e
    /\ Len(walked[b]) < MaxDepth /\ Fetched(b, "employees", e)

Chain(b) ==
    /\ doing[b] = "chain"
    /\ LET e == IF walked[b] = <<>> THEN call[b].key ELSE Manager[Last(walked[b])] IN
       IF Goes(b, e)
       THEN /\ walked' = [walked EXCEPT ![b] = Append(@, e)]
            /\ UNCHANGED <<cases, scope, doing, call, answer, audit, ended, writes>>
       ELSE Return(b, Result("rows", ToSet(walked[b]), 0))

\* Those who do not coordinate travel may ask for their own bookings only.
Bookings(b) ==
    /\ doing[b] = "bookings"
    /\ LET others == "travel.coordinate" \notin scope[b].roles
           filter == [call[b].filter EXCEPT !.parent = IF others THEN scope[b].employee ELSE @]
       IN  IF others /\ call[b].filter.parent \notin {Absent, scope[b].employee} THEN Raise(b)
           ELSE Return(b, Result("rows", ListRows(b, "travel_bookings", filter, call[b].limit), 0))

FareTotal(fare, back) == IF back = Absent THEN fare.price ELSE 2 * fare.price

\* A fare class beyond the policy, or no seat, refuses; price and notice ask for approval.
Decision(fare, policy, depart, back) ==
    IF fare.rank > policy.rank \/ fare.seats <= 0 THEN "refused"
    ELSE IF FareTotal(fare, back) > policy.threshold \/ depart < policy.notice THEN "requires_approval"
    ELSE "allowed"

\* Days are counted from as_of. The traveller must be in scope, the fare one of the route's
\* first MaxRows, the dates in order.
Booking(b) ==
    /\ doing[b] = "booking"
    /\ LET r == call[b]
           e == scope[b].employee
           policy == IF e \in Excepted THEN Policies.exception ELSE Policies.ordinary
       IN  IF \/ r.key \notin DOMAIN Fares \/ r.key > MaxRows \/ ~ Fetched(b, "employees", e)
              \/ r.depart < 0 \/ (r.back # Absent /\ r.back < r.depart)
           THEN Raise(b)
           ELSE Return(b, Result(Decision(Fares[r.key], policy, r.depart, r.back), {}, r.key))

-----------------------------------------------------------------------------
(* update_support_case *)

\* Mutant of MayChange: every declared field.
MayChangeAll(changes) == TRUE

MayChange(changes) == DOMAIN changes \subseteq Updatable

\* The case must be visible, and the fields those that leave it where it is.
ReadCase(b) ==
    /\ doing[b] = "update"
    /\ IF ~ Fetched(b, "support_cases", call[b].key) \/ ~ MayChange(call[b].changes) THEN Raise(b)
       ELSE IF DOMAIN call[b].changes = {} THEN Return(b, Result("rows", {call[b].key}, 1))
       ELSE Proceed(b, "write") /\ UNCHANGED <<cases, scope, call, walked, answer, audit, ended, writes>>

\* The update names the case by its key alone.
WriteCase(b) ==
    /\ doing[b] = "write" /\ Proceed(b, "reread")
    /\ cases' = [cases EXCEPT ![call[b].key] =
                    [f \in DOMAIN @ |-> IF f \in DOMAIN call[b].changes THEN call[b].changes[f] ELSE @[f]]]
    /\ writes' = writes \cup {[box |-> b, call |-> Len(ended[b]) + 1,
                                visible |-> InScope(b, call[b].key)]}
    /\ UNCHANGED <<scope, call, walked, answer, audit, ended>>

\* The assertion that it is still there.
RereadCase(b) ==
    /\ doing[b] = "reread"
    /\ IF Fetched(b, "support_cases", call[b].key) THEN Return(b, Result("rows", {call[b].key}, 1))
       ELSE Raise(b)

ToolboxNext ==
    \E b \in Boxes :
        \/ Resolve(b) \/ Admit(b) \/ Lookup(b) \/ Search(b) \/ Count(b) \/ Aggregate(b) \/ Chain(b)
        \/ Bookings(b) \/ Booking(b) \/ ReadCase(b) \/ WriteCase(b) \/ RereadCase(b)
        \/ \E r \in Asks : Ask(b, r)

ToolboxSpec == ToolboxInit /\ [][ToolboxNext]_toolbox

-----------------------------------------------------------------------------
(* Properties *)

BelongsTo(b, i) ==
    Rows[i].table \in Global \/ RegionOf[i] \in scope[b].regions \/ RegionOf[i] = Company

(* "You must go through the scope" of every read path (repository.py:3):   *)
(* whatever a tool returns, by key, as a child, on a chain or as bookings, *)
(* belongs to the regions of the caller's own scope; internal notes only   *)
(* to those who may write, and bookings of others only to coordinators.    *)
AnswersInScope ==
    \A b \in Boxes : answer[b].kind = "rows" => \A i \in answer[b].rows :
        /\ BelongsTo(b, i)
        /\ Rows[i].internal => "support.write" \in scope[b].roles
        /\ Rows[i].table = "travel_bookings" /\ "travel.coordinate" \notin scope[b].roles =>
              Rows[i].parent = scope[b].employee

(* "The row was visible a moment ago and scope is immutable"               *)
(* (repository.py:433): whatever the other requests write in between, what *)
(* is committed was visible to its writer then, and its call returns and   *)
(* is audited as a success.                                                *)
WritesAreOwnAndAudited ==
    \A w \in writes :
        /\ w.visible
        /\ Len(ended[w.box]) >= w.call =>
              ended[w.box][w.call] = "returned" /\ audit[w.box][w.call] = "success"

(* A chain goes from the employee asked about to managers, each once and   *)
(* within the bound, whatever the manager column says: "a hierarchy walk   *)
(* that can loop forever on bad data is a liveness bug"                    *)
(* (repository.py:339).                                                    *)
ChainIsSimple ==
    \A b \in Boxes : LET w == walked[b] IN
        /\ \A j, k \in DOMAIN w : w[j] = w[k] => j = k
        /\ \A k \in DOMAIN w : k > 1 => w[k] = Manager[w[k - 1]]
        /\ Len(w) <= MaxDepth

(* A booking is "allowed" only where the whole trip keeps the traveller's  *)
(* policy, and is never refused for what an approval could settle.         *)
AllowedKeepsPolicy ==
    \A b \in Boxes :
        LET r == call[b]
            f == Fares[r.key]
            trip == IF r.back = Absent THEN f.price ELSE f.price + f.price
            p == IF scope[b].employee \in Excepted THEN Policies.exception ELSE Policies.ordinary
        IN  /\ answer[b].kind = "allowed" =>
                  /\ trip <= p.threshold /\ r.depart >= p.notice
                  /\ f.seats > 0 /\ f.rank <= p.rank
            /\ answer[b].kind = "refused" => f.rank > p.rank \/ f.seats <= 0

(* What a tool returns, changes, walks and allows is what the caller's     *)
(* scope and the traveller's policy allow, whatever the other requests do  *)
(* in between.                                                             *)
ToolsKeepToScope ==
    AnswersInScope /\ WritesAreOwnAndAudited /\ ChainIsSimple /\ AllowedKeepsPolicy
=============================================================================
