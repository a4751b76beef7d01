------------------------------- MODULE Prices -------------------------------
(***************************************************************************)
(* "foundry costs" (costs.py): every line of the estimate is priced from   *)
(* the retail catalogue, page by page with retries under a deadline, or    *)
(* from the file an earlier run left, and the sum is held to a ceiling.    *)
(* The publisher may reprice while a run reads.                            *)
(***************************************************************************)
EXTENDS Integers, Sequences, FiniteSets, FiniteSetsExt, Functions

CONSTANTS
    Orders,       \* bound: [estimate, offline, extra, currency, budget] of a run
    Catalogues,   \* bound: what the publisher may publish: filter -> rows
    PageRows,     \* rows of a page
    PageCap,      \* pages read of one query (20)
    MaxRetries,   \* requests for one page (6)
    Timeout,      \* of a request, in half seconds,
    Deadline,     \* of a page with its retries,
    MaxPause,     \* between two requests (30 s, or 60 s where the service asks)
    Backoff,      \* and after the first one
    RetryAfters,  \* bound: the pauses the service asks for
    Scale,        \* money is counted in parts of 1 / Scale
    MaxRevisions, \* bound: repricings
    MaxRuns,      \* bound: runs
    NotGiven      \* no argument, price or unit

VARIABLES
    catalogue,    \* what the publisher shows
    revisions, runs,
    stored,       \* the cache file: filter -> rows
    order,        \* the run's arguments and estimate
    step,         \* the step of the run, or how it ended
    line,         \* the line item it is at
    memo,         \* PriceClient._cache
    rows,         \* the rows of the pages read so far
    page,         \* the page to read, of the query that is under way
    attempt,      \* the requests made for it
    elapsed,      \* the time since the first of them
    spend,        \* azure_items: monthly cost by line
    quiet         \* history: nothing was repriced since the run started

\* Times and pauses are numbers of half seconds.
ASSUME PricesAssumption ==
    /\ {Timeout, Deadline, MaxRetries} \subseteq Nat /\ MaxPause \in Int /\ RetryAfters \subseteq Int
    /\ \A n \in 0 .. MaxRetries : Backoff * 2 ^ n \in Int

fetching == <<rows, page, attempt, elapsed>>
prices == <<catalogue, revisions, runs, stored, order, step, line, memo, fetching, spend, quiet>>

PricesInit ==
    /\ catalogue \in Catalogues /\ revisions = 0 /\ runs = 0 /\ stored = <<>>
    /\ order \in Orders
    /\ step = "idle" /\ line = 1 /\ memo = <<>> /\ rows = <<>> /\ page = 1 /\ attempt = 0
    /\ elapsed = 0 /\ spend = <<>> /\ quiet = TRUE

Reprice ==
    /\ revisions < MaxRevisions /\ revisions' = revisions + 1
    /\ catalogue' \in Catalogues /\ quiet' = FALSE
    /\ UNCHANGED <<runs, stored, order, step, line, memo, fetching, spend>>

-----------------------------------------------------------------------------
(* Tiers *)

\* Mutant of Floor: the floors are taken for base units.
FloorAsListed(t) == t.min

\* A tier begins beyond so many base units.
Floor(t) == t.min * t.unit

\* What a base unit costs in it; every unit of measure divides Scale.
UnitPrice(t) == t.price * (Scale \div t.unit)

\* cost_for_quantity: the marginal sum over tiers in order, up to the first that begins
\* beyond the quantity.
Cost(tiers, quantity) ==
    LET reached == {k \in DOMAIN tiers : \A j \in DOMAIN tiers : j <= k => Floor(tiers[j]) < quantity}
        upper(k) == IF k + 1 \in DOMAIN tiers THEN Min({quantity, Floor(tiers[k + 1])}) ELSE quantity
    IN  SumFunction([k \in reached |-> (upper(k) - Floor(tiers[k])) * UnitPrice(tiers[k])])

\* The rows that fit the specification, the newest of some rows, and these by floor, those
\* of one floor as they came.
Fitting(found, meter) == {i \in DOMAIN found : found[i].named /\ (found[i].term => meter.term)}
Newest(found, these) == {i \in these : \A j \in these : found[j].date <= found[i].date}
Lower(found, i, j) == found[i].min < found[j].min \/ (found[i].min = found[j].min /\ i < j)
Listing(found, these) ==
    CHOOSE s \in Bijection(1 .. Cardinality(these), these) :
        \A j, k \in DOMAIN s : j < k => Lower(found, s[j], s[k])

\* resolve_tiers: none where nothing fits or two meters do.
TiersOf(found, meter) ==
    LET fit == Fitting(found, meter)
        listing == Listing(found, Newest(found, fit))
    IN  IF Cardinality({found[i].meter : i \in fit}) # 1 THEN <<>>
        ELSE [k \in DOMAIN listing |-> found[listing[k]]]

\* What the publisher shows for a line item: rows on no more pages than are read, and for
\* each tier of a meter one price, all in one unit.
Quoted(found, item) ==
    LET fit == Newest(found, Fitting(found, item)) IN
    /\ found \in Seq(Range(found)) /\ Len(found) <= PageRows * PageCap
    /\ \A i \in DOMAIN found : LET r == found[i] IN
          r.min \in Nat /\ r.unit \in Nat \ {0} /\ {r.date, r.price} \subseteq Int
    /\ \A i, j \in fit : found[i].meter = found[j].meter =>
          found[i].unit = found[j].unit /\ (found[i].min = found[j].min => found[i].price = found[j].price)

ASSUME CatalogueAssumption ==
    /\ {PageRows, PageCap, Scale} \subseteq Nat \ {0}
    /\ \A o \in Orders : LET lines == o.estimate.lines IN
          /\ lines \in Seq(Range(lines))
          /\ \A k \in DOMAIN lines, c \in Catalogues : lines[k].billing = "azure" /\ lines[k].published =>
                lines[k].quantity \in Nat /\ Quoted(c[lines[k].filter], lines[k])

-----------------------------------------------------------------------------
(* PriceClient *)

\* d[key] = value.
Put(d, key, value) == [k \in DOMAIN d \cup {key} |-> IF k = key THEN value ELSE d[k]]

Later(to) == step' = to /\ UNCHANGED <<catalogue, revisions, runs, stored, order, quiet>>

Item == order.estimate.lines[line]
Included == order.estimate.default \cup order.extra

\* Only an offline run reads the file.
CacheOf(o) == IF o.offline THEN stored ELSE <<>>

\* A run checks its modules and its currency before it prices anything.
Start(o) ==
    /\ step \in {"idle", "done", "raised"} /\ runs < MaxRuns /\ runs' = runs + 1
    /\ order' = o /\ memo' = CacheOf(o) /\ line' = 1 /\ spend' = <<>> /\ quiet' = TRUE
    /\ step' = IF o.extra \subseteq o.estimate.modules /\ o.currency = o.estimate.currency
               THEN "line" ELSE "raised"
    /\ UNCHANGED <<catalogue, revisions, stored, fetching>>

ReadQuery ==
    /\ step = "query"
    /\ Later(IF Item.filter \in DOMAIN memo THEN "resolve"
             ELSE IF order.offline THEN "raised" ELSE "get")
    /\ rows' = <<>> /\ page' = 1 /\ attempt' = 0 /\ elapsed' = 0
    /\ UNCHANGED <<line, memo, spend>>

Remaining(t) == Deadline - t

\* One request, which a timeout bounds, but by no less than a second. That of requests
\* bounds the connection and each read; a response that trickles in could take longer,
\* and is assumed not to.
Request(took) ==
    /\ step = "get" /\ attempt < MaxRetries /\ Remaining(elapsed) > 0
    /\ took <= Min({Timeout, Max({Remaining(elapsed), 2})})

LastPage(link) == ~ link \/ page = PageCap

\* The service may link to a page that is empty.
Answer(took, link) ==
    LET all == catalogue[Item.filter]
        last == page * PageRows
        read == rows \o SubSeq(all, last - PageRows + 1, Min({last, Len(all)}))
    IN  /\ Request(took) /\ (last < Len(all) => link)
        /\ attempt' = 0 /\ elapsed' = 0
        /\ IF LastPage(link)
           THEN /\ memo' = Put(memo, Item.filter, read)
                /\ rows' = <<>> /\ page' = 1 /\ Later("resolve")
           ELSE /\ rows' = read /\ page' = Min({page + 1, PageCap}) /\ Later("get")
                /\ UNCHANGED memo
        /\ UNCHANGED <<line, spend>>

\* The pause after a failed request, which ends with the deadline.
Pause(asked, t) ==
    Min({IF asked # NotGiven THEN asked ELSE Backoff * 2 ^ attempt, MaxPause, Max({Remaining(t), 0})})

\* A throttle, an overload or a fault of the network.
Retry(took, asked) ==
    /\ Request(took)
    /\ attempt' = attempt + 1
    /\ elapsed' = elapsed + took + Pause(asked, elapsed + took)
    /\ Later("get") /\ UNCHANGED <<line, memo, rows, page, spend>>

\* Another status is an error at once, and so are the attempts and the deadline.
FetchFails ==
    /\ step = "get"
    /\ Later("raised") /\ UNCHANGED <<line, memo, fetching, spend>>

Exhausted == attempt = MaxRetries \/ Remaining(elapsed) <= 0

-----------------------------------------------------------------------------
(* evaluate and the command *)

Spends(cost) == spend' = Put(spend, line, cost)

\* Unknown kinds of billing and modules are errors. What is disabled or no Azure meter is
\* not part of the sum, what is not published has to reserve its cost.
PriceLine ==
    /\ step = "line" /\ line <= Len(order.estimate.lines)
    /\ LET known == Item.module \in order.estimate.modules /\ Item.billing \in {"azure", "external"}
           counted == Item.module \in Included /\ Item.billing = "azure"
           reserved == counted /\ ~ Item.published /\ Item.reserve # NotGiven
       IN  /\ Later(IF ~ known \/ (counted /\ ~ Item.published /\ Item.reserve = NotGiven) THEN "raised"
                    ELSE IF counted /\ Item.published THEN "query" ELSE "line")
           /\ line' = IF step' = "line" THEN line + 1 ELSE line
           /\ IF reserved THEN Spends(Item.reserve * Scale) ELSE UNCHANGED spend
    /\ UNCHANGED <<memo, fetching>>

\* A meter whose unit is not the expected one has changed its shape.
ResolveTiers ==
    /\ step = "resolve"
    /\ LET tiers == TiersOf(memo[Item.filter], Item) IN
       IF tiers = <<>> \/ (Item.unit # NotGiven /\ tiers[1].unit # Item.unit)
       THEN Later("raised") /\ UNCHANGED <<line, spend>>
       ELSE Later("line") /\ line' = line + 1 /\ Spends(Cost(tiers, Item.quantity))
    /\ UNCHANGED <<memo, fetching>>

\* The sum of what was spent on.
Total == SumFunction(spend)
Ceiling == (IF order.budget = NotGiven THEN order.estimate.budget ELSE order.budget) * Scale
WithinBudget == Total <= Ceiling

\* The cache is written when every line has its price, before the verdict.
Conclude ==
    /\ step = "line" /\ line > Len(order.estimate.lines)
    /\ step' = "done" /\ stored' = memo
    /\ UNCHANGED <<catalogue, revisions, runs, order, line, memo, fetching, spend, quiet>>

PricesStep ==
    \/ PriceLine \/ ReadQuery \/ ResolveTiers \/ Conclude \/ (FetchFails /\ Exhausted)
    \/ \E took \in 1 .. Timeout :
          \/ \E link \in BOOLEAN : Answer(took, link)
          \/ \E asked \in RetryAfters \cup {NotGiven} : Retry(took, asked)

PricesNext == (\E o \in Orders : Start(o)) \/ Reprice \/ PricesStep \/ FetchFails

PricesSpec == PricesInit /\ [][PricesNext]_prices /\ WF_prices(PricesStep)

-----------------------------------------------------------------------------
(* The cost of a line as a customer would count it: unit by unit, each at  *)
(* the price of the tier it falls in.                                      *)

InForce(u, tiers) == CHOOSE t \in tiers : t.min * t.unit < u /\
                        \A s \in tiers : s.min * s.unit < u => s.min <= t.min
\* A unit that no tier covers costs nothing.
PriceOfUnit(u, tiers) ==
    IF \E t \in tiers : t.min * t.unit < u THEN UnitPrice(InForce(u, tiers)) ELSE 0
CountedOut(item) ==
    LET shown == catalogue[item.filter]
        tiers == {shown[i] : i \in {j \in DOMAIN shown : shown[j].named /\ (shown[j].term => item.term)}}
        current == {t \in tiers : \A s \in tiers : s.date <= t.date}
    IN  SumFunction([u \in 1 .. item.quantity |-> PriceOfUnit(u, current)])

Owed == {k \in DOMAIN order.estimate.lines :
            order.estimate.lines[k].module \in Included /\ order.estimate.lines[k].billing = "azure"}
Due(item) == IF item.published THEN CountedOut(item) ELSE item.reserve * Scale
Bill == SumFunction([k \in Owed |-> Due(order.estimate.lines[k])])

(* "A live run always reflects today's catalogue" (costs.py:90): a live    *)
(* run that nothing was repriced under passes if and only if the bill,     *)
(* counted unit by unit at today's prices, is within the ceiling, whatever *)
(* earlier runs cached and however the pages and retries went.             *)
VerdictIsTodays ==
    step = "done" /\ ~ order.offline /\ quiet => (WithinBudget <=> Bill <= Ceiling)

(* A sustained throttle does not let a page take longer than its deadline, *)
(* but for the second the last request may always take (costs.py:152).     *)
DeadlineKept == elapsed <= Deadline + 1

VerdictIsDue == VerdictIsTodays /\ DeadlineKept

(* And the gate does not hang: every run passes, fails or raises.          *)
RunEnds == step = "line" ~> step \in {"done", "raised"}
=============================================================================
