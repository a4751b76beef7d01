------------------------------ MODULE Regions -------------------------------
(***************************************************************************)
(* "foundry regions" (regions.py): gates remove the regions that fail a    *)
(* requirement, on metadata, on the provider's locations, on the           *)
(* capability matrix and on probed models and quota; what is left is       *)
(* ranked by price, headroom and distance, and the first is written down   *)
(* as the decision.  Any of the reads may fail.                            *)
(***************************************************************************)
EXTENDS Integers, FiniteSets, Sequences, FiniteSetsExt

CONSTANTS
    Regions,     \* numbered in the order of their names
    Worlds,      \* bound: [meta, offered, models, headroom, price] of the cloud
    Needs,       \* bound: [candidates, geographies, pair, zones, km, types,
                 \* capabilities, models, quota, basket], the requirements
    Additions,   \* what an optional module adds to types and capabilities
    Matrix,      \* capability -> [regions, excluded, derived]
    Asked,       \* bound: the optional modules a run asks for
    MaxFaults,   \* bound: reads that fail
    Emptied,     \* the price of an entry that has rows, but none that are not filtered out
    Nil          \* nothing: no reason, answer, price or decision, no origin of distances

VARIABLES
    world,       \* what the cloud offers
    needs,       \* the requirements, with those of the modules asked for
    choice,      \* the step of the run, or how it ended
    regions,     \* the regions that are evaluated
    gate,        \* gate[r]: the gate that eliminated r
    probed,      \* models and usage by region: an answer, or Nil
    headroom,    \* quota_headroom
    basket,      \* monthly_basket_usd
    decision,    \* the region of selected-region.yaml
    unread,      \* history: the resource types whose locations were not read
    misread      \* reads that failed

NoPrice == {Nil, Emptied}

\* Regions are finitely many, in an order; nothing is not the name of a gate, nor a number;
\* quota and distance are numbers, and so is the price, if any, of each entry of a basket.
ASSUME RegionsAssumption ==
    /\ IsFiniteSet(Regions) /\ Regions \subseteq Int
    /\ Nil \notin {"residency", "reliability", "latency", "resource-type", "capability", "model or quota"}
    /\ Nil \notin Int /\ Emptied \notin Int \cup {Nil}
    /\ \A w \in Worlds : \A r \in Regions : w.headroom[r] \in Int /\ w.meta[r].km \in Int
    /\ \A n \in Needs : {"types", "capabilities", "basket"} \subseteq DOMAIN n /\ IsFiniteSet(n.basket)
    /\ \A w \in Worlds, n \in Needs : \A r \in Regions, e \in n.basket : w.price[r][e] \in Int \cup NoPrice

choosing == <<world, needs, choice, regions, gate, probed, headroom, basket, decision, unread, misread>>

RegionsInit ==
    /\ world \in Worlds /\ needs \in Needs
    /\ choice = "start" /\ regions = {}
    /\ gate = [r \in Regions |-> Nil] /\ probed = [models |-> <<>>, usage |-> <<>>]
    /\ headroom = [r \in Regions |-> 0] /\ basket = [r \in Regions |-> Nil]
    /\ decision = Nil /\ unread = {} /\ misread = 0

Survivors == {r \in regions : gate[r] = Nil}

StepTo(from, to) == choice = from /\ choice' = to /\ UNCHANGED <<world, needs>>

\* The gate eliminates the survivors that do not pass; the first failure counts.
Eliminate(name, passing) ==
    gate' = [r \in Regions |-> IF r \in Survivors \ passing THEN name ELSE gate[r]]

Fault(n) == misread + n <= MaxFaults /\ misread' = misread + n

-----------------------------------------------------------------------------
(* enable_optional_modules and discover_regions *)

Enable(modules) ==
    /\ choice = "start"
    /\ IF modules \subseteq DOMAIN Additions
       THEN /\ needs' = [needs EXCEPT
                            !.types = @ \cup UNION {Additions[m].types : m \in modules},
                            !.capabilities = @ \cup UNION {Additions[m].capabilities : m \in modules}]
            /\ choice' = "discover"
       ELSE choice' = "raised" /\ UNCHANGED needs
    /\ UNCHANGED <<world, regions, gate, probed, headroom, basket, decision, unread, misread>>

Discover ==
    /\ StepTo("discover", "metadata")
    /\ regions' = {r \in Regions : world.meta[r].physical} \cap
                  (IF needs.candidates = {} THEN Regions ELSE needs.candidates)
    /\ UNCHANGED <<gate, probed, headroom, basket, decision, unread, misread>>

-----------------------------------------------------------------------------
(* The gates that need no probe of a region *)

Resident(r) == needs.geographies = {} \/ world.meta[r].geography \in needs.geographies
Reliable(r) == (needs.pair => world.meta[r].paired) /\ world.meta[r].zones >= needs.zones
Near(r) == needs.km = Nil \/ world.meta[r].km <= needs.km

\* Residency, reliability and latency in this order, all from the same metadata.
Metadata ==
    /\ StepTo("metadata", "types")
    /\ gate' = [r \in Regions |->
                   IF r \notin regions THEN Nil
                   ELSE IF ~ Resident(r) THEN "residency"
                   ELSE IF ~ Reliable(r) THEN "reliability"
                   ELSE IF ~ Near(r) THEN "latency" ELSE Nil]
    /\ UNCHANGED <<regions, probed, headroom, basket, decision, unread, misread>>

\* Where the provider could not be read the set of locations is empty.
ResourceTypes(failing) ==
    /\ StepTo("types", "matrix") /\ failing \subseteq needs.types /\ Fault(Cardinality(failing))
    /\ Eliminate("resource-type", {r \in Survivors :
           \A t \in needs.types : t \notin failing /\ r \in world.offered[t]})
    /\ unread' = failing
    /\ UNCHANGED <<regions, probed, headroom, basket, decision>>

Allowed(cap) ==
    (IF Matrix[cap].derived # Nil THEN Matrix[Matrix[cap].derived].regions ELSE Matrix[cap].regions)
        \ Matrix[cap].excluded

\* A capability that the matrix does not have is an error.
Capabilities ==
    /\ StepTo("matrix", IF needs.capabilities \subseteq DOMAIN Matrix THEN "models" ELSE "raised")
    /\ IF choice' = "raised" THEN UNCHANGED gate
       ELSE Eliminate("capability", {r \in Survivors : \A c \in needs.capabilities : r \in Allowed(c)})
    /\ UNCHANGED <<regions, probed, headroom, basket, decision, unread, misread>>

-----------------------------------------------------------------------------
(* gate_models_and_quota *)

\* The pool asks every survivor for its models, then every one for its usage.
Probe(kind, next, failing) ==
    /\ StepTo(kind, next) /\ failing \subseteq Survivors /\ Fault(Cardinality(failing))
    /\ probed' = [probed EXCEPT ![kind] = [r \in Survivors |->
           IF r \in failing THEN Nil
           ELSE IF kind = "models" THEN world.models[r] ELSE world.headroom[r]]]
    /\ UNCHANGED <<regions, gate, headroom, basket, decision, unread>>

Unanswered == {r \in Survivors : probed.models[r] = Nil \/ probed.usage[r] = Nil}

\* Mutant of Judge: a probe that failed found nothing.
JudgeAnyway ==
    /\ StepTo("judge", "price")
    /\ Eliminate("model or quota", {r \in Survivors \ Unanswered :
           needs.models \subseteq probed.models[r] /\ probed.usage[r] >= needs.quota})
    /\ headroom' = [r \in Regions |-> IF r \in Survivors \ Unanswered THEN probed.usage[r] ELSE 0]
    /\ UNCHANGED <<regions, probed, basket, decision, unread, misread>>

\* A probe that was not answered aborts the run, whatever the other regions have.
Judge ==
    /\ StepTo("judge", IF Unanswered = {} THEN "price" ELSE "raised")
    /\ IF Unanswered # {} THEN UNCHANGED <<gate, headroom>>
       ELSE /\ Eliminate("model or quota", {r \in Survivors :
                   needs.models \subseteq probed.models[r] /\ probed.usage[r] >= needs.quota})
            /\ headroom' = [r \in Regions |-> IF r \in Survivors THEN probed.usage[r] ELSE 0]
    /\ UNCHANGED <<regions, probed, basket, decision, unread, misread>>

-----------------------------------------------------------------------------
(* rank *)

Sum(r, entries) == MapThenSumSet(LAMBDA e : world.price[r][e], entries)

\* price_basket: an entry without a price, or whose query failed, is a problem; a total
\* with problems is none.
PriceBasket(r, failing) ==
    IF failing = {} /\ \A e \in needs.basket : world.price[r][e] \notin NoPrice
    THEN Sum(r, needs.basket) ELSE Nil

\* Queries of the price catalogue may fail for any entry of any region; that there is no
\* date to choose among none left is not caught (max() of nothing, costs.py:246).
Price(failing) ==
    /\ failing \subseteq Survivors \X needs.basket /\ Fault(Cardinality(failing))
    /\ StepTo("price", IF \E q \in (Survivors \X needs.basket) \ failing : world.price[q[1]][q[2]] = Emptied
                       THEN "raised" ELSE "rank")
    /\ basket' = IF choice' = "raised" THEN basket ELSE [r \in Regions |->
           IF r \in Survivors THEN PriceBasket(r, {e \in needs.basket : <<r, e>> \in failing}) ELSE Nil]
    /\ UNCHANGED <<regions, gate, probed, headroom, decision, unread>>

\* Cost first, capacity second, latency third, then the name.
Before(r, s) ==
    LET priced(x) == IF basket[x] = Nil THEN 1 ELSE 0
        cost(x) == IF basket[x] = Nil THEN 0 ELSE basket[x]
        km(x) == IF needs.km = Nil THEN 0 ELSE world.meta[x].km
        key(x) == <<priced(x), cost(x), 0 - headroom[x], km(x), x>>
    IN  \E i \in 1 .. 5 : key(r)[i] < key(s)[i] /\ \A j \in 1 .. i - 1 : key(r)[j] = key(s)[j]

Winner == CHOOSE r \in Survivors : \A s \in Survivors \ {r} : Before(r, s)

\* Nothing priced at all is a failure; nothing left is a result without a decision.
Rank ==
    /\ StepTo("rank", IF Survivors # {} /\ \A r \in Survivors : basket[r] = Nil THEN "raised" ELSE "done")
    /\ decision' = (IF choice' = "done" /\ Survivors # {} THEN Winner ELSE decision)
    /\ UNCHANGED <<regions, gate, probed, headroom, basket, unread, misread>>

\* A read that is not tried twice ends the run.
DiscoverFails ==
    /\ StepTo("discover", "raised") /\ Fault(1)
    /\ UNCHANGED <<regions, gate, probed, headroom, basket, decision, unread>>

RegionsNext ==
    \/ \E m \in Asked : Enable(m)
    \/ Discover \/ DiscoverFails \/ Metadata \/ Capabilities \/ Judge \/ Rank
    \/ \E f \in SUBSET needs.types : ResourceTypes(f)
    \/ \E f \in SUBSET Survivors : Probe("models", "usage", f) \/ Probe("usage", "judge", f)
    \/ \E f \in SUBSET (Survivors \X needs.basket) : Price(f)

RegionsSpec == RegionsInit /\ [][RegionsNext]_choosing

-----------------------------------------------------------------------------
(* What a region must have, said of the cloud rather than of the answers. *)

Meets(r) ==
    LET m == world.meta[r] IN
    /\ m.physical /\ (needs.candidates # {} => r \in needs.candidates)
    /\ (needs.geographies # {} => m.geography \in needs.geographies)
    /\ (needs.pair => m.paired) /\ m.zones >= needs.zones
    /\ (needs.km # Nil => m.km <= needs.km)
    /\ \A t \in needs.types : r \in world.offered[t]
    /\ \A c \in needs.capabilities :
          /\ r \notin Matrix[c].excluded
          /\ r \in Matrix[IF Matrix[c].derived = Nil THEN c ELSE Matrix[c].derived].regions
    /\ needs.models \subseteq world.models[r] /\ world.headroom[r] >= needs.quota

(* "Refusing to eliminate regions on the strength of a failed probe"       *)
(* (regions.py:287): a run that ends qualifies exactly the regions that    *)
(* have everything, however its probes went; only locations that could not *)
(* be read eliminate a region that may have it all.                        *)
QualifiedIsTrue ==
    choice = "done" => \A r \in Regions :
        /\ r \in Survivors => Meets(r)
        /\ Meets(r) => r \in Survivors \/ unread # {}

(* "A region that cannot be priced sorts last rather than winning by       *)
(* default" (regions.py:369): the decision is never a region dearer than   *)
(* another that was priced, nor one whose price is not known in full.      *)
DecisionIsCheapest ==
    decision # Nil =>
        /\ \A e \in needs.basket : world.price[decision][e] \notin NoPrice
        /\ basket[decision] = Sum(decision, needs.basket)
        /\ \A r \in Survivors : basket[r] # Nil =>
              Sum(decision, needs.basket) <= Sum(r, {e \in needs.basket : world.price[r][e] \notin NoPrice})

(* No region is lost to a failed probe, and none wins by a price that is   *)
(* not known.                                                              *)
ChoiceIsRight == QualifiedIsTrue /\ DecisionIsCheapest
=============================================================================
