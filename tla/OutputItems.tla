---------------------------- MODULE OutputItems ----------------------------
(***************************************************************************)
(* Reading the grades of one evaluation run, and what a promotion may      *)
(* conclude from them: the paging loop of read_evaluation_runs, the checks *)
(* of outcomes, the counts of public_summary and the gate                  *)
(* require_candidate_pass of release.py.                                   *)
(*                                                                         *)
(* The service may page as it likes, repeat, drop, reorder, mislabel or    *)
(* damage items, and count wrongly.  A sample key is a business case and   *)
(* the number of its repetition.                                           *)
(***************************************************************************)
EXTENDS Naturals, Sequences, FiniteSets

CONSTANTS
    Cases,      \* business cases of the dataset
    Repeats,    \* bound on the repetitions, 3 in the code
    MaxKeys,    \* bound on the submitted samples
    MinCases,   \* cases a promotion needs, 6 in the code
    Criteria,   \* what every sample is graded on
    PageSize    \* items of a page, 100 in the code

ASSUME OutputItemsAssumption ==
    /\ IsFiniteSet(Cases) /\ IsFiniteSet(Criteria)
    /\ Repeats \in Nat \ {0} /\ MaxKeys \in Nat /\ MinCases \in Nat \ {0}
    /\ PageSize \in Nat \ {0}

VARIABLES
    submitted,  \* the sample keys of this side
    truth,      \* the grades the graders really gave
    counts,     \* the run's result_counts
    items,      \* the output items read so far
    pages,      \* history: how many pages were read
    stage,      \* "reading", "read", "accepted" or "failed"
    result      \* the grades outcomes returns

vars == <<submitted, truth, counts, items, pages, stage, result>>

Keys   == Cases \X (1..Repeats)
Grades == [Criteria -> BOOLEAN]

\* An output item.  It is not sound if its source is not a submitted sample or
\* its grades do not fit the schema: a grader is missing, failed or unfinished, a
\* score is not a number, or the sample's status contradicts its grades.
Sound(K)   == [sound : {TRUE}, key : K, grades : Grades]
Unsound(K) == [sound : {FALSE}, key : K, grades : {[c \in Criteria |-> FALSE]}]
Item(K)    == Sound(K) \cup Unsound(K)
Page(K)    == UNION {[1..n -> Item(K)] : n \in 0..PageSize}

AllPass(g) == \A c \in Criteria : g[c]

Counts(n) == [total : 0..n, passed : 0..n, failed : 0..n, errored : 0..1]

Init ==
    /\ \E chosen \in SUBSET Cases \ {{}}, repeats \in 1..Repeats :
         /\ submitted = chosen \X (1..repeats)
         /\ Cardinality(submitted) <= MaxKeys
    /\ truth \in [submitted -> Grades]
    /\ counts = [total |-> 0, passed |-> 0, failed |-> 0, errored |-> 0]
    /\ items = <<>>
    /\ pages = 0
    /\ stage = "reading"
    /\ result = [k \in {} |-> TRUE]

-----------------------------------------------------------------------------
\* The items after a page: reading stops at the first item too many.
Extended(page) ==
    LET all == items \o page IN
    SubSeq(all, 1, IF Len(all) > Cardinality(submitted) THEN Cardinality(submitted) + 1
                   ELSE Len(all))

\* One page; the loop goes on when there is a next page, and fails on an extra
\* item or on an empty page that promises more.
ReadPage ==
    \E page \in Page(submitted), more \in BOOLEAN :
        /\ stage = "reading"
        /\ items' = Extended(page)
        /\ pages' = pages + 1
        /\ stage' = IF Len(items') > Cardinality(submitted) THEN "failed"
                    ELSE IF ~more THEN "read"
                    ELSE IF page = <<>> THEN "failed" ELSE "reading"
        /\ UNCHANGED <<submitted, truth, counts, result>>

-----------------------------------------------------------------------------
\* outcomes: the counts fit the submission.
CountsConsistent(c) ==
    /\ c.total = Cardinality(submitted)
    /\ c.errored = 0
    /\ c.passed + c.failed = Cardinality(submitted)
    /\ Len(items) = Cardinality(submitted)

\* Mutant of Paired: the same sample may come twice.
PairedLoosely == \A n \in 1..Len(items) : items[n].sound

\* outcomes: every item is a submitted, graded sample, and no two are the same.
Paired ==
    /\ \A n \in 1..Len(items) : items[n].sound
    /\ \A m, n \in 1..Len(items) : m # n => items[m].key # items[n].key

Passing == {n \in 1..Len(items) : AllPass(items[n].grades)}

Returned == [k \in {items[n].key : n \in 1..Len(items)} |->
               items[CHOOSE n \in 1..Len(items) : items[n].key = k].grades]

Acceptable(c) ==
    /\ CountsConsistent(c)
    /\ Paired
    /\ Cardinality(Passing) = c.passed

\* The counts came with the terminal run; they matter only here.
Outcomes ==
    /\ stage = "read"
    /\ counts' \in Counts(Cardinality(submitted))
    /\ stage' = IF Acceptable(counts') THEN "accepted" ELSE "failed"
    /\ result' = IF Acceptable(counts') THEN Returned ELSE result
    /\ UNCHANGED <<submitted, truth, items, pages>>

-----------------------------------------------------------------------------
\* public_summary: per criterion, how many samples passed.
QualityPassed(c) == Cardinality({k \in DOMAIN result : result[k][c]})

\* Mutant of CandidatePasses: repetitions count as cases.
CandidatePassesRepeated ==
    LET count == Cardinality(DOMAIN result) IN
    /\ stage = "accepted"
    /\ count >= MinCases
    /\ \A c \in Criteria : QualityPassed(c) = count

\* require_candidate_pass on the summary of a candidate with these results.
CandidatePasses ==
    LET count == Cardinality(DOMAIN result) IN
    /\ stage = "accepted"
    /\ count >= MinCases
    /\ Cardinality({k[1] : k \in DOMAIN result}) >= MinCases
    /\ \A c \in Criteria : QualityPassed(c) = count

-----------------------------------------------------------------------------
Next == ReadPage \/ Outcomes

Spec == Init /\ [][Next]_vars

HonestItems  == \A n \in 1..Len(items) :
                    items[n].sound => items[n].grades = truth[items[n].key]
HonestCounts == counts.passed = Cardinality({k \in submitted : AllPass(truth[k])})

-----------------------------------------------------------------------------
\* Every variable stays in its set, and no run is read further than one item
\* beyond what was submitted.
TypeOK ==
    /\ submitted \subseteq Keys
    /\ truth \in [submitted -> Grades]
    /\ counts \in Counts(Cardinality(submitted))
    /\ items \in Seq(Item(submitted)) /\ Len(items) <= Cardinality(submitted) + 1
    /\ pages \in Nat
    /\ stage \in {"reading", "read", "accepted", "failed"}
    /\ DOMAIN result \subseteq submitted

\* Whatever order, repetition or gap the service pages with, accepted results
\* grade exactly the submitted samples; with truthful items, truthfully
\* (experiments.py:394-430).
AcceptedIsPaired ==
    stage = "accepted" =>
        /\ DOMAIN result = submitted
        /\ HonestItems => result = truth

\* A candidate passes only if it really passed every criterion of every sample
\* of enough distinct business cases, even if either the items or the counts
\* (not both) are wrong (release.py:49-61).
GateIsSound ==
    (CandidatePasses /\ (HonestItems \/ HonestCounts)) =>
        /\ \A k \in submitted : AllPass(truth[k])
        /\ Cardinality({k[1] : k \in submitted}) >= MinCases

\* Reading ends on its own, without the deadline, after at most one page more
\* than there are samples, however the service pages (experiments.py:492-511).
PagingIsBounded == pages <= Cardinality(submitted) + 1

\* Reading ends by itself, and what it accepts is what was submitted, against a
\* service that may page as it likes.
ReadingIsSound == PagingIsBounded /\ AcceptedIsPaired
=============================================================================
