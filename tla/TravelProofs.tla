---------------------------- MODULE TravelProofs -----------------------------
(***************************************************************************)
(* What the parts of the Travel agent promise, for datasets, pages, tools, *)
(* conversations and versions of any number.                               *)
(***************************************************************************)
EXTENDS OutputItems, Turn, ToolLoop, GoldenEvaluation, AgentVersion, Traffic,
        FiniteSetTheorems, SequenceTheorems, TLAPS

-----------------------------------------------------------------------------
(* OutputItems.  What is submitted stays as it is and is finite, what is   *)
(* accepted was submitted, and each page is one of a bounded number.       *)

(* What is submitted stays as it is, and is finite. *)

Submission ==
    /\ IsFiniteSet(submitted)
    /\ submitted \subseteq Keys
    /\ truth \in [submitted -> Grades]

SubmittedCount == Cardinality(submitted)

\* The submission never changes.
LEMMA SubmissionFixed == Spec => []Submission
<1>1. Init => Submission
  <2> SUFFICES ASSUME Init PROVE Submission
    OBVIOUS
  <2>1. PICK chosen \in SUBSET Cases, repeats \in 1..Repeats :
          submitted = chosen \X (1..repeats)
    BY DEF Init
  <2>2. IsFiniteSet(chosen)
    BY <2>1, OutputItemsAssumption, FS_Subset
  <2>3. IsFiniteSet(1..repeats)
    BY <2>1, OutputItemsAssumption, FS_Interval
  <2>4. IsFiniteSet(submitted)
    BY <2>1, <2>2, <2>3, FS_Product
  <2>5. submitted \subseteq Keys
    BY <2>1, OutputItemsAssumption DEF Keys
  <2> QED
    BY <2>4, <2>5 DEF Init, Submission
<1>2. Submission /\ [Next]_vars => Submission'
  BY DEF Submission, Next, ReadPage, Outcomes, vars
<1> QED
  BY <1>1, <1>2, PTL DEF Spec

\* A page adds its items, and reading stops at one too many.
LEMMA ExtendedLength ==
    ASSUME SubmittedCount \in Nat, items \in Seq(Item(submitted)), NEW page \in Page(submitted)
    PROVE  /\ Extended(page) \in Seq(Item(submitted))
           /\ Len(items) + Len(page) <= SubmittedCount => Len(Extended(page)) = Len(items) + Len(page)
           /\ Len(items) + Len(page) > SubmittedCount => Len(Extended(page)) = SubmittedCount + 1
           /\ page # <<>> => Len(page) > 0
<1> DEFINE I == Item(submitted)
           all == items \o page
           last == IF Len(all) > SubmittedCount THEN SubmittedCount + 1 ELSE Len(all)
<1>1. page \in Seq(I) /\ Len(page) \in Nat
  <2>1. PICK n \in 0..PageSize : page \in [1..n -> I]
    BY DEF Page
  <2>2. n \in Nat
    BY <2>1, OutputItemsAssumption
  <2> QED
    BY <2>1, <2>2
<1>2. all \in Seq(I) /\ Len(all) = Len(items) + Len(page)
  BY <1>1, ConcatProperties
<1>3. last \in Int /\ \A i \in 1..last : all[i] \in I
  <2>1. Len(all) \in Nat /\ last \in Int /\ last <= Len(all)
    BY <1>1, <1>2
  <2> QED
    BY <1>2, <2>1, ElementOfSeq
<1>4. SubSeq(all, 1, last) \in Seq(I) /\ Len(SubSeq(all, 1, last)) = IF 1 <= last THEN last ELSE 0
  <2> HIDE DEF last, all, I
  <2>1. /\ Len(SubSeq(all, 1, last)) = IF 1 <= last THEN last - 1 + 1 ELSE 0
        /\ SubSeq(all, 1, last) \in Seq(I)
    BY <1>3, SubSeqProperties
  <2> QED
    BY <1>3, <2>1
<1>5. Extended(page) = SubSeq(all, 1, last)
  BY DEF Extended, SubmittedCount
<1>6. page # <<>> => Len(page) > 0
  BY <1>1, EmptySeq
<1> QED
  BY <1>1, <1>2, <1>4, <1>5, <1>6

-----------------------------------------------------------------------------
(* Paging ends by itself. *)

PagingInv ==
    /\ items \in Seq(Item(submitted))
    /\ pages \in Nat
    /\ stage = "reading" => pages <= Len(items) /\ Len(items) <= SubmittedCount
    /\ pages <= SubmittedCount + 1
    /\ Len(items) <= SubmittedCount + 1

\* Every page that is followed by another one brought an item.
LEMMA PagingInvariant == Spec => []PagingInv
<1>1. Submission => SubmittedCount \in Nat
  BY FS_CardinalityType DEF Submission, SubmittedCount
<1>2. Init /\ Submission => PagingInv
  BY <1>1, EmptySeq DEF Init, PagingInv
<1>3. Submission /\ PagingInv /\ [Next]_vars => PagingInv'
  <2> SUFFICES ASSUME Submission, PagingInv, [Next]_vars PROVE PagingInv'
    OBVIOUS
  <2>0. SubmittedCount \in Nat /\ Len(items) \in Nat
    BY <1>1 DEF PagingInv
  <2>1. CASE ReadPage
    <3>1. PICK page \in Page(submitted), more \in BOOLEAN :
            /\ stage = "reading"
            /\ items' = Extended(page)
            /\ pages' = pages + 1
            /\ stage' = IF Len(items') > Cardinality(submitted) THEN "failed"
                        ELSE IF ~more THEN "read"
                        ELSE IF page = <<>> THEN "failed" ELSE "reading"
            /\ UNCHANGED <<submitted, truth, counts, result>>
      BY <2>1 DEF ReadPage
    <3>2. /\ items' \in Seq(Item(submitted'))
          /\ Len(items) + Len(page) <= SubmittedCount => Len(items') = Len(items) + Len(page)
          /\ Len(items) + Len(page) > SubmittedCount => Len(items') = SubmittedCount + 1
          /\ page # <<>> => Len(page) > 0
      BY <2>0, <3>1, ExtendedLength DEF PagingInv
    <3>3. Len(page) \in Nat
      BY OutputItemsAssumption DEF Page
    <3>4. SubmittedCount' = SubmittedCount
      BY <3>1 DEF SubmittedCount
    <3>5. pages <= Len(items) /\ Len(items) <= SubmittedCount /\ pages \in Nat
      BY <3>1 DEF PagingInv
    <3>6. Len(items') <= SubmittedCount + 1 /\ pages' <= SubmittedCount + 1
      BY <2>0, <3>1, <3>2, <3>3, <3>5
    <3>7. stage' = "reading" => Len(items') <= SubmittedCount /\ page # <<>>
      <4> SUFFICES ASSUME stage' = "reading" PROVE Len(items') <= SubmittedCount /\ page # <<>>
        OBVIOUS
      <4>1. ~(Len(items') > SubmittedCount) /\ more /\ page # <<>>
        BY <3>1 DEF SubmittedCount
      <4> QED
        BY <2>0, <3>2, <3>3, <4>1
    <3>8. stage' = "reading" => pages' <= Len(items') /\ Len(items') <= SubmittedCount
      BY <2>0, <3>1, <3>2, <3>3, <3>5, <3>7
    <3> QED
      BY <3>1, <3>2, <3>4, <3>5, <3>6, <3>8 DEF PagingInv
  <2>2. CASE Outcomes
    BY <2>2 DEF Outcomes, PagingInv, SubmittedCount
  <2>3. CASE UNCHANGED vars
    BY <2>3 DEF vars, PagingInv, SubmittedCount
  <2> QED
    BY <2>1, <2>2, <2>3 DEF Next
<1> QED
  BY <1>2, <1>3, SubmissionFixed, PTL DEF Spec

\* However the service pages, reading takes at most one page more than there are
\* samples (experiments.py:491-511).
THEOREM PagingBounded == Spec => []PagingIsBounded
<1>1. PagingInv => PagingIsBounded
  BY DEF PagingInv, PagingIsBounded, SubmittedCount
<1> QED
  BY <1>1, PagingInvariant, PTL

-----------------------------------------------------------------------------
(* AcceptedSubmitted results. *)

KeysRead == {items[n].key : n \in 1..Len(items)}

AcceptedSubmitted ==
    IF stage = "accepted"
    THEN /\ Len(items) = SubmittedCount
         /\ Paired
         /\ Cardinality(Passing) = counts.passed
         /\ result = Returned
    ELSE DOMAIN result = {}

\* Results are the ones outcomes checked, and it is called once.
LEMMA AcceptedInvariant == Spec => []AcceptedSubmitted
<1>1. Init => AcceptedSubmitted
  BY DEF Init, AcceptedSubmitted
<1>2. AcceptedSubmitted /\ [Next]_vars => AcceptedSubmitted'
  <2> SUFFICES ASSUME AcceptedSubmitted, [Next]_vars PROVE AcceptedSubmitted'
    OBVIOUS
  <2>1. CASE ReadPage
    BY <2>1 DEF ReadPage, AcceptedSubmitted
  <2>2. CASE Outcomes
    <3>1. CASE Acceptable(counts')
      <4>1. /\ stage' = "accepted" /\ result' = Returned
            /\ UNCHANGED <<submitted, items>>
        BY <2>2, <3>1 DEF Outcomes
      <4>2. Len(items) = SubmittedCount /\ Paired /\ Cardinality(Passing) = counts'.passed
        BY <3>1 DEF Acceptable, CountsConsistent, SubmittedCount
      <4>3. SubmittedCount' = SubmittedCount /\ Paired' = Paired /\ Passing' = Passing /\ Returned' = Returned
        BY <4>1 DEF SubmittedCount, Paired, Passing, Returned
      <4> QED
        BY <4>1, <4>2, <4>3 DEF AcceptedSubmitted
    <3>2. CASE ~Acceptable(counts')
      BY <2>2, <3>2 DEF Outcomes, AcceptedSubmitted
    <3> QED
      BY <3>1, <3>2
  <2>3. CASE UNCHANGED vars
    BY <2>3 DEF vars, AcceptedSubmitted, SubmittedCount, Paired, Passing, Returned
  <2> QED
    BY <2>1, <2>2, <2>3 DEF Next
<1> QED
  BY <1>1, <1>2, PTL DEF Spec

\* As many sound items as samples, no two of one sample: one of each.
LEMMA ReadInFull ==
    ASSUME Submission, PagingInv, AcceptedSubmitted, stage = "accepted"
    PROVE  /\ SubmittedCount \in Nat
           /\ KeysRead = submitted
           /\ DOMAIN result = submitted
           /\ \A n \in 1..SubmittedCount : /\ items[n].sound
                              /\ items[n].key \in submitted
                              /\ result[items[n].key] = items[n].grades
<1> DEFINE f == [n \in 1..SubmittedCount |-> items[n].key]
<1>1. SubmittedCount \in Nat /\ Len(items) = SubmittedCount /\ Paired /\ result = Returned
  BY FS_CardinalityType DEF Submission, SubmittedCount, AcceptedSubmitted
<1>2. \A n \in 1..SubmittedCount : items[n].sound /\ items[n].key \in submitted
  <2> SUFFICES ASSUME NEW n \in 1..SubmittedCount PROVE items[n].sound /\ items[n].key \in submitted
    OBVIOUS
  <2>1. items[n] \in Item(submitted)
    BY <1>1, ElementOfSeq DEF PagingInv
  <2>2. items[n].sound
    BY <1>1 DEF Paired
  <2> QED
    BY <2>1, <2>2 DEF Item, Sound, Unsound
<1>3. f \in Injection(1..SubmittedCount, submitted)
  <2>1. f \in [1..SubmittedCount -> submitted]
    BY <1>2
  <2>2. \A m, n \in 1..SubmittedCount : f[m] = f[n] => m = n
    BY <1>1 DEF Paired
  <2> HIDE DEF f
  <2> QED
    BY <2>1, <2>2 DEF Injection, IsInjective
<1>4. Cardinality(1..SubmittedCount) = Cardinality(submitted)
  BY <1>1, FS_Interval DEF SubmittedCount
<1>5. f \in Surjection(1..SubmittedCount, submitted)
  BY <1>3, <1>4, FS_Injection DEF Submission
<1>6. KeysRead = submitted
  <2>1. \A k \in submitted : \E n \in 1..SubmittedCount : f[n] = k
    <3> HIDE DEF f
    <3> QED
      BY <1>5 DEF Surjection
  <2>2. \A k \in submitted : \E n \in 1..SubmittedCount : items[n].key = k
    BY <2>1
  <2> QED
    BY <1>1, <1>2, <2>2 DEF KeysRead
<1>7. ASSUME NEW n \in 1..SubmittedCount PROVE result[items[n].key] = items[n].grades
  <2> DEFINE m == CHOOSE i \in 1..Len(items) : items[i].key = items[n].key
  <2>1. m \in 1..Len(items) /\ items[m].key = items[n].key
    BY <1>1
  <2>2. m = n
    BY <1>1, <2>1 DEF Paired
  <2>3. result[items[n].key] = items[m].grades
    BY <1>1 DEF Returned
  <2> QED
    BY <2>2, <2>3
<1>8. DOMAIN result = submitted
  BY <1>1, <1>6 DEF Returned, KeysRead
<1> QED
  BY <1>1, <1>2, <1>6, <1>7, <1>8

\* AcceptedSubmitted results grade exactly the submitted samples, and truthfully if the
\* items are truthful (experiments.py:394-430).
LEMMA PairedState == Submission /\ PagingInv /\ AcceptedSubmitted => AcceptedIsPaired
<1> SUFFICES ASSUME Submission, PagingInv, AcceptedSubmitted, stage = "accepted"
             PROVE  DOMAIN result = submitted /\ (HonestItems => result = truth)
  BY DEF AcceptedIsPaired
<1>1. ASSUME HonestItems, NEW k \in submitted PROVE result[k] = truth[k]
  <2>1. PICK n \in 1..SubmittedCount : items[n].key = k
    BY ReadInFull DEF KeysRead, AcceptedSubmitted
  <2>2. items[n].sound /\ result[k] = items[n].grades
    BY <2>1, ReadInFull
  <2>3. items[n].grades = truth[k]
    BY <1>1, <2>1, <2>2 DEF HonestItems, AcceptedSubmitted
  <2> QED
    BY <2>2, <2>3
<1>2. result = [k \in submitted |-> result[k]] /\ truth = [k \in submitted |-> truth[k]]
  BY ReadInFull DEF Submission, AcceptedSubmitted, Returned
<1> QED
  BY <1>1, <1>2, ReadInFull

\* Every accepted comparison of the two sides is paired (experiments.py:394-430).
THEOREM AcceptedPaired == Spec => []AcceptedIsPaired
BY SubmissionFixed, PagingInvariant, AcceptedInvariant, PairedState, PTL

\* A criterion that as many samples passed as there are, all of them passed.
LEMMA CandidateAllPass ==
    ASSUME Submission, PagingInv, AcceptedSubmitted, CandidatePasses
    PROVE  /\ stage = "accepted"
           /\ \A k \in submitted : AllPass(result[k])
           /\ Cardinality({k[1] : k \in submitted}) >= MinCases
<1>1. stage = "accepted" /\ DOMAIN result = submitted
  BY ReadInFull DEF CandidatePasses
<1>2. ASSUME NEW c \in Criteria, NEW k \in submitted PROVE result[k][c]
  <2> DEFINE passed == {q \in submitted : result[q][c]}
  <2>1. Cardinality(passed) = Cardinality(submitted)
    BY <1>1 DEF CandidatePasses, QualityPassed
  <2>2. passed = submitted
    BY <2>1, FS_Subset DEF Submission
  <2> QED
    BY <2>2
<1> QED
  BY <1>1, <1>2 DEF CandidatePasses, AllPass

\* Either truthful items or a truthful count of passes carries the gate over to
\* what the graders gave.
LEMMA GateState == Submission /\ PagingInv /\ AcceptedSubmitted => GateIsSound
<1> SUFFICES ASSUME Submission, PagingInv, AcceptedSubmitted, CandidatePasses,
                    HonestItems \/ HonestCounts
             PROVE  \A k \in submitted : AllPass(truth[k])
  BY CandidateAllPass DEF GateIsSound
<1>1. stage = "accepted" /\ \A k \in submitted : AllPass(result[k])
  BY CandidateAllPass
<1>2. CASE HonestItems
  BY <1>1, <1>2, PairedState DEF AcceptedIsPaired
<1>3. CASE HonestCounts
  <2> DEFINE truly == {k \in submitted : AllPass(truth[k])}
  <2>1. SubmittedCount \in Nat /\ Len(items) = SubmittedCount
    BY <1>1, ReadInFull DEF AcceptedSubmitted
  <2>2. \A n \in 1..SubmittedCount : AllPass(items[n].grades)
    BY <1>1, ReadInFull
  <2>3. Passing = 1..SubmittedCount
    BY <2>1, <2>2 DEF Passing
  <2>4. Cardinality(truly) = Cardinality(submitted)
    BY <1>1, <1>3, <2>1, <2>3, FS_Interval DEF HonestCounts, AcceptedSubmitted, SubmittedCount
  <2>5. truly = submitted
    BY <2>4, FS_Subset DEF Submission
  <2> QED
    BY <2>5
<1> QED
  BY <1>2, <1>3

\* No repetition, loss or mislabelling of items, nor a wrong count alone, lets a
\* candidate through that failed a sample (release.py:49-61).
THEOREM GateSound == Spec => []GateIsSound
BY SubmissionFixed, PagingInvariant, AcceptedInvariant, GateState, PTL

-----------------------------------------------------------------------------
CountsOK == counts \in Counts(SubmittedCount)
StageOK  == stage \in {"reading", "read", "accepted", "failed"}

\* Every variable keeps its type, and no more than one extra item is read.
THEOREM ReadingTypeCorrect == Spec => []TypeOK
<1>1. Init /\ Submission => CountsOK
  <2> SUFFICES ASSUME Init, Submission PROVE CountsOK
    OBVIOUS
  <2>1. SubmittedCount \in Nat
    BY FS_CardinalityType DEF Submission, SubmittedCount
  <2> QED
    BY <2>1 DEF Init, CountsOK, Counts
<1>2. CountsOK /\ [Next]_vars => CountsOK'
  BY DEF CountsOK, Next, ReadPage, Outcomes, vars, SubmittedCount
<1>3. StageOK /\ [Next]_vars => StageOK'
  BY DEF StageOK, Next, ReadPage, Outcomes, vars
<1>4. Init => StageOK
  BY DEF Init, StageOK
<1>5. Submission /\ PagingInv /\ AcceptedSubmitted /\ CountsOK /\ StageOK => TypeOK
  BY ReadInFull DEF Submission, PagingInv, AcceptedSubmitted, CountsOK, StageOK, TypeOK, SubmittedCount
<1> QED
  BY <1>1, <1>2, <1>3, <1>4, <1>5, SubmissionFixed, PagingInvariant, AcceptedInvariant, PTL
     DEF Spec

\* Against a service that repeats, drops and reorders items and promises pages for
\* ever, reading is bounded and accepts the submission only (experiments.py:394-513).
THEOREM ReadingSound == Spec => []ReadingIsSound
<1>1. PagingIsBounded /\ AcceptedIsPaired => ReadingIsSound
  BY DEF ReadingIsSound
<1> QED
  BY <1>1, PagingBounded, AcceptedPaired, PTL

-----------------------------------------------------------------------------
(* ToolLoop.  A listed call was audited before it was listed, and an audit *)
(* is not revised.                                                         *)

(* The positions listed are positions of the audit.                        *)
LoopInv ==
    /\ trail \in Seq(BOOLEAN)
    /\ listed \in Seq(Nat)
    /\ \A i \in DOMAIN listed : listed[i] \in DOMAIN trail
    /\ ListedWereExecuted

\* A call is listed when it is audited, or never.
LEMMA LoopInvariant == LoopSpec => []LoopInv
<1>1. LoopInit => LoopInv
  BY DEF LoopInit, LoopInv, ListedWereExecuted
<1>2. LoopInv /\ [LoopNext]_looping => LoopInv'
  <2> SUFFICES ASSUME LoopInv, [LoopNext]_looping PROVE LoopInv'
    OBVIOUS
  <2>1. CASE Execute
    <3>1. PICK success \in BOOLEAN :
            /\ trail' = Append(trail, success)
            /\ listed' = IF success THEN Append(listed, Len(trail) + 1) ELSE listed
      BY <2>1 DEF Execute
    <3>2. /\ trail' \in Seq(BOOLEAN) /\ Len(trail') = Len(trail) + 1
          /\ \A n \in 1 .. Len(trail) : trail'[n] = trail[n]
          /\ trail'[Len(trail) + 1] = success
      BY <3>1 DEF LoopInv
    <3>3. CASE success
      <4>1. /\ listed' \in Seq(Nat) /\ Len(listed') = Len(listed) + 1
            /\ \A i \in 1 .. Len(listed) : listed'[i] = listed[i]
            /\ listed'[Len(listed) + 1] = Len(trail) + 1
        BY <3>1, <3>3 DEF LoopInv
      <4> DEFINE k == Len(listed)
                 n == Len(trail)
      <4>2. /\ k \in Nat /\ n \in Nat /\ DOMAIN listed = 1 .. k /\ DOMAIN trail = 1 .. n
            /\ DOMAIN listed' = 1 .. k + 1 /\ DOMAIN trail' = 1 .. n + 1
            /\ \A i \in 1 .. k : listed'[i] = listed[i]
            /\ \A m \in 1 .. n : trail'[m] = trail[m]
            /\ listed'[k + 1] = n + 1 /\ trail'[n + 1]
        BY <3>2, <3>3, <4>1 DEF LoopInv
      <4> HIDE DEF k, n
      <4>3. /\ \A i \in 1 .. k : listed[i] \in 1 .. n /\ trail[listed[i]]
            /\ \A i, j \in 1 .. k : i < j => listed[i] < listed[j]
            /\ \A m \in 1 .. n : trail[m] => \E i \in 1 .. k : listed[i] = m
        BY <4>2 DEF LoopInv, ListedWereExecuted
      <4>4. \A i \in DOMAIN listed' : listed'[i] \in DOMAIN trail' /\ trail'[listed'[i]]
        BY <4>2, <4>3
      <4>5. \A i, j \in DOMAIN listed' : i < j => listed'[i] < listed'[j]
        BY <4>2, <4>3
      <4>6. \A m \in DOMAIN trail' : trail'[m] => \E i \in DOMAIN listed' : listed'[i] = m
        <5> SUFFICES ASSUME NEW m \in 1 .. n + 1, trail'[m] PROVE \E i \in 1 .. k + 1 : listed'[i] = m
          BY <4>2
        <5>1. CASE m = n + 1
          BY <4>2, <5>1
        <5>2. CASE m # n + 1
          <6>1. m \in 1 .. n
            BY <4>2, <5>2
          <6>2. PICK i \in 1 .. k : listed[i] = m
            BY <4>2, <4>3, <6>1
          <6> QED
            BY <4>2, <6>2
        <5> QED
          BY <5>1, <5>2
      <4> QED
        BY <3>2, <4>1, <4>4, <4>5, <4>6 DEF LoopInv, ListedWereExecuted
    <3>4. CASE ~ success
      BY <3>1, <3>2, <3>4 DEF LoopInv, ListedWereExecuted
    <3> QED
      BY <3>3, <3>4
  <2>2. CASE UNCHANGED <<trail, listed>>
    BY <2>2 DEF LoopInv, ListedWereExecuted
  <2>3. Prompt \/ RefuseArguments \/ SendOutputs => UNCHANGED <<trail, listed>>
    BY DEF Prompt, RefuseArguments, SendOutputs
  <2>4. ASSUME NEW calls \in 0 .. MaxAsked, Respond(calls) PROVE UNCHANGED <<trail, listed>>
    BY <2>4 DEF Respond
  <2> QED
    BY <2>1, <2>2, <2>3, <2>4 DEF LoopNext, Work, looping
<1> QED
  BY <1>1, <1>2, PTL DEF LoopSpec

(* The calls the runtime lists as executed are those the Toolbox audited   *)
(* as successes, in order and without a gap, over any number of turns.     *)
THEOREM ListedExecuted == LoopSpec => []ListedWereExecuted
<1>1. LoopInv => ListedWereExecuted
  BY DEF LoopInv
<1> QED
  BY <1>1, LoopInvariant, PTL

-----------------------------------------------------------------------------
(* Turn.  What the response reports was said or called in the one          *)
(* conversation of the turn, and what is served was authorized.            *)

Calls == [kind : {"call", "callback"}, name : Names, arguments : Arguments,
          completed : BOOLEAN, output : BOOLEAN]

Served == [operation : Operations \cup Tools, status : {200, 400, 401, 500}]

(* A call with a valid item was answered under the one tool its name       *)
(* means: what reached the service and what the platform reports run in    *)
(* step until an item is not valid, and then the turn cannot be good.      *)
TurnInv ==
    /\ reported \in Seq(Calls) /\ served \in Seq(Served)
    /\ turnStage \in {"idle", "asked"}
    /\ turnStage = "asked" => response = Silence /\ executed = <<>> /\ verdict = "none"
    /\ (\A i \in DOMAIN reported : Valid(reported[i])) =>
          /\ Len(served) = Len(reported)
          /\ \A i \in DOMAIN reported : served[i].operation = OperationName(reported[i].name)
    /\ EvidenceIsOfThisTurn
    /\ EvidenceWasServed

\* A name that means one tool means the operation called.
LEMMA NamedIsCalled ==
    ASSUME NEW name \in Names, Named(name), NEW operation, operation \in Means[name] \/ Means[name] = {}
    PROVE  operation = OperationName(name)
<1>1. PICK tool \in Tools : Means[name] \cap Tools = {tool}
  BY DEF Named
<1>2. Means[name] = {tool}
  BY <1>1, MeansAssumption
<1> QED
  BY <1>1, <1>2 DEF OperationName

\* An item that is not valid stays, and with it the turn is not good.
LEMMA AppendInvalid ==
    ASSUME TurnInv, NEW item \in Calls, ~ Valid(item), reported' = Append(reported, item)
    PROVE  reported' \in Seq(Calls) /\ ~ \A i \in DOMAIN reported' : Valid(reported'[i])
<1>1. /\ reported' \in Seq(Calls) /\ Len(reported) + 1 \in DOMAIN reported'
      /\ reported'[Len(reported) + 1] = item
  BY DEF TurnInv
<1> QED
  BY <1>1

LEMMA TurnInvariant == TurnSpec => []TurnInv
<1>1. TurnInit => TurnInv
  BY DEF TurnInit, TurnInv, EvidenceIsOfThisTurn, EvidenceWasServed
<1>2. TurnInv /\ [TurnNext]_turns => TurnInv'
  <2> SUFFICES ASSUME TurnInv, [TurnNext]_turns PROVE TurnInv'
    OBVIOUS
  <2>1. ASSUME NEW prompt \in BOOLEAN, Begin(prompt) PROVE TurnInv'
    <3>1. CASE prompt
      <4>1. /\ turnStage' = "asked" /\ reported' = <<>> /\ served' = <<>>
            /\ response' = Silence /\ executed' = <<>> /\ verdict' = "none"
        BY <2>1, <3>1 DEF Begin
      <4> QED
        BY <4>1 DEF TurnInv, EvidenceIsOfThisTurn, EvidenceWasServed
    <3>2. CASE ~ prompt
      <4>1. /\ verdict' = "error" /\ response' = Silence /\ executed' = <<>>
            /\ UNCHANGED <<turnStage, reported, served>> /\ turnStage = "idle"
        BY <2>1, <3>2 DEF Begin, Refused
      <4> QED
        BY <4>1 DEF TurnInv, EvidenceIsOfThisTurn, EvidenceWasServed
    <3> QED
      BY <3>1, <3>2
  <2>2. ASSUME NEW name \in Names, NEW operation \in Operations \cup Tools, NEW arguments \in Arguments,
               NEW key \in BOOLEAN, NEW request \in BOOLEAN,
               ServeCall(name, operation, arguments, key, request)
        PROVE  TurnInv'
    <3>0. PICK status \in Status(key, request, operation, arguments) :
            served' = Append(served, [operation |-> operation, status |-> status])
      BY <2>2 DEF ServeCall
    <3> DEFINE answer == [operation |-> operation, status |-> status]
    <3>1. PICK item \in Calls :
            item.name = name /\ reported' = Append(reported, item)
      BY <2>2 DEF ServeCall, Calls
    <3>2. answer \in Served /\ served' = Append(served, answer) /\ turnStage = "asked"
      BY <2>2, <3>0 DEF ServeCall, Served, Status
    <3>3. reported' \in Seq(Calls) /\ served' \in Seq(Served)
      BY <3>1, <3>2 DEF TurnInv
    <3>4. (\A i \in DOMAIN reported' : Valid(reported'[i])) =>
            /\ Len(served') = Len(reported')
            /\ \A i \in DOMAIN reported' : served'[i].operation = OperationName(reported'[i].name)
      <4> SUFFICES ASSUME \A i \in DOMAIN reported' : Valid(reported'[i])
                   PROVE  /\ Len(served') = Len(reported')
                          /\ \A i \in DOMAIN reported' :
                                served'[i].operation = OperationName(reported'[i].name)
        OBVIOUS
      <4> DEFINE n == Len(reported)
      <4>1. /\ n \in Nat /\ DOMAIN reported = 1 .. n /\ Len(reported') = n + 1 /\ DOMAIN reported' = 1 .. n + 1
            /\ \A i \in 1 .. n : reported'[i] = reported[i]
            /\ reported'[n + 1] = item
        BY <3>1 DEF TurnInv
      <4>2. \A i \in DOMAIN reported : Valid(reported[i])
        BY <4>1
      <4>3. /\ Len(served) = n
            /\ \A i \in 1 .. n : served[i].operation = OperationName(reported[i].name)
        BY <4>1, <4>2 DEF TurnInv
      <4>4. /\ Len(served') = n + 1
            /\ \A i \in 1 .. n : served'[i] = served[i]
            /\ served'[n + 1] = answer
        BY <3>2, <4>1, <4>3 DEF TurnInv
      <4>5. Valid(item)
        BY <4>1
      <4>6. answer.operation = OperationName(item.name)
        BY <4>5, <3>1, <2>2, NamedIsCalled DEF Valid, ServeCall
      <4> HIDE DEF n, answer
      <4>7. \A i \in 1 .. n + 1 : served'[i].operation = OperationName(reported'[i].name)
        <5> SUFFICES ASSUME NEW i \in 1 .. n + 1 PROVE served'[i].operation = OperationName(reported'[i].name)
          OBVIOUS
        <5>1. CASE i = n + 1
          BY <4>1, <4>4, <4>6, <5>1
        <5>2. CASE i # n + 1
          <6>1. i \in 1 .. n
            BY <4>1, <5>2
          <6> QED
            BY <4>1, <4>3, <4>4, <6>1
        <5> QED
          BY <5>1, <5>2
      <4> QED
        BY <4>1, <4>4, <4>7
    <3>5. turnStage' = "asked" /\ response' = Silence /\ executed' = <<>> /\ verdict' = "none"
      BY <2>2, <3>2 DEF ServeCall, TurnInv
    <3> QED
      BY <3>3, <3>4, <3>5 DEF TurnInv, EvidenceIsOfThisTurn, EvidenceWasServed
  <2>3. ASSUME NEW name \in Names, LoseCall(name) \/ AskBack(name) PROVE TurnInv'
    <3>1. PICK item \in Calls : ~ Valid(item) /\ reported' = Append(reported, item)
      BY <2>3 DEF LoseCall, AskBack, Calls, Valid, Arguments
    <3>2. reported' \in Seq(Calls) /\ ~ \A i \in DOMAIN reported' : Valid(reported'[i])
      BY <3>1, AppendInvalid
    <3>3. turnStage = "asked" /\ UNCHANGED <<turnStage, served, response, executed, verdict>>
      BY <2>3 DEF LoseCall, AskBack
    <3> QED
      BY <3>2, <3>3 DEF TurnInv, EvidenceIsOfThisTurn, EvidenceWasServed
  <2>4. CASE Fail
    BY <2>4 DEF Fail, TurnInv, EvidenceIsOfThisTurn, EvidenceWasServed
  <2>5. ASSUME NEW text \in BOOLEAN, Reply(text) PROVE TurnInv'
    <3>1. /\ turnStage = "asked" /\ turnStage' = "idle" /\ response' = turn
          /\ UNCHANGED <<turn, reported, served>>
      BY <2>5 DEF Reply
    <3>2. CASE text /\ \A i \in DOMAIN reported : Valid(reported[i])
      <4>1. /\ verdict' = "ok"
            /\ executed' = [i \in DOMAIN reported |-> OperationName(reported[i].name)]
        BY <2>5, <3>2 DEF Reply
      <4>2. DOMAIN served = DOMAIN reported
        BY <3>2 DEF TurnInv
      <4>3. executed' = [i \in DOMAIN served |-> served[i].operation]
        BY <3>2, <4>1, <4>2 DEF TurnInv
      <4> QED
        BY <3>1, <4>1, <4>3 DEF TurnInv, EvidenceIsOfThisTurn, EvidenceWasServed
    <3>3. CASE ~ (text /\ \A i \in DOMAIN reported : Valid(reported[i]))
      <4>1. verdict' = "error" /\ executed' = executed
        BY <2>5, <3>3 DEF Reply
      <4> QED
        BY <3>1, <4>1 DEF TurnInv, EvidenceIsOfThisTurn, EvidenceWasServed
    <3> QED
      BY <3>2, <3>3
  <2>6. CASE UNCHANGED turns
    BY <2>6 DEF turns, TurnInv, EvidenceIsOfThisTurn, EvidenceWasServed
  <2> QED
    BY <2>1, <2>2, <2>3, <2>4, <2>5, <2>6 DEF TurnNext
<1> QED
  BY <1>1, <1>2, PTL DEF TurnSpec

(* Between turns nothing of an earlier turn shows, and the calls of a good *)
(* turn are those the tool service answered in it, in their order          *)
(* (runtime.py:177).                                                       *)
THEOREM TurnEvidence == TurnSpec => []TurnEvidenceIsTrue
<1>1. TurnInv => TurnEvidenceIsTrue
  BY DEF TurnInv, TurnEvidenceIsTrue
<1> QED
  BY <1>1, TurnInvariant, PTL

-----------------------------------------------------------------------------
(* GoldenEvaluation.  Rows are evaluated in turn, so the number of         *)
(* verdicts is the row that comes next.                                    *)

Verdicts == {"passed", "failed", "errored"}

(* The samples are complete when there is a run, a run that is completed   *)
(* stays so with its grades, and what was read of it was so.               *)
GoldenInv ==
    /\ samples \in Seq(Replies)
    /\ step \in {"collect", "check", "sleep", "items", "ended"}
    /\ progress \in {"none", "queued", "in_progress", "completed", "failed", "canceled"}
    /\ progress # "none" => Len(samples) = Len(Rows)
    /\ step = "collect" => progress = "none"
    /\ step \in {"check", "sleep", "items"} => progress # "none"
    /\ seen = "completed" => progress = "completed"
    /\ step = "items" => seen = "completed"
    /\ progress = "completed" =>
          /\ grades \in [DOMAIN samples -> Verdicts]
          /\ \A i \in DOMAIN samples : grades[i] \in GradesOf(i)
    /\ ended = "passed" =>
          /\ step = "ended" /\ progress = "completed"
          /\ \A i \in DOMAIN samples : grades[i] = "passed"

\* Counts of zero mean that nothing has that grade.
LEMMA NoneGraded ==
    ASSUME GoldenInv, progress = "completed", Graded("errored") = 0, Graded("failed") = 0
    PROVE  \A i \in DOMAIN samples : grades[i] = "passed"
<1>1. DOMAIN samples = 1 .. Len(samples) /\ Len(samples) \in Nat
  BY DEF GoldenInv
<1>2. grades \in [DOMAIN samples -> Verdicts]
  BY DEF GoldenInv
<1>3. ASSUME NEW g, Graded(g) = 0 PROVE {i \in DOMAIN grades : grades[i] = g} = {}
  <2>1. IsFiniteSet(DOMAIN grades)
    BY <1>1, <1>2, FS_Interval
  <2>2. IsFiniteSet({i \in DOMAIN grades : grades[i] = g})
    BY <2>1, FS_Subset
  <2> QED
    BY <1>3, <2>2, FS_EmptySet DEF Graded
<1>4. \A i \in DOMAIN samples : grades[i] # "errored" /\ grades[i] # "failed"
  BY <1>2, <1>3
<1> QED
  BY <1>2, <1>4 DEF Verdicts

LEMMA GoldenInvariant == GoldenSpec => []GoldenInv
<1>1. GoldenInit => GoldenInv
  BY DEF GoldenInit, GoldenInv
<1>2. GoldenInv /\ [GoldenNext]_golden => GoldenInv'
  <2> SUFFICES ASSUME GoldenInv, [GoldenNext]_golden PROVE GoldenInv'
    OBVIOUS
  <2>1. ASSUME NEW reply \in Replies, Collect(reply) PROVE GoldenInv'
    <3>1. step = "collect" /\ UNCHANGED <<progress, grades, seen, timer>>
      BY <2>1 DEF Collect
    <3>2. samples' \in Seq(Replies)
      BY <2>1 DEF Collect, GoldenInv
    <3>3. progress = "none" /\ seen # "completed" /\ ended # "passed"
      BY <3>1 DEF GoldenInv
    <3>4. step' \in {"collect", "ended"} /\ ended' # "passed"
      BY <2>1, <3>1, <3>3 DEF Collect, End
    <3> QED
      BY <3>1, <3>2, <3>3, <3>4 DEF GoldenInv
  <2>2. CASE RequestFails
    BY <2>2 DEF RequestFails, End, GoldenInv, GradesOf
  <2>3. CASE CreateRun
    <3>1. /\ step = "collect" /\ Len(samples) = Len(Rows) /\ UNCHANGED <<samples, grades, timer>>
          /\ \/ step' = "ended" /\ ended' = "error" /\ progress' = progress /\ seen' = seen
             \/ step' = "check" /\ ended' = ended /\ progress' = "queued" /\ seen' = "queued"
      BY <2>3 DEF CreateRun, End
    <3> QED
      BY <3>1 DEF GoldenInv
  <2>4. CASE Advance
    <3>1. /\ progress \in {"queued", "in_progress"} /\ UNCHANGED <<samples, seen, timer, step, ended>>
          /\ progress' \in {"in_progress", "failed", "canceled", "completed"}
          /\ progress' = "completed" =>
                /\ grades' \in [DOMAIN samples -> Verdicts]
                /\ \A i \in DOMAIN samples : grades'[i] \in GradesOf(i)
      BY <2>4 DEF Advance, Verdicts
    <3>2. ended # "passed" /\ seen # "completed"
      BY <3>1 DEF GoldenInv
    <3>3. \A i \in DOMAIN samples : GradesOf(i)' = GradesOf(i)
      BY <3>1 DEF GradesOf
    <3> QED
      BY <3>1, <3>2, <3>3 DEF GoldenInv
  <2>5. CASE Check \/ RetrieveRun
    <3>1. UNCHANGED <<samples, progress, grades>> /\ (step = "check" \/ step = "sleep")
      BY <2>5 DEF Check, RetrieveRun
    <3>2. seen' = "completed" => progress = "completed"
      BY <2>5 DEF Check, RetrieveRun, GoldenInv
    <3>3. step' \in {"check", "sleep", "items", "ended"} /\ ended' # "passed"
      BY <2>5, <3>1 DEF Check, RetrieveRun, End, GoldenInv
    <3>4. step' = "items" => seen' = "completed"
      BY <2>5 DEF Check, RetrieveRun, End
    <3>5. \A i \in DOMAIN samples : GradesOf(i)' = GradesOf(i)
      BY <3>1 DEF GradesOf
    <3> QED
      BY <3>1, <3>2, <3>3, <3>4, <3>5 DEF GoldenInv
  <2>6. ASSUME NEW count \in 0 .. Len(Rows), ListItems(count) PROVE GoldenInv'
    <3>1. step = "items" /\ step' = "ended" /\ UNCHANGED <<samples, progress, grades, seen, timer>>
      BY <2>6 DEF ListItems, End
    <3>2. progress = "completed" /\ ended # "passed"
      BY <3>1 DEF GoldenInv
    <3>3. Graded("errored") \in Nat /\ Graded("failed") \in Nat
      <4>1. IsFiniteSet(DOMAIN grades)
        BY <3>2, FS_Interval DEF GoldenInv
      <4> QED
        BY <4>1, FS_Subset, FS_CardinalityType DEF Graded
    <3>4. ended' = "passed" => \A i \in DOMAIN samples : grades[i] = "passed"
      <4> SUFFICES ASSUME ended' = "passed" PROVE \A i \in DOMAIN samples : grades[i] = "passed"
        OBVIOUS
      <4>1. Graded("errored") = 0 /\ Graded("failed") = 0
        BY <2>6, <3>3 DEF ListItems, End
      <4> QED
        BY <3>2, <4>1, NoneGraded
    <3>5. \A i \in DOMAIN samples : GradesOf(i)' = GradesOf(i)
      BY <3>1 DEF GradesOf
    <3> QED
      BY <3>1, <3>2, <3>4, <3>5 DEF GoldenInv
  <2>7. CASE UNCHANGED golden
    BY <2>7 DEF golden, GoldenInv, GradesOf
  <2> QED
    BY <2>1, <2>2, <2>3, <2>4, <2>5, <2>6, <2>7 DEF GoldenNext, Evaluate
<1> QED
  BY <1>1, <1>2, PTL DEF GoldenSpec

(* A candidate passes only with an answer to every golden row that the     *)
(* checks of the run accept, however the platform works and its polls come *)
(* (evaluation.py:1).                                                      *)
THEOREM GoldenPassed == GoldenSpec => []PassedOnEveryRow
<1>1. GoldenInv => PassedOnEveryRow
  <2> SUFFICES ASSUME GoldenInv, ended = "passed" PROVE PassedOnEveryRow
    BY DEF PassedOnEveryRow
  <2>1. /\ progress = "completed" /\ Len(samples) = Len(Rows) /\ samples \in Seq(Replies)
        /\ \A i \in DOMAIN samples : grades[i] = "passed" /\ grades[i] \in GradesOf(i)
    BY DEF GoldenInv
  <2>2. DOMAIN samples = DOMAIN Rows
    BY <2>1, GoldenAssumption DEF IsSequence
  <2>3. ASSUME NEW i \in DOMAIN Rows
        PROVE  LET reply == samples[i] IN
               /\ grades[i] = "passed"
               /\ Rows[i].include \subseteq reply.says
               /\ Rows[i].exclude \cap reply.says = {}
               /\ [j \in DOMAIN reply.calls |-> reply.calls[j].name]
                     = [j \in DOMAIN Rows[i].expected |-> Rows[i].expected[j].name]
    <3> DEFINE item == EvalItem(Rows[i], samples[i])
    <3>1. grades[i] = "passed" /\ grades[i] \in GradesOf(i)
      BY <2>1, <2>2
    <3>2. item.safety /\ item.task /\ item.tool
      BY <3>1 DEF GradesOf
    <3>3. CallsMatch(samples[i].calls, Rows[i].expected)
      BY <3>2 DEF EvalItem
    <3>4. samples[i] \in Replies
      BY <2>1, <2>2
    <3>5. DOMAIN samples[i].calls = DOMAIN Rows[i].expected
      BY <3>3, <3>4, GoldenAssumption DEF IsSequence, CallsMatch
    <3>6. [j \in DOMAIN samples[i].calls |-> samples[i].calls[j].name]
             = [j \in DOMAIN Rows[i].expected |-> Rows[i].expected[j].name]
      BY <3>3, <3>5 DEF CallsMatch
    <3>7. Rows[i].include \subseteq samples[i].says /\ Rows[i].exclude \cap samples[i].says = {}
      BY <3>2 DEF EvalItem
    <3> QED
      BY <3>1, <3>6, <3>7
  <2> QED
    BY <2>1, <2>2, <2>3 DEF PassedOnEveryRow
<1> QED
  BY <1>1, GoldenInvariant, PTL

-----------------------------------------------------------------------------
(* AgentVersion.  A version keeps what it was created with, so whoever     *)
(* reads it back compares its own manifest with its own version.           *)

\* What build_agent_definition makes of a document and a target.
Rendering(loaded, url) ==
    [instructions |-> loaded.instructions, model |-> loaded.model,
     operations |-> loaded.operations, connection |-> loaded.connection, url |-> url]

Renderings ==
    [instructions : {d.instructions : d \in AgentDocuments} \cup {"altered"},
     model : {d.model : d \in AgentDocuments}, operations : {d.operations : d \in AgentDocuments},
     connection : {d.connection : d \in AgentDocuments}, url : Targets]

Version ==
    [name : {d.name : d \in AgentDocuments} \cup {"other"}, definition : Renderings,
     digest : {Digest(d) : d \in AgentDocuments} \cup {<<>>}]

Sent == {"create", "readback", "made"}
Given == {"readback", "made"}

(* Each creator works on the document it loaded and the version it was     *)
(* given, which is no other's; a manifest is its maker's.                  *)
VersionTypes ==
    /\ target \in Targets
    /\ spec \in [Creators -> AgentDocuments \cup {Unmade}]
    /\ doing \in [Creators -> {"load", "connection", "create", "readback", "made", "error"}]
    /\ rendered \in [Creators -> Renderings \cup {Unmade}]
    /\ versions \in Seq(Version)
    /\ created \in [Creators -> Nat \cup {Unmade}]

CreatorsApart ==
    /\ \A c \in Creators : doing[c] # "load" => spec[c] \in AgentDocuments
    /\ \A c \in Creators : doing[c] \in Sent => \E url \in Targets : rendered[c] = Rendering(spec[c], url)
    /\ \A c \in Creators : doing[c] \in Given => created[c] \in DOMAIN versions
    /\ \A c, d \in Creators : doing[c] \in Given /\ doing[d] \in Given /\ created[c] = created[d] => c = d

ManifestsKept ==
    \A m \in manifests :
        /\ m.by \in Creators /\ doing[m.by] = "made"
        /\ m.version = created[m.by] /\ m.digest = Digest(spec[m.by])
        /\ versions[m.version].definition = rendered[m.by]
        /\ versions[m.version].digest = m.digest

VersionInv == VersionTypes /\ CreatorsApart /\ ManifestsKept

LEMMA RenderingTyped ==
    ASSUME NEW d \in AgentDocuments, NEW url \in Targets
    PROVE  Rendering(d, url) \in Renderings
BY DEF Rendering, Renderings

LEMMA VersionInvariant == VersionSpec => []VersionInv
<1>1. VersionInit => VersionInv
  BY DEF VersionInit, VersionInv, VersionTypes, CreatorsApart, ManifestsKept, Sent, Given
<1>2. VersionInv /\ [VersionNext]_creating => VersionInv'
  <2> SUFFICES ASSUME VersionInv, [VersionNext]_creating PROVE VersionInv'
    OBVIOUS
  <2> USE DEF VersionInv
  <2>1. ASSUME NEW t \in Targets, Retarget(t) PROVE VersionInv'
    BY <2>1 DEF Retarget, VersionTypes, CreatorsApart, ManifestsKept
  <2>2. ASSUME NEW c \in Creators, NEW loaded \in AgentDocuments, Load(c, loaded) PROVE VersionInv'
    <3>1. /\ doing[c] = "load" /\ spec' = [spec EXCEPT ![c] = loaded]
          /\ \E to \in {"connection", "error"} : doing' = [doing EXCEPT ![c] = to]
          /\ UNCHANGED <<target, rendered, versions, created, manifests>>
      BY <2>2 DEF Load, Proceeds
    <3>2. VersionTypes'
      BY <3>1 DEF VersionTypes
    <3>3. CreatorsApart'
      BY <3>1 DEF VersionTypes, CreatorsApart, Sent, Given
    <3>4. ManifestsKept'
      BY <3>1 DEF VersionTypes, ManifestsKept
    <3> QED
      BY <3>2, <3>3, <3>4
  <2>3. ASSUME NEW c \in Creators, Render(c) PROVE VersionInv'
    <3>1. /\ doing[c] = "connection" /\ rendered' = [rendered EXCEPT ![c] = Rendering(spec[c], target)]
          /\ \E to \in {"create", "error"} : doing' = [doing EXCEPT ![c] = to]
          /\ UNCHANGED <<spec, target, versions, created, manifests>>
      BY <2>3 DEF Render, Proceeds, Rendering
    <3>2. spec[c] \in AgentDocuments /\ Rendering(spec[c], target) \in Renderings
      BY <3>1, RenderingTyped DEF CreatorsApart, VersionTypes
    <3>3. VersionTypes'
      BY <3>1, <3>2 DEF VersionTypes
    <3>4. CreatorsApart'
      BY <3>1 DEF VersionTypes, CreatorsApart, Sent, Given
    <3>5. ManifestsKept'
      BY <3>1 DEF VersionTypes, ManifestsKept
    <3> QED
      BY <3>3, <3>4, <3>5
  <2>4. ASSUME NEW c \in Creators, VersionFails(c) PROVE VersionInv'
    BY <2>4 DEF VersionFails, Proceeds, VersionTypes, CreatorsApart, ManifestsKept, Sent, Given
  <2>5. ASSUME NEW c \in Creators, NEW name \in {spec[c].name, "other"}, NEW kept \in BOOLEAN,
               NEW digested \in BOOLEAN, Create(c, name, kept, digested)
        PROVE  VersionInv'
    <3> DEFINE n == Len(versions)
    <3>1. PICK v \in Version : versions' = Append(versions, v)
      <4>1. doing[c] = "create" /\ spec[c] \in AgentDocuments /\ rendered[c] \in Renderings
        BY <2>5, RenderingTyped DEF Create, Proceeds, CreatorsApart, Sent
      <4>2. [rendered[c] EXCEPT !.instructions = "altered"] \in Renderings
        BY <4>1 DEF Renderings
      <4> QED
        BY <2>5, <4>1, <4>2 DEF Create, Version
    <3>2. /\ doing[c] = "create" /\ created' = [created EXCEPT ![c] = n + 1]
          /\ \E to \in {"readback", "error"} : doing' = [doing EXCEPT ![c] = to]
          /\ UNCHANGED <<spec, target, rendered, manifests>>
      BY <2>5 DEF Create, Proceeds
    <3>3. /\ n \in Nat /\ versions' \in Seq(Version) /\ DOMAIN versions = 1 .. n
          /\ DOMAIN versions' = 1 .. n + 1 /\ \A i \in 1 .. n : versions'[i] = versions[i]
      BY <3>1 DEF VersionTypes
    <3> HIDE DEF n
    <3>4. VersionTypes'
      BY <3>2, <3>3 DEF VersionTypes
    <3>5. CreatorsApart'
      <4>1. \A d \in Creators \ {c} : /\ doing'[d] = doing[d] /\ created'[d] = created[d]
                                      /\ doing[d] \in Given => created'[d] \in 1 .. n
        BY <3>2, <3>3 DEF VersionTypes, CreatorsApart
      <4>2. created'[c] = n + 1 /\ n + 1 \notin 1 .. n /\ n + 1 \in 1 .. n + 1
        BY <3>2, <3>3 DEF VersionTypes
      <4>3. \A d \in Creators : doing'[d] # "load" => spec'[d] \in AgentDocuments
        BY <3>2 DEF VersionTypes, CreatorsApart
      <4>4. \A d \in Creators : doing'[d] \in Sent => \E url \in Targets : rendered'[d] = Rendering(spec'[d], url)
        BY <3>2 DEF VersionTypes, CreatorsApart, Sent
      <4>5. \A d \in Creators : doing'[d] \in Given => created'[d] \in DOMAIN versions'
        BY <3>3, <4>1, <4>2
      <4>6. \A d, e \in Creators : doing'[d] \in Given /\ doing'[e] \in Given /\ created'[d] = created'[e] => d = e
        BY <4>1, <4>2 DEF CreatorsApart
      <4> QED
        BY <4>3, <4>4, <4>5, <4>6 DEF CreatorsApart
    <3>6. ManifestsKept'
      BY <3>2, <3>3 DEF VersionTypes, CreatorsApart, ManifestsKept, Given
    <3> QED
      BY <3>4, <3>5, <3>6
  <2>6. ASSUME NEW c \in Creators, NEW n \in DOMAIN versions, ReadBack(c, n) PROVE VersionInv'
    <3>1. doing[c] = "readback" /\ UNCHANGED <<spec, target, rendered, versions, created>>
      BY <2>6 DEF ReadBack
    <3>2. \/ /\ manifests' = manifests \cup {[version |-> created[c], digest |-> Digest(spec[c]), by |-> c]}
             /\ doing' = [doing EXCEPT ![c] = "made"]
             /\ versions[created[c]].digest = Digest(spec[c])
             /\ versions[created[c]].definition = rendered[c]
          \/ manifests' = manifests /\ doing' = [doing EXCEPT ![c] = "error"]
      BY <2>6 DEF ReadBack
    <3>3. VersionTypes'
      BY <3>1, <3>2 DEF VersionTypes
    <3>4. CreatorsApart'
      BY <3>1, <3>2 DEF VersionTypes, CreatorsApart, Sent, Given
    <3>5. ManifestsKept'
      BY <3>1, <3>2 DEF VersionTypes, ManifestsKept
    <3> QED
      BY <3>3, <3>4, <3>5
  <2>7. CASE UNCHANGED creating
    BY <2>7 DEF creating, VersionTypes, CreatorsApart, ManifestsKept
  <2> QED
    BY <2>1, <2>2, <2>3, <2>4, <2>5, <2>6, <2>7 DEF VersionNext
<1> QED
  BY <1>1, <1>2, PTL DEF VersionSpec

(* A manifest tells what the service stores under the version it names,    *)
(* and its digest what that was made of, however many creators work at     *)
(* once and whatever the service stores instead (definition.py).           *)
THEOREM ManifestTells == VersionSpec => []VersionIsItsManifest
<1>1. VersionInv => ManifestIsStored
  BY DEF VersionInv, CreatorsApart, ManifestsKept, ManifestIsStored, Given
<1>2. VersionInv => DigestTellsDefinition
  <2> SUFFICES ASSUME VersionInv, NEW m \in manifests, NEW n \in manifests, m.digest = n.digest
               PROVE  [versions[m.version].definition EXCEPT !.url = NoTarget]
                         = [versions[n.version].definition EXCEPT !.url = NoTarget]
    BY DEF DigestTellsDefinition
  <2>1. PICK url1 \in Targets : versions[m.version].definition = Rendering(spec[m.by], url1)
    BY DEF VersionInv, CreatorsApart, ManifestsKept, Sent
  <2>2. PICK url2 \in Targets : versions[n.version].definition = Rendering(spec[n.by], url2)
    BY DEF VersionInv, CreatorsApart, ManifestsKept, Sent
  <2>3. Digest(spec[m.by]) = Digest(spec[n.by])
    BY DEF VersionInv, ManifestsKept
  <2>4. /\ spec[m.by].instructions = spec[n.by].instructions /\ spec[m.by].model = spec[n.by].model
        /\ spec[m.by].connection = spec[n.by].connection /\ spec[m.by].operations = spec[n.by].operations
    BY <2>3 DEF Digest
  <2>5. [Rendering(spec[m.by], url1) EXCEPT !.url = NoTarget]
           = [Rendering(spec[n.by], url2) EXCEPT !.url = NoTarget]
    BY <2>4 DEF Rendering
  <2> QED
    BY <2>1, <2>2, <2>5
<1>3. VersionInv => VersionIsItsManifest
  BY <1>1, <1>2 DEF VersionIsItsManifest
<1> QED
  BY <1>3, VersionInvariant, PTL
-----------------------------------------------------------------------------
(* Traffic.  Most of it is the calendar: a rule is computed from the       *)
(* ordinal of a day of its month, and days, months and years follow one    *)
(* another without a gap, so the ordinal it computes is the one of exactly *)
(* those days it is said of.                                               *)

(* The calendar *)

\* What comes before a year, and before a month of it.
YearStart(y) == LET p == y - 1 IN 365 * p + p \div 4 - p \div 100 + p \div 400
YearLength(y) == IF Leap(y) THEN 366 ELSE 365
MonthStart(y, m) == BeforeMonth[m] + (IF m > 2 /\ Leap(y) THEN 1 ELSE 0)

LEMMA YearAfterYear ==
    ASSUME NEW y \in Int
    PROVE  /\ YearStart(y) \in Int /\ YearLength(y) \in {365, 366}
           /\ YearStart(y + 1) = YearStart(y) + YearLength(y)
<1> DEFINE p == y - 1
<1>1. /\ y \div 4 = p \div 4 + (IF y % 4 = 0 THEN 1 ELSE 0)
      /\ y \div 100 = p \div 100 + (IF y % 100 = 0 THEN 1 ELSE 0)
      /\ y \div 400 = p \div 400 + (IF y % 400 = 0 THEN 1 ELSE 0)
  OBVIOUS
<1>2. (y % 100 = 0 => y % 4 = 0) /\ (y % 400 = 0 => y % 100 = 0)
  OBVIOUS
<1>3. /\ p \div 4 \in Int /\ p \div 100 \in Int /\ p \div 400 \in Int
      /\ y \div 4 \in Int /\ y \div 100 \in Int /\ y \div 400 \in Int
  OBVIOUS
<1> QED
  BY <1>1, <1>2, <1>3 DEF YearStart, YearLength, Leap

LEMMA MonthAfterMonth ==
    ASSUME NEW y \in Int
    PROVE  /\ \A m \in 1 .. 12 : /\ MonthStart(y, m) \in Nat /\ MonthLength(y, m) \in 28 .. 31
                                 /\ MonthStart(y, m) + MonthLength(y, m) <= YearLength(y)
           /\ \A m \in 1 .. 11 : MonthStart(y, m + 1) = MonthStart(y, m) + MonthLength(y, m)
           /\ \A m, n \in 1 .. 12 : m < n => MonthStart(y, m) + MonthLength(y, m) <= MonthStart(y, n)
           /\ MonthStart(y, 1) = 0 /\ MonthStart(y, 12) + 31 = YearLength(y)
<1>1. /\ BeforeMonth[1] = 0 /\ BeforeMonth[2] = 31 /\ BeforeMonth[3] = 59 /\ BeforeMonth[4] = 90
      /\ BeforeMonth[5] = 120 /\ BeforeMonth[6] = 151 /\ BeforeMonth[7] = 181 /\ BeforeMonth[8] = 212
      /\ BeforeMonth[9] = 243 /\ BeforeMonth[10] = 273 /\ BeforeMonth[11] = 304 /\ BeforeMonth[12] = 334
  BY DEF BeforeMonth
<1>2. \A m \in 1 .. 12 : m \in {1, 2, 3, 4, 5, 6, 7, 8, 9, 10, 11, 12}
  OBVIOUS
<1>3. Leap(y) \in BOOLEAN
  BY DEF Leap
<1>4. \A m \in 1 .. 12 : /\ MonthStart(y, m) \in Nat /\ MonthLength(y, m) \in 28 .. 31
                         /\ MonthStart(y, m) + MonthLength(y, m) <= YearLength(y)
  BY <1>1, <1>2, <1>3 DEF MonthStart, MonthLength, YearLength
<1>5. \A m \in 1 .. 11 : MonthStart(y, m + 1) = MonthStart(y, m) + MonthLength(y, m)
  BY <1>1, <1>2, <1>3 DEF MonthStart, MonthLength
<1>6. \A m, n \in 1 .. 12 : m < n => MonthStart(y, m) + MonthLength(y, m) <= MonthStart(y, n)
  BY <1>1, <1>2, <1>3 DEF MonthStart, MonthLength
<1>7. MonthStart(y, 1) = 0 /\ MonthStart(y, 12) + 31 = YearLength(y)
  BY <1>1, <1>3 DEF MonthStart, YearLength
<1> QED
  BY <1>4, <1>5, <1>6, <1>7

LEMMA Ordinals ==
    ASSUME NEW y \in Int, NEW m \in 1 .. 12, NEW d \in Int
    PROVE  /\ Ordinal(y, m, d) = YearStart(y) + MonthStart(y, m) + d
           /\ Ordinal(y, m, d) \in Int
<1>1. YearStart(y) \in Int /\ MonthStart(y, m) \in Nat
  BY YearAfterYear, MonthAfterMonth
<1>2. Ordinal(y, m, d) = (YearStart(y) + MonthStart(y, m)) + d
  <2>1. DEFINE s == YearStart(y)  b == BeforeMonth[m]  l == IF m > 2 /\ Leap(y) THEN 1 ELSE 0
  <2>2. Ordinal(y, m, d) = s + b + l + d
    BY DEF Ordinal, YearStart
  <2>3. s \in Int /\ b \in Int /\ l \in Int
    <3>1. BeforeMonth[m] \in Int
      BY DEF BeforeMonth
    <3> QED
      BY <1>1, <3>1
  <2>4. MonthStart(y, m) = b + l
    BY DEF MonthStart
  <2> HIDE DEF s, b, l
  <2>5. s = YearStart(y)
    BY DEF s
  <2> QED
    BY <2>2, <2>3, <2>4, <2>5
<1> QED
  BY <1>1, <1>2

\* A date of the calendar.
IsDate(t) == t.y \in Int /\ t.m \in 1 .. 12 /\ t.d \in 1 .. MonthLength(t.y, t.m)

\* Dates of one year with one ordinal are one.
LEMMA OneDate ==
    ASSUME NEW y \in Int, NEW m \in 1 .. 12, NEW n \in 1 .. 12,
           NEW d \in 1 .. MonthLength(y, m), NEW e \in 1 .. MonthLength(y, n),
           Ordinal(y, m, d) = Ordinal(y, n, e)
    PROVE  m = n /\ d = e
<1>1. /\ YearStart(y) \in Int /\ MonthStart(y, m) \in Nat /\ MonthStart(y, n) \in Nat
      /\ MonthLength(y, m) \in 28 .. 31 /\ MonthLength(y, n) \in 28 .. 31
  BY YearAfterYear, MonthAfterMonth
<1>2. MonthStart(y, m) + d = MonthStart(y, n) + e
  <2>1. d \in Int /\ e \in Int
    BY <1>1
  <2>2. /\ Ordinal(y, m, d) = YearStart(y) + MonthStart(y, m) + d
        /\ Ordinal(y, n, e) = YearStart(y) + MonthStart(y, n) + e
    BY <2>1, Ordinals
  <2>3. \A s, a, b, f, g \in Int : s + a + f = s + b + g => a + f = b + g
    OBVIOUS
  <2>4. YearStart(y) + MonthStart(y, m) + d = YearStart(y) + MonthStart(y, n) + e
    BY <2>2
  <2>5. YearStart(y) \in Int /\ MonthStart(y, m) \in Int /\ MonthStart(y, n) \in Int
    BY <1>1
  <2> QED
    BY <2>1, <2>3, <2>4, <2>5
<1>3. ~ (m < n)
  <2>1. m < n => MonthStart(y, m) + MonthLength(y, m) <= MonthStart(y, n)
    BY MonthAfterMonth
  <2> QED
    BY <1>1, <1>2, <2>1
<1>4. ~ (n < m)
  <2>1. n < m => MonthStart(y, n) + MonthLength(y, n) <= MonthStart(y, m)
    BY MonthAfterMonth
  <2> QED
    BY <1>1, <1>2, <2>1
<1>5. m = n
  BY <1>3, <1>4
<1> QED
  BY <1>1, <1>2, <1>5

\* A date lies in its year.
LEMMA InItsYear ==
    ASSUME NEW y \in Int, NEW m \in 1 .. 12, NEW d \in 1 .. MonthLength(y, m)
    PROVE  Ordinal(y, m, d) \in YearStart(y) + 1 .. YearStart(y) + YearLength(y)
<1>1. /\ YearStart(y) \in Int /\ MonthStart(y, m) \in Nat /\ MonthLength(y, m) \in 28 .. 31
      /\ YearLength(y) \in {365, 366}
      /\ MonthStart(y, m) + MonthLength(y, m) <= YearLength(y)
  BY YearAfterYear, MonthAfterMonth
<1>2. d \in Int
  BY <1>1
<1>3. Ordinal(y, m, d) = YearStart(y) + MonthStart(y, m) + d
  BY <1>2, Ordinals
<1> QED
  BY <1>1, <1>2, <1>3

\* The years follow one another without a gap: an ordinal has one of them.
LEMMA OneYear ==
    ASSUME NEW y \in Int, NEW z \in Int, NEW n \in YearStart(y) + 1 .. YearStart(y) + YearLength(y),
           n \in YearStart(z) + 1 .. YearStart(z) + YearLength(z)
    PROVE  y = z
<1>1. ASSUME NEW a \in Int, NEW b \in Int, a < b
      PROVE  YearStart(a) + YearLength(a) <= YearStart(b)
  <2> DEFINE p == b - 1
  <2>1. YearStart(a + 1) = YearStart(a) + YearLength(a)
    BY YearAfterYear
  <2>2. /\ a \div 4 <= p \div 4 /\ a \div 100 - p \div 100 <= 0 /\ a \div 400 <= p \div 400
        /\ p \div 100 - a \div 100 <= p - a
    BY <1>1
  <2>3. /\ a \div 4 \in Int /\ a \div 100 \in Int /\ a \div 400 \in Int
        /\ p \div 4 \in Int /\ p \div 100 \in Int /\ p \div 400 \in Int
    OBVIOUS
  <2>4. YearStart(a + 1) <= YearStart(b)
    BY <1>1, <2>2, <2>3 DEF YearStart
  <2> QED
    BY <2>1, <2>4
<1>2. /\ YearStart(y) \in Int /\ YearStart(z) \in Int
      /\ YearLength(y) \in {365, 366} /\ YearLength(z) \in {365, 366}
  BY YearAfterYear
<1>3. ~ (y < z) /\ ~ (z < y)
  BY <1>1, <1>2
<1> QED
  BY <1>3

\* Weekdays come round every seven days.
LEMMA Weekdays ==
    ASSUME NEW n \in Int
    PROVE  /\ Weekday(n) \in 0 .. 6
           /\ \A k \in Int : Weekday(n) = Weekday(k) <=> (n - k) % 7 = 0
           /\ Weekday(n) = 5 <=> Weekday(n - 1) = 4
           /\ Weekday(n) = 6 <=> Weekday(n + 1) = 0
<1>1. Weekday(n) \in 0 .. 6
  BY DEF Weekday
<1>2. ASSUME NEW k \in Int PROVE Weekday(n) = Weekday(k) <=> (n - k) % 7 = 0
  BY DEF Weekday
<1>3. Weekday(n) = 5 <=> Weekday(n - 1) = 4
  BY DEF Weekday
<1>4. Weekday(n) = 6 <=> Weekday(n + 1) = 0
  BY DEF Weekday
<1> QED
  BY <1>1, <1>2, <1>3, <1>4

\* The n-th such weekday of a month, and the last one.
LEMMA NthWeekday ==
    ASSUME NEW first \in Int, NEW w \in 0 .. 6, NEW n \in 1 .. 4, NEW d \in 1 .. 31
    PROVE  /\ ((w - Weekday(first)) % 7) + 7 * (n - 1) \in 0 .. 27
           /\ (first + d - 1 = first + ((w - Weekday(first)) % 7) + 7 * (n - 1))
                <=> (Weekday(first + d - 1) = w /\ (d + 6) \div 7 = n)
<1> DEFINE r == (w - Weekday(first)) % 7
<1>1. Weekday(first) \in 0 .. 6
  BY Weekdays
<1>2. r \in 0 .. 6
  BY <1>1
<1>3. r + 7 * (n - 1) \in 0 .. 27
  BY <1>2
<1>4. (first + d - 1 = first + r + 7 * (n - 1)) <=> d = r + 7 * (n - 1) + 1
  BY <1>2
<1>5. Weekday(first + d - 1) = w <=> (d - 1 - r) % 7 = 0
  BY DEF Weekday
<1>6. (d = r + 7 * (n - 1) + 1) <=> ((d - 1 - r) % 7 = 0 /\ (d + 6) \div 7 = n)
  <2> HIDE DEF r
  <2> QED BY <1>2
<1> QED
  BY <1>3, <1>4, <1>5, <1>6

LEMMA LastWeekday ==
    ASSUME NEW first \in Int, NEW w \in 0 .. 6, NEW l \in 28 .. 31, NEW d \in 1 .. l
    PROVE  /\ (Weekday(first + l - 1) - w) % 7 \in 0 .. 6
           /\ (first + d - 1 = (first + l - 1) - ((Weekday(first + l - 1) - w) % 7))
                <=> (Weekday(first + d - 1) = w /\ d + 7 > l)
<1> DEFINE r == (Weekday(first + l - 1) - w) % 7
<1>1. Weekday(first + l - 1) \in 0 .. 6
  BY Weekdays
<1>2. r \in 0 .. 6
  BY <1>1
<1>3. Weekday(first + d - 1) = w <=> (l - d - r) % 7 = 0
  BY DEF Weekday
<1>4. (d = l - r) <=> ((l - d - r) % 7 = 0 /\ d + 7 > l)
  <2> HIDE DEF r
  <2> QED BY <1>2
<1>5. (first + d - 1 = (first + l - 1) - r) <=> d = l - r
  BY <1>2
<1> QED
  BY <1>2, <1>3, <1>4, <1>5

\* What the assumption says of a rule.
IsRule(rule) ==
    /\ rule.month \in 1 .. 12 /\ rule.observe \in BOOLEAN
    /\ rule.day # NoDay => rule.day \in 1 .. MonthLength(2023, rule.month)
    /\ rule.day = NoDay => rule.weekday \in 0 .. 6 /\ rule.nth \in {Last} \cup 1 .. 4

LEMMA EveryYear ==
    ASSUME NEW y \in Int, NEW m \in 1 .. 12
    PROVE  1 .. MonthLength(2023, m) \subseteq 1 .. MonthLength(y, m)
<1>1. ~ Leap(2023)
  BY DEF Leap
<1> QED
  BY <1>1 DEF MonthLength

\* In its month, a rule says of a day what it computes for the year.
LEMMA RuleInItsMonth ==
    ASSUME NEW rule, IsRule(rule), NEW y \in Int,
           NEW t, t = [y |-> y, m |-> rule.month, d |-> t.d], t.d \in 1 .. MonthLength(y, rule.month)
    PROVE  Ordinal(y, rule.month, t.d) = Actual(rule, y) <=> FallsOn(rule, t)
<1> DEFINE m == rule.month  d == t.d  l == MonthLength(y, m)  first == Ordinal(y, m, 1)
<1>1. m \in 1 .. 12 /\ l \in 28 .. 31
  BY MonthAfterMonth DEF IsRule
<1>2. d \in Int /\ d \in 1 .. l /\ d \in 1 .. 31 /\ t.m = m /\ t.y = y
  BY <1>1
<1>3. /\ first \in Int /\ Ordinal(y, m, d) = first + d - 1 /\ Ordinal(y, m, l) = first + l - 1
  <2>1. YearStart(y) \in Int /\ MonthStart(y, m) \in Nat
    BY <1>1, YearAfterYear, MonthAfterMonth
  <2>2. /\ first = YearStart(y) + MonthStart(y, m) + 1
        /\ Ordinal(y, m, d) = YearStart(y) + MonthStart(y, m) + d
        /\ Ordinal(y, m, l) = YearStart(y) + MonthStart(y, m) + l
    BY <1>1, <1>2, Ordinals
  <2> HIDE DEF m, d, l, first
  <2> QED
    BY <1>1, <1>2, <2>1, <2>2
<1>4. CASE rule.day # NoDay
  <2>1. rule.day \in 1 .. l
    BY <1>1, <1>4, EveryYear DEF IsRule
  <2>2. Actual(rule, y) = Ordinal(y, m, rule.day)
    BY <1>4 DEF Actual
  <2>3. FallsOn(rule, t) <=> d = rule.day
    BY <1>2, <1>4 DEF FallsOn
  <2>4. Ordinal(y, m, d) = Ordinal(y, m, rule.day) => d = rule.day
    BY <1>1, <1>2, <2>1, OneDate
  <2> QED
    BY <2>2, <2>3, <2>4
<1>5. CASE rule.day = NoDay /\ rule.nth = Last
  <2> DEFINE w == rule.weekday
  <2>1. w \in 0 .. 6
    BY <1>5 DEF IsRule
  <2>2. Actual(rule, y) = (first + l - 1) - ((Weekday(first + l - 1) - w) % 7)
    BY <1>3, <1>5 DEF Actual
  <2>3. FallsOn(rule, t) <=> Weekday(first + d - 1) = w /\ d + 7 > l
    BY <1>2, <1>3, <1>5 DEF FallsOn
  <2> HIDE DEF m, d, l, first, w
  <2>4. (first + d - 1 = (first + l - 1) - ((Weekday(first + l - 1) - w) % 7))
          <=> (Weekday(first + d - 1) = w /\ d + 7 > l)
    BY <1>1, <1>2, <1>3, <2>1, LastWeekday
  <2>5. Ordinal(y, m, d) = Actual(rule, y) <=> FallsOn(rule, t)
    BY <1>3, <2>2, <2>3, <2>4
  <2> QED
    BY <2>5 DEF m, d
<1>6. CASE rule.day = NoDay /\ rule.nth # Last
  <2> DEFINE w == rule.weekday  n == rule.nth
  <2>1. w \in 0 .. 6 /\ n \in 1 .. 4
    BY <1>6 DEF IsRule
  <2>2. Actual(rule, y) = first + ((w - Weekday(first)) % 7) + 7 * (n - 1)
    BY <1>6 DEF Actual
  <2>3. FallsOn(rule, t) <=> Weekday(first + d - 1) = w /\ (d + 6) \div 7 = n
    BY <1>2, <1>3, <1>6 DEF FallsOn
  <2> HIDE DEF m, d, l, first, w, n
  <2>4. (first + d - 1 = first + ((w - Weekday(first)) % 7) + 7 * (n - 1))
          <=> (Weekday(first + d - 1) = w /\ (d + 6) \div 7 = n)
    BY <1>2, <1>3, <2>1, NthWeekday
  <2>5. Ordinal(y, m, d) = Actual(rule, y) <=> FallsOn(rule, t)
    BY <1>3, <2>2, <2>3, <2>4
  <2> QED
    BY <2>5 DEF m, d
<1> QED
  BY <1>4, <1>5, <1>6

\* It computes a day of that month.
LEMMA ActualInItsMonth ==
    ASSUME NEW rule, IsRule(rule), NEW y \in Int
    PROVE  \E e \in 1 .. MonthLength(y, rule.month) : Actual(rule, y) = Ordinal(y, rule.month, e)
<1> DEFINE m == rule.month  l == MonthLength(y, m)  first == Ordinal(y, m, 1)
<1>0. m \in 1 .. 12
  BY DEF IsRule
<1>1. m \in 1 .. 12 /\ l \in 28 .. 31
  <2> HIDE DEF m
  <2> QED BY <1>0, MonthAfterMonth
<1>2. first \in Int /\ \A e \in Int : Ordinal(y, m, e) = first + e - 1
  <2> HIDE DEF m
  <2>1. YearStart(y) \in Int /\ MonthStart(y, m) \in Nat
    BY <1>0, YearAfterYear, MonthAfterMonth
  <2>2. ASSUME NEW e \in Int PROVE Ordinal(y, m, e) = YearStart(y) + MonthStart(y, m) + e
    BY <1>0, Ordinals
  <2>3. first = YearStart(y) + MonthStart(y, m) + 1
    BY <2>2
  <2> HIDE DEF first
  <2> QED
    BY <2>1, <2>2, <2>3
<1>3. CASE rule.day # NoDay
  <2>1. rule.day \in 1 .. l
    BY <1>1, <1>3, EveryYear DEF IsRule
  <2> QED
    BY <1>3, <2>1 DEF Actual
<1>4. CASE rule.day = NoDay /\ rule.nth = Last
  <2> DEFINE w == rule.weekday  r == (Weekday(first + l - 1) - w) % 7
  <2>1. w \in 0 .. 6
    BY <1>4 DEF IsRule
  <2>2. Ordinal(y, m, l) = first + l - 1
    BY <1>1, <1>2
  <2>3. Actual(rule, y) = (first + l - 1) - r
    BY <1>4, <2>2 DEF Actual
  <2>4. r \in 0 .. 6
    <3>1. first + l - 1 \in Int
      BY <1>1, <1>2
    <3>2. Weekday(first + l - 1) \in 0 .. 6
      BY <3>1, Weekdays
    <3> QED
      BY <2>1, <3>2
  <2> HIDE DEF m, l, first, r
  <2>5. l - r \in 1 .. l /\ l - r \in Int /\ first + (l - r) - 1 = (first + l - 1) - r
    BY <1>1, <1>2, <2>4
  <2>6. Ordinal(y, m, l - r) = Actual(rule, y)
    BY <1>2, <2>3, <2>5
  <2> QED
    BY <2>5, <2>6 DEF m, l
<1>5. CASE rule.day = NoDay /\ rule.nth # Last
  <2> DEFINE w == rule.weekday  n == rule.nth  r == ((w - Weekday(first)) % 7) + 7 * (n - 1)
  <2>1. w \in 0 .. 6 /\ n \in 1 .. 4
    BY <1>5 DEF IsRule
  <2>2. Actual(rule, y) = first + ((w - Weekday(first)) % 7) + 7 * (n - 1)
    BY <1>5 DEF Actual
  <2>3. (w - Weekday(first)) % 7 \in 0 .. 6
    <3>1. Weekday(first) \in 0 .. 6
      BY <1>2, Weekdays
    <3> QED
      BY <2>1, <3>1
  <2>4. r \in 0 .. 27 /\ Actual(rule, y) = first + r
    <3> HIDE DEF first, w, n, m
    <3> QED BY <1>2, <2>1, <2>2, <2>3
  <2> HIDE DEF m, l, first, r
  <2>5. r + 1 \in 1 .. l /\ r + 1 \in Int /\ first + (r + 1) - 1 = first + r
    BY <1>1, <1>2, <2>4
  <2>6. Ordinal(y, m, r + 1) = Actual(rule, y)
    BY <1>2, <2>4, <2>5
  <2> QED
    BY <2>5, <2>6 DEF m, l
<1> QED
  BY <1>3, <1>4, <1>5

\* So the year of a date is the one whose rule can give it.
LEMMA RuleFallsOn ==
    ASSUME NEW rule, IsRule(rule), NEW t, t = [y |-> t.y, m |-> t.m, d |-> t.d], IsDate(t), NEW y \in Int
    PROVE  Ordinal(t.y, t.m, t.d) = Actual(rule, y) <=> y = t.y /\ FallsOn(rule, t)
<1> DEFINE n == Ordinal(t.y, t.m, t.d)
<1>1. PICK e \in 1 .. MonthLength(y, rule.month) : Actual(rule, y) = Ordinal(y, rule.month, e)
  BY ActualInItsMonth
<1>2. rule.month \in 1 .. 12
  BY DEF IsRule
<1>3. ASSUME n = Actual(rule, y) PROVE y = t.y
  <2>1. n \in YearStart(t.y) + 1 .. YearStart(t.y) + YearLength(t.y)
    BY InItsYear DEF IsDate
  <2>2. n \in YearStart(y) + 1 .. YearStart(y) + YearLength(y)
    BY <1>1, <1>2, <1>3, InItsYear
  <2> QED
    BY <2>1, <2>2, OneYear DEF IsDate
<1>4. ASSUME n = Actual(rule, y) PROVE FallsOn(rule, t)
  <2>1. y = t.y
    BY <1>3, <1>4
  <2>2. t.m = rule.month
    BY <1>1, <1>2, <1>4, <2>1, OneDate DEF IsDate
  <2> QED
    BY <1>4, <2>1, <2>2, RuleInItsMonth DEF IsDate
<1>5. ASSUME y = t.y, FallsOn(rule, t) PROVE n = Actual(rule, y)
  <2>1. t.m = rule.month
    BY <1>5 DEF FallsOn
  <2> QED
    BY <1>5, <2>1, RuleInItsMonth DEF IsDate
<1> QED
  BY <1>3, <1>4, <1>5

-----------------------------------------------------------------------------
(* Holidays *)

\* A record of a date.
IsDay(t) == t = [y |-> t.y, m |-> t.m, d |-> t.d] /\ IsDate(t)

\* The next day has the next ordinal, and the day before the one before.
LEMMA DayAfterDay ==
    ASSUME NEW t, IsDay(t)
    PROVE  /\ IsDay(Tomorrow(t))
           /\ Ordinal(Tomorrow(t).y, Tomorrow(t).m, Tomorrow(t).d) = Ordinal(t.y, t.m, t.d) + 1
<1> DEFINE y == t.y  m == t.m  d == t.d  l == MonthLength(y, m)  u == Tomorrow(t)
<1>1. /\ t = [y |-> y, m |-> m, d |-> d] /\ y \in Int /\ m \in 1 .. 12 /\ d \in 1 .. l
  BY DEF IsDay, IsDate
<1>2. l \in 28 .. 31 /\ MonthStart(y, m) \in Nat /\ YearStart(y) \in Int
  <2> HIDE DEF y, m, d
  <2> QED BY <1>1, MonthAfterMonth, YearAfterYear
<1>3. d \in Int /\ d + 1 \in Int
  <2> HIDE DEF d, l
  <2> QED BY <1>1, <1>2
<1>4. Ordinal(y, m, d) = YearStart(y) + MonthStart(y, m) + d
  <2> HIDE DEF y, m, d, l
  <2> QED BY <1>1, <1>3, Ordinals
<1>5. CASE d < l
  <2>1. u = [y |-> y, m |-> m, d |-> d + 1]
    BY <1>1, <1>5 DEF Tomorrow
  <2> HIDE DEF y, m, d, l, u
  <2>2. u.y = y /\ u.m = m /\ u.d = d + 1
    BY <2>1
  <2>3. Ordinal(y, m, d + 1) = YearStart(y) + MonthStart(y, m) + (d + 1)
    BY <1>1, <1>3, Ordinals
  <2>4. d + 1 \in 1 .. l
    BY <1>1, <1>2, <1>3, <1>5
  <2>5. IsDay(u)
    BY <1>1, <2>1, <2>2, <2>4 DEF IsDay, IsDate, l
  <2>6. Ordinal(u.y, u.m, u.d) = Ordinal(y, m, d) + 1
    BY <1>2, <1>3, <1>4, <2>2, <2>3
  <2> QED
    BY <2>5, <2>6 DEF u, y, m, d
<1>6. CASE ~ (d < l) /\ m < 12
  <2>1. u = [y |-> y, m |-> m + 1, d |-> 1]
    <3>1. u = [t EXCEPT !.d = 1, !.m = @ + 1]
      BY <1>6 DEF Tomorrow
    <3> HIDE DEF y, m, d, l, u
    <3> QED
      BY <1>1, <3>1
  <2> HIDE DEF y, m, d, l, u
  <2>2. u.y = y /\ u.m = m + 1 /\ u.d = 1 /\ m + 1 \in 1 .. 12 /\ d = l /\ m \in 1 .. 11
    <3>1. d = l
      BY <1>1, <1>2, <1>3, <1>6
    <3>2. m + 1 \in 1 .. 12 /\ m \in 1 .. 11
      BY <1>1, <1>6
    <3> QED
      BY <2>1, <3>1, <3>2
  <2>3. Ordinal(y, m + 1, 1) = YearStart(y) + MonthStart(y, m + 1) + 1
    <3> DEFINE n == m + 1
    <3>1. n \in 1 .. 12
      BY <2>2
    <3> HIDE DEF n
    <3>2. ASSUME NEW e \in Int PROVE Ordinal(y, n, e) = YearStart(y) + MonthStart(y, n) + e
      BY <1>1, <3>1, Ordinals
    <3>3. Ordinal(y, n, 1) = YearStart(y) + MonthStart(y, n) + 1
      BY <3>2
    <3> QED
      BY <3>3 DEF n
  <2>4. MonthLength(y, m + 1) \in 28 .. 31 /\ MonthStart(y, m + 1) = MonthStart(y, m) + l
    BY <1>1, <1>6, <2>2, MonthAfterMonth DEF l
  <2>5. IsDay(u)
    BY <1>1, <2>1, <2>2, <2>4 DEF IsDay, IsDate
  <2>6. Ordinal(u.y, u.m, u.d) = Ordinal(y, m, d) + 1
    BY <1>2, <1>3, <1>4, <2>2, <2>3, <2>4
  <2> QED
    BY <2>5, <2>6 DEF u, y, m, d
<1>7. CASE ~ (d < l) /\ ~ (m < 12)
  <2>1. u = [y |-> y + 1, m |-> 1, d |-> 1]
    BY <1>7 DEF Tomorrow
  <2> HIDE DEF y, m, d, l, u
  <2>2. u.y = y + 1 /\ u.m = 1 /\ u.d = 1 /\ y + 1 \in Int /\ d = l
    BY <1>1, <1>2, <1>7, <2>1
  <2>3. Ordinal(y + 1, 1, 1) = YearStart(y + 1) + MonthStart(y + 1, 1) + 1
    BY <2>2, Ordinals
  <2>4. MonthLength(y + 1, 1) \in 28 .. 31 /\ MonthStart(y + 1, 1) = 0
    BY <2>2, MonthAfterMonth
  <2>5. IsDay(u)
    BY <2>1, <2>2, <2>4 DEF IsDay, IsDate
  <2>6. MonthStart(y, m) + 31 = YearLength(y) /\ l = 31
    <3>1. m = 12
      BY <1>1, <1>7
    <3> QED
      BY <1>1, <3>1, MonthAfterMonth DEF l, MonthLength
  <2>7. YearStart(y + 1) = YearStart(y) + YearLength(y) /\ YearLength(y) \in Int
    BY <1>1, YearAfterYear
  <2>8. Ordinal(u.y, u.m, u.d) = Ordinal(y, m, d) + 1
    BY <1>2, <1>3, <1>4, <2>2, <2>3, <2>4, <2>6, <2>7
  <2> QED
    BY <2>5, <2>8 DEF u, y, m, d
<1>8. d < l \/ (~ (d < l) /\ m < 12) \/ (~ (d < l) /\ ~ (m < 12))
  <2> HIDE DEF d, m, l
  <2> QED BY <1>1, <1>2, <1>3
<1> QED
  BY <1>5, <1>6, <1>7, <1>8

LEMMA DayBeforeDay ==
    ASSUME NEW t, IsDay(t)
    PROVE  /\ IsDay(Yesterday(t))
           /\ Ordinal(Yesterday(t).y, Yesterday(t).m, Yesterday(t).d) = Ordinal(t.y, t.m, t.d) - 1
<1> DEFINE y == t.y  m == t.m  d == t.d  l == MonthLength(y, m)  u == Yesterday(t)
<1>1. /\ t = [y |-> y, m |-> m, d |-> d] /\ y \in Int /\ m \in 1 .. 12 /\ d \in 1 .. l
  BY DEF IsDay, IsDate
<1>2. l \in 28 .. 31 /\ MonthStart(y, m) \in Nat /\ YearStart(y) \in Int
  <2> HIDE DEF y, m, d
  <2> QED BY <1>1, MonthAfterMonth, YearAfterYear
<1>3. d \in Int /\ d - 1 \in Int
  <2> HIDE DEF d, l
  <2> QED BY <1>1, <1>2
<1>4. Ordinal(y, m, d) = YearStart(y) + MonthStart(y, m) + d
  <2> HIDE DEF y, m, d, l
  <2> QED BY <1>1, <1>3, Ordinals
<1>5. CASE d > 1
  <2>1. u = [y |-> y, m |-> m, d |-> d - 1]
    BY <1>1, <1>5 DEF Yesterday
  <2> HIDE DEF y, m, d, l, u
  <2>2. u.y = y /\ u.m = m /\ u.d = d - 1
    BY <2>1
  <2>3. Ordinal(y, m, d - 1) = YearStart(y) + MonthStart(y, m) + (d - 1)
    BY <1>1, <1>3, Ordinals
  <2>4. d - 1 \in 1 .. l
    BY <1>1, <1>2, <1>3, <1>5
  <2>5. IsDay(u)
    BY <1>1, <2>1, <2>2, <2>4 DEF IsDay, IsDate, l
  <2>6. Ordinal(u.y, u.m, u.d) = Ordinal(y, m, d) - 1
    BY <1>2, <1>3, <1>4, <2>2, <2>3
  <2> QED
    BY <2>5, <2>6 DEF u, y, m, d
<1>6. CASE ~ (d > 1) /\ m > 1
  <2> DEFINE k == MonthLength(y, m - 1)
  <2>1. u = [y |-> y, m |-> m - 1, d |-> k]
    <3>1. u = [t EXCEPT !.d = k, !.m = @ - 1]
      BY <1>6 DEF Yesterday
    <3> HIDE DEF y, m, d, l, u, k
    <3> QED
      BY <1>1, <3>1
  <2> HIDE DEF y, m, d, l, u, k
  <2>2. u.y = y /\ u.m = m - 1 /\ u.d = k /\ m - 1 \in 1 .. 11 /\ m - 1 \in 1 .. 12 /\ d = 1
    <3>1. d = 1
      BY <1>1, <1>2, <1>3, <1>6
    <3>2. m - 1 \in 1 .. 11 /\ m - 1 \in 1 .. 12
      BY <1>1, <1>6
    <3> QED
      BY <2>1, <3>1, <3>2
  <2>3. k \in 28 .. 31 /\ k \in Int
    <3>1. k \in 28 .. 31
      <4> DEFINE n == m - 1
      <4>1. n \in 1 .. 12
        BY <2>2
      <4> HIDE DEF n
      <4>2. MonthLength(y, n) \in 28 .. 31
        BY <1>1, <4>1, MonthAfterMonth
      <4> QED
        BY <4>2 DEF n, k
    <3> QED
      BY <3>1
  <2>4. Ordinal(y, m - 1, k) = YearStart(y) + MonthStart(y, m - 1) + k
    BY <1>1, <2>2, <2>3, Ordinals
  <2>5. MonthStart(y, (m - 1) + 1) = MonthStart(y, m - 1) + k /\ MonthStart(y, m - 1) \in Nat
    BY <1>1, <2>2, MonthAfterMonth DEF k
  <2>6. (m - 1) + 1 = m
    BY <1>1
  <2>7. IsDay(u)
    BY <1>1, <2>1, <2>2, <2>3 DEF IsDay, IsDate, k
  <2>8. Ordinal(u.y, u.m, u.d) = Ordinal(y, m, d) - 1
    BY <1>2, <1>3, <1>4, <2>2, <2>3, <2>4, <2>5, <2>6
  <2> QED
    BY <2>7, <2>8 DEF u, y, m, d
<1>7. CASE ~ (d > 1) /\ ~ (m > 1)
  <2>1. u = [y |-> y - 1, m |-> 12, d |-> 31]
    BY <1>7 DEF Yesterday
  <2> HIDE DEF y, m, d, l, u
  <2>2. u.y = y - 1 /\ u.m = 12 /\ u.d = 31 /\ y - 1 \in Int /\ d = 1 /\ (y - 1) + 1 = y
    BY <1>1, <1>2, <1>3, <1>7, <2>1
  <2>3. Ordinal(y - 1, 12, 31) = YearStart(y - 1) + MonthStart(y - 1, 12) + 31
    BY <2>2, Ordinals
  <2>4. MonthLength(y - 1, 12) = 31 /\ MonthStart(y - 1, 12) + 31 = YearLength(y - 1) /\ MonthStart(y - 1, 12) \in Nat
    BY <2>2, MonthAfterMonth DEF MonthLength
  <2>5. IsDay(u)
    BY <2>1, <2>2, <2>4 DEF IsDay, IsDate
  <2>6. MonthStart(y, m) = 0
    <3>1. m = 1
      BY <1>1, <1>7
    <3> QED
      BY <1>1, <3>1, MonthAfterMonth
  <2>7. YearStart(y) = YearStart(y - 1) + YearLength(y - 1) /\ YearStart(y - 1) \in Int
    BY <2>2, YearAfterYear
  <2>8. Ordinal(u.y, u.m, u.d) = Ordinal(y, m, d) - 1
    BY <1>2, <1>3, <1>4, <2>2, <2>3, <2>4, <2>6, <2>7
  <2> QED
    BY <2>5, <2>8 DEF u, y, m, d
<1>8. d > 1 \/ (~ (d > 1) /\ m > 1) \/ (~ (d > 1) /\ ~ (m > 1))
  <2> HIDE DEF d, m, l
  <2> QED BY <1>1, <1>2, <1>3
<1> QED
  BY <1>5, <1>6, <1>7, <1>8

\* A rule gives a day exactly when it falls on it, or is observed on it for the next day
\* or the day before.
LEMMA RuleKept ==
    ASSUME NEW rule, IsRule(rule), NEW t, IsDay(t)
    PROVE  (\E y \in t.y - 1 .. t.y + 1 : Ordinal(t.y, t.m, t.d) \in Dates(rule, y))
             <=> \/ FallsOn(rule, t)
                 \/ rule.observe /\ Weekday(Ordinal(t.y, t.m, t.d)) = 4 /\ FallsOn(rule, Tomorrow(t))
                 \/ rule.observe /\ Weekday(Ordinal(t.y, t.m, t.d)) = 0 /\ FallsOn(rule, Yesterday(t))
<1> DEFINE n == Ordinal(t.y, t.m, t.d)  u == Tomorrow(t)  v == Yesterday(t)
           years == t.y - 1 .. t.y + 1
<1>1. t.y \in Int /\ n \in Int
  <2>1. t.y \in Int /\ t.m \in 1 .. 12 /\ t.d \in 1 .. MonthLength(t.y, t.m)
    BY DEF IsDay, IsDate
  <2>2. MonthLength(t.y, t.m) \in 28 .. 31
    BY <2>1, MonthAfterMonth
  <2>3. t.d \in Int
    BY <2>1, <2>2
  <2> QED
    BY <2>1, <2>3, Ordinals
<1>2. /\ IsDay(u) /\ Ordinal(u.y, u.m, u.d) = n + 1
      /\ IsDay(v) /\ Ordinal(v.y, v.m, v.d) = n - 1
  BY DayAfterDay, DayBeforeDay
<1>3. u.y \in years /\ v.y \in years /\ t.y \in years /\ u.y \in Int /\ v.y \in Int
  <2>1. u.y \in {t.y, t.y + 1}
    BY DEF IsDay, Tomorrow
  <2>2. v.y \in {t.y, t.y - 1}
    BY DEF IsDay, Yesterday
  <2> HIDE DEF u, v
  <2> QED
    BY <1>1, <2>1, <2>2
<1>4. ASSUME NEW y \in Int
      PROVE  /\ n = Actual(rule, y) <=> y = t.y /\ FallsOn(rule, t)
             /\ n + 1 = Actual(rule, y) <=> y = u.y /\ FallsOn(rule, u)
             /\ n - 1 = Actual(rule, y) <=> y = v.y /\ FallsOn(rule, v)
  <2> HIDE DEF u, v
  <2>1. n = Actual(rule, y) <=> y = t.y /\ FallsOn(rule, t)
    BY RuleFallsOn DEF IsDay
  <2>2. n + 1 = Actual(rule, y) <=> y = u.y /\ FallsOn(rule, u)
    BY <1>2, RuleFallsOn DEF IsDay
  <2>3. n - 1 = Actual(rule, y) <=> y = v.y /\ FallsOn(rule, v)
    BY <1>2, RuleFallsOn DEF IsDay
  <2> QED
    BY <2>1, <2>2, <2>3
<1>5. ASSUME NEW y \in Int
      PROVE  n \in Dates(rule, y)
               <=> \/ n = Actual(rule, y)
                   \/ rule.observe /\ Weekday(n) = 4 /\ n + 1 = Actual(rule, y)
                   \/ rule.observe /\ Weekday(n) = 0 /\ n - 1 = Actual(rule, y)
  <2> DEFINE a == Actual(rule, y)
  <2>1. a \in Int
    <3>1. PICK e \in 1 .. MonthLength(y, rule.month) : a = Ordinal(y, rule.month, e)
      BY ActualInItsMonth
    <3>2. rule.month \in 1 .. 12
      BY DEF IsRule
    <3>3. MonthLength(y, rule.month) \in 28 .. 31
      BY <3>2, MonthAfterMonth
    <3>4. e \in Int
      BY <3>3
    <3> QED
      BY <3>1, <3>2, <3>4, Ordinals
  <2>2. n \in Dates(rule, y)
          <=> \/ n = a
              \/ rule.observe /\ Weekday(a) = 5 /\ n = a - 1
              \/ rule.observe /\ Weekday(a) = 6 /\ n = a + 1
    <3>1. rule.observe \in BOOLEAN
      BY DEF IsRule
    <3> HIDE DEF n, a
    <3>2. Dates(rule, y) = {a} \cup (IF ~ rule.observe THEN {}
                                    ELSE IF Weekday(a) = 5 THEN {a - 1}
                                    ELSE IF Weekday(a) = 6 THEN {a + 1} ELSE {})
      BY DEF Dates, a
    <3> QED
      BY <3>1, <3>2
  <2> HIDE DEF n, a
  <2>3. (Weekday(a) = 5 <=> Weekday(a - 1) = 4) /\ (Weekday(a) = 6 <=> Weekday(a + 1) = 0)
    BY <2>1, Weekdays
  <2>4. (n = a - 1 <=> n + 1 = a) /\ (n = a + 1 <=> n - 1 = a)
    BY <1>1, <2>1
  <2>5. n \in Dates(rule, y)
          <=> \/ n = a
              \/ rule.observe /\ Weekday(n) = 4 /\ n + 1 = a
              \/ rule.observe /\ Weekday(n) = 0 /\ n - 1 = a
    BY <2>2, <2>3, <2>4
  <2> QED
    BY <2>5 DEF a
<1> HIDE DEF n, u, v
<1>6. years \subseteq Int
  BY <1>1
<1> HIDE DEF years
<1>7. ASSUME NEW y \in years, n \in Dates(rule, y)
      PROVE  \/ FallsOn(rule, t)
             \/ rule.observe /\ Weekday(n) = 4 /\ FallsOn(rule, u)
             \/ rule.observe /\ Weekday(n) = 0 /\ FallsOn(rule, v)
  BY <1>4, <1>5, <1>6, <1>7
<1>8. ASSUME \/ FallsOn(rule, t)
             \/ rule.observe /\ Weekday(n) = 4 /\ FallsOn(rule, u)
             \/ rule.observe /\ Weekday(n) = 0 /\ FallsOn(rule, v)
      PROVE  \E y \in years : n \in Dates(rule, y)
  <2>1. CASE FallsOn(rule, t)
    BY <1>1, <1>3, <1>4, <1>5, <2>1
  <2>2. CASE rule.observe /\ Weekday(n) = 4 /\ FallsOn(rule, u)
    BY <1>3, <1>4, <1>5, <2>2
  <2>3. CASE rule.observe /\ Weekday(n) = 0 /\ FallsOn(rule, v)
    BY <1>3, <1>4, <1>5, <2>3
  <2> QED
    BY <1>8, <2>1, <2>2, <2>3
<1>9. (\E y \in years : n \in Dates(rule, y))
        <=> \/ FallsOn(rule, t)
            \/ rule.observe /\ Weekday(n) = 4 /\ FallsOn(rule, u)
            \/ rule.observe /\ Weekday(n) = 0 /\ FallsOn(rule, v)
  BY <1>7, <1>8
<1> QED
  BY <1>9 DEF n, u, v, years

\* The code's holidays are the days that the plan's rules keep.
LEMMA HolidaysAreKept ==
    ASSUME document \in TrafficPlans, NEW t, IsDay(t)
    PROVE  IsHoliday(t) <=> Kept(t)
<1>1. ASSUME NEW i \in DOMAIN document.rules PROVE IsRule(document.rules[i])
  BY TrafficAssumption DEF IsRule
<1> QED
  BY <1>1, RuleKept DEF IsHoliday, Kept

-----------------------------------------------------------------------------
(* The inductive invariant: what loaded, what the clock decided on, and    *)
(* what the attempts so far may have held.                                 *)
TrafficInv ==
    /\ document \in TrafficPlans /\ IsDay(day) /\ clock \in [1 .. 2 -> Nat]
    /\ attempts \in Nat /\ attempts <= RetryLimit
    /\ phase \in {"decide", "talk", "flush", "completed", "skipped"} => Accepted(document)
    /\ switches.enabled /\ ~ switches.force =>
          /\ phase \in {"talk", "flush", "completed"} => AllowedAt(day, clock)
          /\ phase = "skipped" => ~ AllowedAt(day, clock)
    /\ phase \in {"flush", "completed"} => attempts \in talks
    /\ phase = "completed" => attempts \in traced
    /\ talks \cup traced \subseteq 0 .. attempts

LEMMA SameAllowed ==
    ASSUME document' = document, day' = day, clock' = clock
    PROVE  /\ AllowedAt(day, clock)' = AllowedAt(day, clock)
           /\ Accepted(document)' = Accepted(document) /\ IsDay(day)' = IsDay(day)
BY DEF AllowedAt, IsHoliday, Dates, Actual, Ordinal, Weekday, MonthLength, Leap, BeforeMonth, Accepted,
       WellFormed, IsDay, IsDate

LEMMA TrafficInvInit == TrafficInit => TrafficInv
<1> SUFFICES ASSUME TrafficInit PROVE TrafficInv
  OBVIOUS
<1>1. IsDay(day)
  <2>1. PICK y \in Years, m \in 1 .. 12 : \E d \in 1 .. MonthLength(y, m) : day = [y |-> y, m |-> m, d |-> d]
    BY DEF TrafficInit
  <2>2. y \in Int
    BY TrafficAssumption
  <2> QED
    BY <2>1, <2>2 DEF IsDay, IsDate
<1>2. clock \in [1 .. 2 -> Nat] /\ RetryLimit \in Nat
  BY TrafficAssumption DEF TrafficInit
<1> QED
  BY <1>1, <1>2 DEF TrafficInit, TrafficInv

LEMMA TrafficInvStep == TrafficInv /\ [TrafficNext]_job => TrafficInv'
<1> SUFFICES ASSUME TrafficInv, [TrafficNext]_job PROVE TrafficInv'
  OBVIOUS
<1> USE DEF TrafficInv
<1>1. ASSUME NEW late \in BOOLEAN, Start(late) PROVE TrafficInv'
  <2>1. clock' \in [1 .. 2 -> Nat]
    BY <1>1 DEF Start
  <2>2. IsDay(day)' /\ (document \in TrafficPlans)' /\ Accepted(document)' = Accepted(document)
    BY <1>1 DEF Start, IsDay, IsDate, MonthLength, Leap, Accepted, WellFormed
  <2>3. phase = "start" /\ phase' = (IF Accepted(document) THEN "decide" ELSE "refused")
    BY <1>1 DEF Start, Go
  <2> QED
    BY <1>1, <2>1, <2>2, <2>3 DEF Start
<1>2. ASSUME ScenarioFor PROVE TrafficInv'
  <2>1. phase = "decide" /\ phase' = (IF switches.enabled /\ (switches.force \/ AllowedAt(day, clock))
                                       THEN "talk" ELSE "skipped")
    BY <1>2 DEF ScenarioFor, Go
  <2> QED
    BY <1>2, <2>1, SameAllowed DEF ScenarioFor
<1>3. ASSUME Talk PROVE TrafficInv'
  BY <1>3, SameAllowed DEF Talk
<1>4. ASSUME Flush PROVE TrafficInv'
  BY <1>4, SameAllowed DEF Flush
<1>5. ASSUME Retry PROVE TrafficInv'
  BY <1>5, SameAllowed, TrafficAssumption DEF Retry
<1>6. ASSUME UNCHANGED job PROVE TrafficInv'
  BY <1>6, SameAllowed DEF job
<1> QED
  BY <1>1, <1>2, <1>3, <1>4, <1>5, <1>6 DEF TrafficNext

LEMMA InvPromises == TrafficInv => TrafficAsPromised
<1> SUFFICES ASSUME TrafficInv PROVE TrafficAsPromised
  OBVIOUS
<1>1. Weekday(Ordinal(day.y, day.m, day.d)) \in 0 .. 6
  <2>1. day.y \in Int /\ day.m \in 1 .. 12 /\ day.d \in 1 .. MonthLength(day.y, day.m)
    BY DEF TrafficInv, IsDay, IsDate
  <2>2. MonthLength(day.y, day.m) \in 28 .. 31
    BY <2>1, MonthAfterMonth
  <2>3. day.d \in Int
    BY <2>1, <2>2
  <2>4. Ordinal(day.y, day.m, day.d) \in Int
    BY <2>1, <2>3, Ordinals
  <2> QED
    BY <2>4, Weekdays
<1>2. IsHoliday(day) <=> Kept(day)
  BY HolidaysAreKept DEF TrafficInv
<1>3. CalendarAsPromised
  <2>1. clock[1] \in Nat /\ document.opens \in Int /\ document.closes \in Int
    BY TrafficAssumption DEF TrafficInv
  <2>2. AllowedAt(day, clock) <=> Promised(day, clock)
    BY <1>1, <1>2, <2>1 DEF AllowedAt, Promised, Quiet
  <2> QED
    BY <2>2 DEF CalendarAsPromised, TrafficInv
<1>4. HalfTheEstate
  <2> SUFFICES ASSUME phase = "decide", ~ Quiet(day)
               PROVE  Cardinality({q \in {0, 15, 30, 45} : AllowedAt(day, <<clock[1], q>>)}) <= 2
    BY DEF HalfTheEstate
  <2> DEFINE held == {q \in {0, 15, 30, 45} : AllowedAt(day, <<clock[1], q>>)}
  <2>1. Cardinality(document.quarters) = 2 /\ document.quarters \subseteq {0, 15, 30, 45}
    BY DEF TrafficInv, Accepted
  <2>2. ~ Kept(day) /\ ~ (Weekday(Ordinal(day.y, day.m, day.d)) >= 5)
    BY <1>1 DEF Quiet
  <2>3. held \subseteq document.quarters
    <3>1. ASSUME NEW q, AllowedAt(day, <<clock[1], q>>) PROVE q \in document.quarters
      BY <1>2, <2>2, <3>1 DEF AllowedAt
    <3> QED
      BY <3>1
  <2>4. IsFiniteSet(document.quarters)
    <3>1. IsFiniteSet({0, 15, 30, 45})
      <4>1. IsFiniteSet(0 .. 45)
        <5> DEFINE a == 0  b == 45
        <5>1. a \in Int /\ b \in Int
          OBVIOUS
        <5> HIDE DEF a, b
        <5>2. IsFiniteSet(a .. b)
          BY <5>1, FS_Interval
        <5> QED
          BY <5>2 DEF a, b
      <4>2. {0, 15, 30, 45} \subseteq 0 .. 45
        OBVIOUS
      <4> QED
        BY <4>1, <4>2, FS_Subset
    <3> QED
      BY <2>1, <3>1, FS_Subset
  <2>5. Cardinality(held) <= Cardinality(document.quarters)
    BY <2>3, <2>4, FS_Subset
  <2> QED
    BY <2>1, <2>5
<1>5. CompletedIsTraced
  <2>1. RetryLimit \in Nat
    BY TrafficAssumption
  <2> QED
    BY <2>1 DEF CompletedIsTraced, TrafficInv
<1> QED
  BY <1>3, <1>4, <1>5 DEF TrafficAsPromised

(* TrafficAsPromised, of every plan that the assumption allows, every year, *)
(* every time the schedule may fire at and every number of retries.         *)
THEOREM TrafficPromised == TrafficSpec => []TrafficAsPromised
<1> QED
  BY TrafficInvInit, TrafficInvStep, InvPromises, PTL DEF TrafficSpec
=============================================================================
