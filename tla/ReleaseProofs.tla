--------------------------- MODULE ReleaseProofs ---------------------------
(***************************************************************************)
(* Proofs about Release, for any set of jobs, versions and routes.         *)
(***************************************************************************)
EXTENDS Release, TLAPS

-----------------------------------------------------------------------------
(* Type correctness. *)

\* Every variable of Release stays in its set, whatever the jobs, the portal
\* and crashes do (agents/travel release.py and operations.py).
THEOREM TypeCorrect == Spec => []TypeOK
<1>1. Init => TypeOK
  BY ReleaseAssumption DEF Init, TypeOK, Endpoints, Routes, Backends, Stages, Plans, Kinds,
     NoBundles, BundlePair, NoReceipt, Receipts
<1>2. TypeOK /\ [Next]_vars => TypeOK'
  <2> SUFFICES ASSUME TypeOK, [Next]_vars PROVE TypeOK'
    OBVIOUS
  <2> USE DEF TypeOK, cloud, history, Proceed, Stages, Ended, Viewing
  <2>1. ASSUME NEW j \in Jobs, StartPromote(j) \/ StartRollback(j) \/ StartEvaluate(j)
        PROVE  TypeOK'
    <3>1. PICK p \in Plans : Start(j, p)
      <4>1. CASE StartPromote(j)
        BY <4>1, ReleaseAssumption DEF StartPromote, Plans, Kinds
      <4>2. CASE StartRollback(j)
        BY <4>2 DEF StartRollback, Plans, Kinds, Receipts
      <4>3. CASE StartEvaluate(j)
        BY <4>3, ReleaseAssumption DEF StartEvaluate, Plans, Kinds
      <4> QED
        BY <2>1, <4>1, <4>2, <4>3
    <3> QED
      BY <3>1 DEF Start
  <2>2. ASSUME NEW j \in Jobs, ReadEndpoint(j) PROVE TypeOK'
    BY <2>2 DEF ReadEndpoint
  <2>3. ASSUME NEW j \in Jobs, ReadBundles(j) PROVE TypeOK'
    BY <2>3 DEF ReadBundles, BundlePair, Plans
  <2>4. ASSUME NEW j \in Jobs, WriteReceipt(j) PROVE TypeOK'
    BY <2>4 DEF WriteReceipt, Receipt, Receipts, Plans
  <2>5. ASSUME NEW j \in Jobs, EvaluateGolden(j) \/ Govern(j) \/ Recheck(j) \/ UpdateRefused(j)
        PROVE  TypeOK'
    BY <2>5 DEF EvaluateGolden, Govern, Recheck, UpdateRefused
  <2>6. ASSUME NEW j \in Jobs, Update(j) \/ UpdateReplyLost(j) PROVE TypeOK'
    <3>1. stage' \in [Jobs -> Stages]
      BY <2>6 DEF Update, UpdateReplyLost, IsRelease
    <3>2. /\ Patch(j)
          /\ plan[j].target \in Routes
      BY <2>6 DEF Update, UpdateReplyLost, Plans, Routes
    <3>3. /\ endpoint' \in Endpoints
          /\ installed' \in [by : Jobs \cup {Portal}, from : Endpoints]
      BY <3>2 DEF Patch, Endpoints
    <3> QED
      BY <3>1, <3>2, <3>3 DEF Patch
  <2>7. ASSUME NEW j \in Jobs, ReadBack(j) \/ NamedResponse(j) PROVE TypeOK'
    BY <2>7 DEF ReadBack, NamedResponse
  <2>8. ASSUME NEW j \in Jobs, Crash(j) PROVE TypeOK'
    <3>1. stage' \in [Jobs -> Stages]
      BY <2>8 DEF Crash
    <3>2. receipts' \in [Jobs -> Receipts]
      BY <2>8 DEF Crash, Receipts
    <3> QED
      BY <2>8, <3>1, <3>2 DEF Crash
  <2>9. CASE PortalChangesEndpoint
    BY <2>9 DEF PortalChangesEndpoint, Intervene, MayIntervene, memory, Endpoints
  <2>10. CASE PortalChangesBackend
    BY <2>10 DEF PortalChangesBackend, Intervene, MayIntervene, memory
  <2>11. CASE ControlsDrift
    BY <2>11 DEF ControlsDrift, Intervene, MayIntervene, memory
  <2>12. CASE UNCHANGED vars
    BY <2>12 DEF vars, memory
  <2> QED
    BY <2>1, <2>2, <2>3, <2>4, <2>5, <2>6, <2>7, <2>8, <2>9, <2>10, <2>11, <2>12
       DEF Next, JobStep
<1> QED
  BY <1>1, <1>2, PTL DEF Spec

-----------------------------------------------------------------------------
(***************************************************************************)
(* The named route is always a vetted one.  A rollback trusts the receipt, *)
(* a receipt trusts --expect-version, and --expect-version was compared    *)
(* with the live route: the invariant follows that chain backwards.        *)
(***************************************************************************)
Vetted == chosen \cup (Passed \cap Declared) \cup GoldenPassed

JobVetted(j) ==
    /\ stage[j] \in Viewing /\ IsRelease(j) => plan[j].expected \in Vetted
    /\ receipts[j].state = "durable" => receipts[j].previous \in Vetted
    /\ plan[j].kind = "rollback" => plan[j].target \in Vetted
    /\ plan[j].kind = "promote" => plan[j].target \in Passed
    /\ (stage[j] \in Viewing \ {"read"} /\ plan[j].kind = "promote") =>
           plan[j].target \in Declared
    /\ (stage[j] \in {"ready", "governed", "checked"} /\ plan[j].kind = "evaluate") =>
           plan[j].target \in GoldenPassed
    /\ stage[j] = "bundled" => IsRelease(j)

VettedInv ==
    /\ endpoint.route \in Vetted
    /\ \A j \in Jobs : JobVetted(j)

\* Vetting is never withdrawn.
LEMMA VettedGrows == [Next]_vars => Vetted \subseteq Vetted'
<1> SUFFICES ASSUME [Next]_vars PROVE chosen \subseteq chosen'
  BY DEF Vetted
<1>1. ASSUME NEW j \in Jobs, JobStep(j) PROVE chosen' = chosen
  BY <1>1 DEF JobStep, StartPromote, StartRollback, StartEvaluate, Start, ReadEndpoint,
     ReadBundles, WriteReceipt, EvaluateGolden, Govern, Recheck, Update, UpdateReplyLost,
     Patch, UpdateRefused, ReadBack, NamedResponse, Crash, history
<1> QED
  BY <1>1 DEF Next, PortalChangesEndpoint, PortalChangesBackend, ControlsDrift, history, vars

\* A job that takes no step keeps its promise.
LEMMA OthersStayVetted ==
    ASSUME NEW j \in Jobs, JobVetted(j), Vetted \subseteq Vetted',
           stage'[j] = stage[j], plan'[j] = plan[j], receipts'[j] = receipts[j]
    PROVE  JobVetted(j)'
BY DEF JobVetted, IsRelease

\* The endpoint only ever routes to a version that passed its gates, or that an
\* operator chose (release.py and operations.py).
THEOREM RouteVetted == Spec => []RouteIsVetted
<1>1. Init => VettedInv
  BY DEF Init, VettedInv, Vetted, JobVetted, IsRelease, NoReceipt, Viewing
<1>2. TypeOK /\ VettedInv /\ [Next]_vars => VettedInv'
  <2> SUFFICES ASSUME TypeOK, VettedInv, [Next]_vars PROVE VettedInv'
    OBVIOUS
  <2>0. Vetted \subseteq Vetted'
    BY VettedGrows
  \* It is enough to look at the job that moves.
  <2>1. ASSUME NEW j \in Jobs, JobVetted(j)', endpoint'.route \in Vetted',
               \A k \in Jobs \ {j} : /\ stage'[k] = stage[k]
                                     /\ plan'[k] = plan[k]
                                     /\ receipts'[k] = receipts[k]
        PROVE  VettedInv'
    BY <2>0, <2>1, OthersStayVetted DEF VettedInv
  <2> USE DEF TypeOK, VettedInv, cloud, history, Proceed
  <2>2. ASSUME NEW j \in Jobs, StartPromote(j) \/ StartRollback(j) \/ StartEvaluate(j)
        PROVE  VettedInv'
    <3>1. PICK p \in Plans : /\ Start(j, p)
                             /\ p.kind = "rollback" => p.target \in Vetted
                             /\ p.kind = "promote" => p.target \in Passed
      <4>1. CASE StartPromote(j)
        BY <4>1, ReleaseAssumption DEF StartPromote, Plans, Kinds
      <4>2. CASE StartRollback(j)
        <5>1. PICK origin \in Jobs \ {j} :
                /\ receipts[origin].state = "durable"
                /\ Start(j, [kind |-> "rollback", expected |-> receipts[origin].target,
                             target |-> receipts[origin].previous, source |-> origin])
          BY <4>2 DEF StartRollback
        <5>2. receipts[origin] \in Receipts /\ receipts[origin].previous \in Vetted
          BY <5>1 DEF JobVetted
        <5> QED
          BY <5>1, <5>2 DEF Plans, Kinds, Receipts
      <4>3. CASE StartEvaluate(j)
        BY <4>3, ReleaseAssumption DEF StartEvaluate, Plans, Kinds
      <4> QED
        BY <2>2, <4>1, <4>2, <4>3
    <3>2. JobVetted(j)'
      BY <3>1, <2>0 DEF Start, JobVetted, IsRelease, Viewing
    <3> QED
      BY <3>1, <3>2, <2>0, <2>1 DEF Start
  <2>3. ASSUME NEW j \in Jobs, ReadEndpoint(j) PROVE VettedInv'
    <3>1. JobVetted(j)'
      BY <2>3, <2>0 DEF ReadEndpoint, JobVetted, IsRelease, Viewing
    <3> QED
      BY <2>3, <3>1, <2>0, <2>1 DEF ReadEndpoint
  <2>4. ASSUME NEW j \in Jobs, ReadBundles(j) PROVE VettedInv'
    <3>1. JobVetted(j)'
      BY <2>4, <2>0 DEF ReadBundles, BundlesUsable, JobVetted, IsRelease, Viewing
    <3> QED
      BY <2>4, <3>1, <2>0, <2>1 DEF ReadBundles
  <2>5. ASSUME NEW j \in Jobs, WriteReceipt(j) PROVE VettedInv'
    <3>1. JobVetted(j)'
      BY <2>5, <2>0 DEF WriteReceipt, Receipt, JobVetted, IsRelease, Viewing
    <3> QED
      BY <2>5, <3>1, <2>0, <2>1 DEF WriteReceipt
  <2>6. ASSUME NEW j \in Jobs, EvaluateGolden(j) PROVE VettedInv'
    <3>1. JobVetted(j)'
      BY <2>6, <2>0 DEF EvaluateGolden, JobVetted, IsRelease, Viewing
    <3> QED
      BY <2>6, <3>1, <2>0, <2>1 DEF EvaluateGolden
  <2>7. ASSUME NEW j \in Jobs, Govern(j) \/ Recheck(j) \/ UpdateRefused(j) PROVE VettedInv'
    <3>1. JobVetted(j)'
      BY <2>7, <2>0 DEF Govern, Recheck, UpdateRefused, JobVetted, IsRelease, Viewing
    <3> QED
      BY <2>7, <3>1, <2>0, <2>1 DEF Govern, Recheck, UpdateRefused
  <2>8. ASSUME NEW j \in Jobs, Update(j) \/ UpdateReplyLost(j) PROVE VettedInv'
    <3>1. plan[j].target \in Vetted
      BY <2>8 DEF Update, UpdateReplyLost, JobVetted, Vetted, Viewing, Plans, Kinds
    <3>2. endpoint'.route = plan[j].target
      BY <2>8 DEF Update, UpdateReplyLost, Patch, Endpoints
    <3>3. JobVetted(j)'
      BY <2>8, <2>0 DEF Update, UpdateReplyLost, Patch, JobVetted, IsRelease, Viewing
    <3> QED
      BY <2>8, <3>1, <3>2, <3>3, <2>0, <2>1 DEF Update, UpdateReplyLost, Patch
  <2>9. ASSUME NEW j \in Jobs, ReadBack(j) \/ NamedResponse(j) PROVE VettedInv'
    <3>1. JobVetted(j)'
      BY <2>9, <2>0 DEF ReadBack, NamedResponse, JobVetted, IsRelease, Viewing
    <3> QED
      BY <2>9, <3>1, <2>0, <2>1 DEF ReadBack, NamedResponse
  <2>10. ASSUME NEW j \in Jobs, Crash(j) PROVE VettedInv'
    <3>1. receipts'[j].state = "durable" => receipts'[j] = receipts[j]
      BY <2>10 DEF Crash, Receipts
    <3>2. JobVetted(j)'
      BY <2>10, <3>1, <2>0 DEF Crash, JobVetted, IsRelease, Viewing
    <3> QED
      BY <2>10, <3>2, <2>0, <2>1 DEF Crash
  <2>11. CASE PortalChangesEndpoint
    BY <2>11, <2>0, OthersStayVetted DEF PortalChangesEndpoint, Intervene, memory, Vetted
  <2>12. CASE PortalChangesBackend \/ ControlsDrift \/ UNCHANGED vars
    BY <2>12, <2>0, OthersStayVetted
       DEF PortalChangesBackend, ControlsDrift, Intervene, memory, vars
  <2> QED
    BY <2>2, <2>3, <2>4, <2>5, <2>6, <2>7, <2>8, <2>9, <2>10, <2>11, <2>12 DEF Next, JobStep
<1>3. VettedInv => RouteIsVetted
  BY DEF VettedInv, RouteIsVetted, Vetted
<1> QED
  BY <1>1, <1>2, <1>3, TypeCorrect, PTL DEF Spec

-----------------------------------------------------------------------------
(***************************************************************************)
(* Write-ahead receipts, without any discipline of the operators.          *)
(***************************************************************************)
Installer(j) == installed.by = j /\ j \in Jobs

ReceiptInv ==
    \A j \in Jobs :
        /\ (IsRelease(j) /\ stage[j] \in {"ready", "governed", "checked"}) =>
               receipts[j] = Receipt(j)
        /\ Installer(j) => stage[j] \in {"pinned", "verified"} \cup Ended
        /\ (Installer(j) /\ IsRelease(j)) => /\ receipts[j].state = "durable"
                                             /\ receipts[j].target = endpoint.route

\* A job that changed the endpoint has its receipt on disk, at every moment.
LEMMA ReceiptsHold == Spec => []ReceiptInv
<1>1. Init => ReceiptInv
  <2> SUFFICES ASSUME Init PROVE ReceiptInv
    OBVIOUS
  <2>1. \A j \in Jobs : stage[j] = "idle" /\ ~Installer(j)
    BY ReleaseAssumption DEF Init, Installer
  <2> QED
    BY <2>1 DEF ReceiptInv
<1>2. TypeOK /\ ReceiptInv /\ [Next]_vars => ReceiptInv'
  <2> SUFFICES ASSUME TypeOK, ReceiptInv, [Next]_vars PROVE ReceiptInv'
    OBVIOUS
  <2> USE DEF TypeOK, ReceiptInv, Installer, IsRelease, Receipt, Ended, cloud, history, Proceed
  <2>1. ASSUME NEW j \in Jobs, StartPromote(j) \/ StartRollback(j) \/ StartEvaluate(j)
        PROVE  ReceiptInv'
    <3>1. PICK p : Start(j, p)
      BY <2>1 DEF StartPromote, StartRollback, StartEvaluate
    <3> QED
      BY <3>1 DEF Start
  <2>2. ASSUME NEW j \in Jobs, ReadEndpoint(j) PROVE ReceiptInv'
    BY <2>2 DEF ReadEndpoint
  <2>3. ASSUME NEW j \in Jobs, ReadBundles(j) PROVE ReceiptInv'
    BY <2>3 DEF ReadBundles
  <2>4. ASSUME NEW j \in Jobs, WriteReceipt(j) PROVE ReceiptInv'
    BY <2>4 DEF WriteReceipt
  <2>5. ASSUME NEW j \in Jobs,
               EvaluateGolden(j) \/ Govern(j) \/ Recheck(j) \/ UpdateRefused(j)
        PROVE  ReceiptInv'
    BY <2>5 DEF EvaluateGolden, Govern, Recheck, UpdateRefused
  <2>6. ASSUME NEW j \in Jobs, Update(j) \/ UpdateReplyLost(j) PROVE ReceiptInv'
    <3>1. /\ stage'[j] \in {"pinned", "verified"} \cup Ended
          /\ \A k \in Jobs \ {j} : stage'[k] = stage[k]
      BY <2>6 DEF Update, UpdateReplyLost
    <3>2. endpoint'.route = plan[j].target /\ installed'.by = j
      BY <2>6 DEF Update, UpdateReplyLost, Patch, Endpoints
    <3>3. IsRelease(j) => receipts[j] = Receipt(j)
      BY <2>6 DEF Update, UpdateReplyLost
    <3> QED
      BY <2>6, <3>1, <3>2, <3>3 DEF Update, UpdateReplyLost, Patch
  <2>7. ASSUME NEW j \in Jobs, ReadBack(j) \/ NamedResponse(j) PROVE ReceiptInv'
    BY <2>7 DEF ReadBack, NamedResponse
  <2>8. ASSUME NEW j \in Jobs, Crash(j) PROVE ReceiptInv'
    BY <2>8 DEF Crash
  <2>9. CASE PortalChangesEndpoint
    BY <2>9, ReleaseAssumption DEF PortalChangesEndpoint, Intervene, memory
  <2>10. CASE PortalChangesBackend \/ ControlsDrift \/ UNCHANGED vars
    BY <2>10 DEF PortalChangesBackend, ControlsDrift, Intervene, memory, vars
  <2> QED
    BY <2>1, <2>2, <2>3, <2>4, <2>5, <2>6, <2>7, <2>8, <2>9, <2>10 DEF Next, JobStep
<1> QED
  BY <1>1, <1>2, TypeCorrect, PTL DEF Spec

\* The receipt of the job that set the current route is on disk.
THEOREM RouteReceipted == Spec => []RouteHasReceipt
<1>1. ReceiptInv => RouteHasReceipt
  BY DEF ReceiptInv, RouteHasReceipt, Installer
<1> QED
  BY <1>1, ReceiptsHold, PTL

-----------------------------------------------------------------------------
(***************************************************************************)
(* A rollback is the inverse of its promotion.  A durable receipt is never *)
(* written again, so what a rollback copied from it stays what it says.    *)
(***************************************************************************)
Follows(j) ==
    LET original == receipts[plan[j].source] IN
    /\ original.state = "durable"
    /\ plan[j].expected = original.target
    /\ plan[j].target = original.previous

Inverts(j) ==
    /\ receipts[j].state = "durable" => /\ stage[j] \notin {"idle", "bundled"}
                                        /\ receipts[j].action = plan[j].kind
    /\ plan[j].kind = "rollback" => Follows(j)
    /\ (plan[j].kind = "rollback" /\ stage[j] = "bundled") =>
           bundles[j].new = receipts[plan[j].source].bundles.old
    /\ stage[j] \in {"idle", "started", "read", "bundled"} => receipts[j].state = "absent"

InvertInv == RollbackInvertsPromotion /\ \A j \in Jobs : Inverts(j)

\* Only a job that has no durable receipt writes one.
LEMMA DurableStays ==
    ASSUME TypeOK, InvertInv, [Next]_vars, NEW k \in Jobs, receipts[k].state = "durable"
    PROVE  receipts'[k] = receipts[k]
<1> USE DEF TypeOK, cloud, history, memory
<1>1. ASSUME NEW j \in Jobs, WriteReceipt(j) \/ Crash(j) PROVE receipts'[k] = receipts[k]
  BY <1>1 DEF WriteReceipt, Crash, InvertInv, Inverts
<1>2. ASSUME NEW j \in Jobs, JobStep(j), ~(WriteReceipt(j) \/ Crash(j)) PROVE receipts' = receipts
  BY <1>2 DEF JobStep, StartPromote, StartRollback, StartEvaluate, Start, ReadEndpoint,
     ReadBundles, EvaluateGolden, Govern, Recheck, Update, UpdateReplyLost, Patch,
     UpdateRefused, ReadBack, NamedResponse
<1>3. CASE PortalChangesEndpoint \/ PortalChangesBackend \/ ControlsDrift \/ UNCHANGED vars
  BY <1>3 DEF PortalChangesEndpoint, PortalChangesBackend, ControlsDrift, Intervene, vars
<1> QED
  BY <1>1, <1>2, <1>3 DEF Next

\* A rollback's receipt, once on disk, is the exact inverse of its promotion's
\* receipt, with the tool backend that receipt recorded (release.py:171-203).
THEOREM RollbackInverts == Spec => []RollbackInvertsPromotion
<1>1. Init => InvertInv
  BY DEF Init, InvertInv, Inverts, RollbackInvertsPromotion, NoReceipt
<1>2. TypeOK /\ InvertInv /\ [Next]_vars => InvertInv'
  <2> SUFFICES ASSUME TypeOK, InvertInv, [Next]_vars PROVE InvertInv'
    OBVIOUS
  <2>0. \A k \in Jobs : receipts[k].state = "durable" => receipts'[k] = receipts[k]
    BY DurableStays
  \* A job keeps its part as long as its own plan and receipt stay.
  <2>1. ASSUME NEW k \in Jobs, plan'[k] = plan[k], bundles'[k] = bundles[k],
               stage'[k] = stage[k], receipts'[k] = receipts[k]
        PROVE  Inverts(k)'
    <3>1. plan[k].source \in Jobs
      BY DEF TypeOK, Plans
    <3> QED
      BY <2>0, <2>1, <3>1 DEF InvertInv, Inverts, Follows
  \* The property follows from the parts.
  <2>2. ASSUME \A k \in Jobs : Inverts(k)', receipts' = receipts,
               \A k \in Jobs : receipts[k].state = "durable" => plan'[k] = plan[k]
        PROVE  InvertInv'
    BY <2>2 DEF InvertInv, RollbackInvertsPromotion
  <2> USE DEF TypeOK, cloud, history, Proceed
  <2>3. ASSUME NEW j \in Jobs, StartPromote(j) \/ StartRollback(j) \/ StartEvaluate(j)
        PROVE  InvertInv'
    <3>1. PICK p \in Plans :
            /\ Start(j, p)
            /\ p.kind = "rollback" => /\ receipts[p.source].state = "durable"
                                      /\ p.expected = receipts[p.source].target
                                      /\ p.target = receipts[p.source].previous
      <4>1. CASE StartPromote(j)
        BY <4>1, ReleaseAssumption DEF StartPromote, Plans, Kinds
      <4>2. CASE StartRollback(j)
        BY <4>2 DEF StartRollback, Plans, Kinds, Receipts
      <4>3. CASE StartEvaluate(j)
        BY <4>3, ReleaseAssumption DEF StartEvaluate, Plans, Kinds
      <4> QED
        BY <2>3, <4>1, <4>2, <4>3
    <3>2. /\ stage[j] = "idle" /\ stage' = [stage EXCEPT ![j] = "started"]
          /\ plan' = [plan EXCEPT ![j] = p]
          /\ receipts' = receipts /\ bundles' = bundles
      BY <3>1 DEF Start
    <3>3. Inverts(j)'
      BY <3>1, <3>2 DEF InvertInv, Inverts, Follows, Receipts
    <3>4. \A k \in Jobs \ {j} : Inverts(k)'
      BY <2>1, <3>2
    <3> QED
      BY <2>2, <3>2, <3>3, <3>4 DEF InvertInv, Inverts
  \* Steps that leave plan, bundles and receipts alone.
  <2>4. ASSUME NEW j \in Jobs, plan' = plan, bundles' = bundles, receipts' = receipts,
               \A k \in Jobs \ {j} : stage'[k] = stage[k],
               stage'[j] \notin {"idle", "started", "bundled"},
               stage'[j] = "read" => stage[j] = "started"
        PROVE  InvertInv'
    <3>1. Inverts(j)'
      BY <2>4 DEF InvertInv, Inverts, Follows
    <3>2. \A k \in Jobs \ {j} : Inverts(k)'
      BY <2>1, <2>4
    <3> QED
      BY <2>2, <2>4, <3>1, <3>2
  <2>5. ASSUME NEW j \in Jobs,
               \/ ReadEndpoint(j) \/ EvaluateGolden(j) \/ Govern(j) \/ Recheck(j)
               \/ UpdateRefused(j) \/ Update(j) \/ UpdateReplyLost(j) \/ ReadBack(j)
               \/ NamedResponse(j)
        PROVE  InvertInv'
    BY <2>4, <2>5 DEF ReadEndpoint, EvaluateGolden, Govern, Recheck, UpdateRefused, Update,
       UpdateReplyLost, Patch, ReadBack, NamedResponse
  <2>6. ASSUME NEW j \in Jobs, ReadBundles(j) PROVE InvertInv'
    <3>1. Inverts(j)'
      BY <2>6 DEF ReadBundles, BundlesUsable, InvertInv, Inverts, Follows
    <3>2. \A k \in Jobs \ {j} : Inverts(k)'
      BY <2>1, <2>6 DEF ReadBundles
    <3> QED
      BY <2>2, <2>6, <3>1, <3>2 DEF ReadBundles
  <2>7. ASSUME NEW j \in Jobs, WriteReceipt(j) PROVE InvertInv'
    <3>1. /\ stage[j] = "bundled" /\ receipts[j].state = "absent"
          /\ receipts' = [receipts EXCEPT ![j] = Receipt(j)]
          /\ plan' = plan /\ bundles' = bundles
      BY <2>7 DEF WriteReceipt, InvertInv, Inverts
    <3>2. plan[j].kind = "rollback" => plan[j].source # j /\ Follows(j)
      BY <3>1 DEF InvertInv, Inverts, Follows
    <3>3. Inverts(j)'
      BY <2>7, <3>1, <3>2, <2>0 DEF WriteReceipt, Receipt, InvertInv, Inverts, Follows, Plans
    <3>4. \A k \in Jobs \ {j} : Inverts(k)'
      BY <2>1, <2>7, <3>1 DEF WriteReceipt
    <3>5. ASSUME NEW k \in Jobs, receipts'[k].state = "durable",
                 receipts'[k].action = "rollback"
          PROVE  /\ receipts'[k].previous = receipts'[plan'[k].source].target
                 /\ receipts'[k].target = receipts'[plan'[k].source].previous
                 /\ receipts'[k].bundles.new = receipts'[plan'[k].source].bundles.old
      <4>0. plan[k].source \in Jobs
        BY DEF Plans
      <4>1. CASE k = j
        BY <4>0, <4>1, <3>1, <3>2, <3>5, <2>0, <2>7 DEF Receipt, Follows, InvertInv, Inverts
      <4>2. CASE k # j
        BY <4>0, <4>2, <3>1, <3>5, <2>0
           DEF InvertInv, RollbackInvertsPromotion, Inverts, Follows
      <4> QED
        BY <4>1, <4>2
    <3> QED
      BY <3>3, <3>4, <3>5 DEF InvertInv, RollbackInvertsPromotion
  <2>8. ASSUME NEW j \in Jobs, Crash(j) PROVE InvertInv'
    <3>1. /\ plan' = plan /\ bundles' = bundles
          /\ stage' = [stage EXCEPT ![j] = "crashed"]
          /\ \A k \in Jobs \ {j} : receipts'[k] = receipts[k]
          /\ receipts'[j].state = "durable" => receipts'[j] = receipts[j]
      BY <2>8 DEF Crash, Receipts
    <3>2. Inverts(j)'
      <4>1. plan[j].source \in Jobs
        BY DEF Plans
      <4> QED
        BY <3>1, <4>1, <2>0 DEF InvertInv, Inverts, Follows
    <3>3. \A k \in Jobs \ {j} : Inverts(k)'
      BY <2>1, <3>1
    <3>4. \A k \in Jobs : receipts'[k].state = "durable" => receipts'[k] = receipts[k]
      BY <3>1
    <3>5. ASSUME NEW k \in Jobs, receipts'[k].state = "durable", receipts'[k].action = "rollback"
          PROVE  receipts'[plan[k].source] = receipts[plan[k].source]
      <4>1. plan[k].source \in Jobs
        BY DEF Plans
      <4>2. Follows(k)
        BY <3>4, <3>5 DEF InvertInv, Inverts
      <4> QED
        BY <4>1, <4>2, <2>0 DEF Follows
    <3>6. RollbackInvertsPromotion'
      BY <3>1, <3>4, <3>5 DEF InvertInv, RollbackInvertsPromotion
    <3> QED
      BY <3>2, <3>3, <3>6 DEF InvertInv
  <2>9. CASE PortalChangesEndpoint \/ PortalChangesBackend \/ ControlsDrift \/ UNCHANGED vars
    BY <2>9, <2>1, <2>2
       DEF PortalChangesEndpoint, PortalChangesBackend, ControlsDrift, Intervene, memory, vars
  <2> QED
    BY <2>3, <2>5, <2>6, <2>7, <2>8, <2>9 DEF Next, JobStep
<1> QED
  BY <1>1, <1>2, TypeCorrect, PTL DEF Spec, InvertInv

-----------------------------------------------------------------------------
(***************************************************************************)
(* Under either discipline the read-then-patch is a compare-and-set.       *)
(***************************************************************************)
DecisionInv ==
    /\ \A j, k \in Jobs : stage[j] = "checked" /\ stage[k] = "checked" => j = k
    /\ Discipline = "serial" => \A j, k \in Jobs : Active(j) /\ Active(k) => j = k
    /\ NoDecisionOverwritten
    /\ \A j \in Jobs :
          (IsRelease(j) /\ stage[j] \in Viewing) => before[j].route = plan[j].expected

\* Under a discipline, what a job saw is what it patches.
LEMMA DecisionsHold ==
    ASSUME Discipline # "none"
    PROVE  Spec => []DecisionInv
<1>1. Init => DecisionInv
  BY DEF Init, DecisionInv, NoDecisionOverwritten, Active, Viewing
<1>2. TypeOK /\ DecisionInv /\ [Next]_vars => DecisionInv'
  <2> SUFFICES ASSUME TypeOK, DecisionInv, [Next]_vars PROVE DecisionInv'
    OBVIOUS
  <2> USE DEF TypeOK, DecisionInv, NoDecisionOverwritten, Active, Ended, Viewing, IsRelease,
              cloud, history, Proceed
  <2>1. ASSUME NEW j \in Jobs, StartPromote(j) \/ StartRollback(j) \/ StartEvaluate(j)
        PROVE  DecisionInv'
    <3>1. PICK p : Start(j, p)
      BY <2>1 DEF StartPromote, StartRollback, StartEvaluate
    <3> QED
      BY <3>1 DEF Start, MayStart
  <2>2. ASSUME NEW j \in Jobs, ReadEndpoint(j) PROVE DecisionInv'
    BY <2>2 DEF ReadEndpoint
  <2>3. ASSUME NEW j \in Jobs,
               ReadBundles(j) \/ WriteReceipt(j) \/ EvaluateGolden(j) \/ Govern(j)
        PROVE  DecisionInv'
    BY <2>3 DEF ReadBundles, WriteReceipt, EvaluateGolden, Govern
  <2>4. ASSUME NEW j \in Jobs, Recheck(j) PROVE DecisionInv'
    BY <2>4, ReleaseAssumption DEF Recheck, MayWrite
  <2>5. ASSUME NEW j \in Jobs, Update(j) \/ UpdateReplyLost(j) \/ UpdateRefused(j)
        PROVE  DecisionInv'
    BY <2>5 DEF Update, UpdateReplyLost, UpdateRefused, Patch
  <2>6. ASSUME NEW j \in Jobs, ReadBack(j) \/ NamedResponse(j) PROVE DecisionInv'
    BY <2>6 DEF ReadBack, NamedResponse
  <2>7. ASSUME NEW j \in Jobs, Crash(j) PROVE DecisionInv'
    BY <2>7 DEF Crash
  <2>8. CASE PortalChangesEndpoint
    BY <2>8, ReleaseAssumption
       DEF PortalChangesEndpoint, Intervene, MayIntervene, MayWrite, memory
  <2>9. CASE PortalChangesBackend \/ ControlsDrift \/ UNCHANGED vars
    BY <2>9 DEF PortalChangesBackend, ControlsDrift, Intervene, memory, vars
  <2> QED
    BY <2>1, <2>2, <2>3, <2>4, <2>5, <2>6, <2>7, <2>8, <2>9 DEF Next, JobStep
<1> QED
  BY <1>1, <1>2, TypeCorrect, PTL DEF Spec

\* A job patches only the endpoint its decision was based on, if nobody else acts
\* between its last read and its patch.
THEOREM DecisionsKept ==
    ASSUME Discipline # "none"
    PROVE  Spec => []NoDecisionOverwritten
<1>1. DecisionInv => NoDecisionOverwritten
  BY DEF DecisionInv
<1> QED
  BY <1>1, DecisionsHold, PTL

-----------------------------------------------------------------------------
(***************************************************************************)
(* The receipt of the current route leads back to the route it replaced.   *)
(***************************************************************************)
UndoInv ==
    LET j == installed.by IN
    (j \in Jobs /\ plan[j].kind = "promote") =>
        /\ stage[j] \in {"pinned", "verified"} \cup Ended
        /\ ReceiptUndoesPromotion

\* Under either discipline a promotion's receipt undoes exactly that promotion.
THEOREM ReceiptUndoes ==
    ASSUME Discipline # "none"
    PROVE  Spec => []ReceiptUndoesPromotion
<1>1. Init => UndoInv
  BY ReleaseAssumption DEF Init, UndoInv
<1>2. TypeOK /\ ReceiptInv /\ DecisionInv /\ UndoInv /\ [Next]_vars => UndoInv'
  <2> SUFFICES ASSUME TypeOK, ReceiptInv, DecisionInv, UndoInv, [Next]_vars PROVE UndoInv'
    OBVIOUS
  <2> USE DEF TypeOK, UndoInv, ReceiptUndoesPromotion, Ended, cloud, history, Proceed
  <2>1. ASSUME NEW j \in Jobs, StartPromote(j) \/ StartRollback(j) \/ StartEvaluate(j)
        PROVE  UndoInv'
    <3>1. PICK p : Start(j, p)
      BY <2>1 DEF StartPromote, StartRollback, StartEvaluate
    <3> QED
      BY <3>1 DEF Start, ReceiptInv, Installer
  <2>2. ASSUME NEW j \in Jobs, ReadEndpoint(j) PROVE UndoInv'
    BY <2>2 DEF ReadEndpoint
  <2>3. ASSUME NEW j \in Jobs, ReadBundles(j) PROVE UndoInv'
    BY <2>3 DEF ReadBundles
  <2>4. ASSUME NEW j \in Jobs, WriteReceipt(j) PROVE UndoInv'
    BY <2>4 DEF WriteReceipt
  <2>5. ASSUME NEW j \in Jobs,
               EvaluateGolden(j) \/ Govern(j) \/ Recheck(j) \/ UpdateRefused(j)
        PROVE  UndoInv'
    BY <2>5 DEF EvaluateGolden, Govern, Recheck, UpdateRefused
  <2>6. ASSUME NEW j \in Jobs, Update(j) \/ UpdateReplyLost(j) PROVE UndoInv'
    <3>1. endpoint = before[j] /\ Patch(j) /\ stage[j] = "checked"
      BY <2>6 DEF Update, UpdateReplyLost, DecisionInv, NoDecisionOverwritten
    <3>2. plan[j].kind = "promote" => /\ receipts[j] = Receipt(j)
                                      /\ endpoint.route = plan[j].expected
      BY <3>1 DEF ReceiptInv, DecisionInv, IsRelease, Viewing
    <3>3. stage'[j] \in {"pinned", "verified"} \cup Ended
      BY <2>6 DEF Update, UpdateReplyLost
    <3>4. /\ installed' = [by |-> j, from |-> endpoint]
          /\ endpoint' = [endpoint EXCEPT !.route = plan[j].target]
          /\ receipts' = receipts /\ plan' = plan
      BY <3>1 DEF Patch
    <3>5. plan[j].kind = "promote" => /\ receipts[j].target = plan[j].target
                                      /\ receipts[j].previous = endpoint.route
      BY <3>2 DEF Receipt
    <3> QED
      BY <3>3, <3>4, <3>5
  <2>7. ASSUME NEW j \in Jobs, ReadBack(j) \/ NamedResponse(j) PROVE UndoInv'
    BY <2>7 DEF ReadBack, NamedResponse
  <2>8. ASSUME NEW j \in Jobs, Crash(j) PROVE UndoInv'
    BY <2>8 DEF Crash
  <2>9. CASE PortalChangesEndpoint
    BY <2>9, ReleaseAssumption DEF PortalChangesEndpoint, Intervene, memory
  <2>10. CASE PortalChangesBackend \/ ControlsDrift \/ UNCHANGED vars
    BY <2>10 DEF PortalChangesBackend, ControlsDrift, Intervene, memory, vars
  <2> QED
    BY <2>1, <2>2, <2>3, <2>4, <2>5, <2>6, <2>7, <2>8, <2>9, <2>10 DEF Next, JobStep
<1>3. TypeOK /\ UndoInv => ReceiptUndoesPromotion
  BY DEF UndoInv, ReceiptUndoesPromotion
<1> QED
  BY <1>1, <1>2, <1>3, TypeCorrect, ReceiptsHold, DecisionsHold, PTL DEF Spec

-----------------------------------------------------------------------------
(***************************************************************************)
(* Release implements RouteRegister under either discipline.               *)
(***************************************************************************)
View == [j \in Jobs |-> IF stage[j] \in Viewing THEN before[j] ELSE Split]

\* Read, slow preflight, second read and unconditional patch behave as one
\* compare-and-set on the whole endpoint configuration.
THEOREM ReleaseImplementsRegister ==
    ASSUME Discipline # "none"
    PROVE  Spec => ImplementsRegister
<1>1. Init => Register!Init
  BY ReleaseAssumption
     DEF Init, Register!Init, Register!Endpoints, Routes, Viewing
<1>2. TypeOK /\ DecisionInv /\ [Next]_vars => [Register!Next]_<<endpoint, View>>
  <2> SUFFICES ASSUME TypeOK, DecisionInv, [Next]_vars
               PROVE  Register!Next \/ UNCHANGED <<endpoint, View>>
    BY DEF View
  <2> USE DEF TypeOK, Viewing, Ended, cloud, history, Proceed
  \* Steps of a job that leave the endpoint alone keep or drop its view.
  <2>1. ASSUME NEW j \in Jobs, endpoint' = endpoint,
               View' = View \/ View' = [View EXCEPT ![j] = Split]
        PROVE  Register!Next \/ UNCHANGED <<endpoint, View>>
    BY <2>1 DEF Register!Next, Register!Drop, View
  <2>2. ASSUME NEW j \in Jobs, StartPromote(j) \/ StartRollback(j) \/ StartEvaluate(j)
        PROVE  UNCHANGED <<endpoint, View>>
    <3>1. PICK p : Start(j, p)
      BY <2>2 DEF StartPromote, StartRollback, StartEvaluate
    <3> QED
      BY <3>1 DEF Start, View
  <2>3. ASSUME NEW j \in Jobs, ReadEndpoint(j)
        PROVE  Register!Next \/ UNCHANGED <<endpoint, View>>
    <3>1. CASE stage'[j] = "read"
      <4>1. View[j] = Split /\ View' = [View EXCEPT ![j] = endpoint]
        BY <2>3, <3>1 DEF ReadEndpoint, View
      <4> QED
        BY <2>3, <4>1 DEF Register!Next, Register!Look, View, ReadEndpoint
    <3>2. CASE stage'[j] # "read"
      <4>1. View' = View
        BY <2>3, <3>2 DEF ReadEndpoint, View
      <4> QED
        BY <2>3, <4>1 DEF ReadEndpoint
    <3> QED
      BY <3>1, <3>2
  <2>4. ASSUME NEW j \in Jobs,
               \/ ReadBundles(j) \/ WriteReceipt(j) \/ EvaluateGolden(j) \/ Govern(j)
               \/ Recheck(j) \/ UpdateRefused(j) \/ ReadBack(j) \/ NamedResponse(j) \/ Crash(j)
        PROVE  Register!Next \/ UNCHANGED <<endpoint, View>>
    <3>1. endpoint' = endpoint /\ before' = before
      BY <2>4 DEF ReadBundles, WriteReceipt, EvaluateGolden, Govern, Recheck, UpdateRefused,
         ReadBack, NamedResponse, Crash
    <3>2. \/ stage'[j] \in Viewing /\ stage[j] \in Viewing
          \/ stage'[j] \notin Viewing
      BY <2>4 DEF ReadBundles, WriteReceipt, EvaluateGolden, Govern, Recheck, UpdateRefused,
         ReadBack, NamedResponse, Crash
    <3>3. \A k \in Jobs \ {j} : stage'[k] = stage[k]
      BY <2>4 DEF ReadBundles, WriteReceipt, EvaluateGolden, Govern, Recheck, UpdateRefused,
         ReadBack, NamedResponse, Crash
    <3>4. View' = View \/ View' = [View EXCEPT ![j] = Split]
      BY <3>1, <3>2, <3>3 DEF View
    <3> QED
      BY <2>1, <3>1, <3>4
  <2>5. ASSUME NEW j \in Jobs, Update(j) \/ UpdateReplyLost(j)
        PROVE  Register!Next \/ UNCHANGED <<endpoint, View>>
    <3>1. /\ View[j] = endpoint
          /\ View' = [View EXCEPT ![j] = Split]
      BY <2>5, ReleaseAssumption
         DEF Update, UpdateReplyLost, Patch, View, DecisionInv, NoDecisionOverwritten
    <3>2. endpoint' = [endpoint EXCEPT !.route = plan[j].target] /\ plan[j].target \in Routes
      BY <2>5 DEF Update, UpdateReplyLost, Patch, Plans, Routes
    <3>3. Register!Decide(j)
      BY <3>1, <3>2 DEF Register!Decide, View
    <3> QED
      BY <3>3 DEF Register!Next
  <2>6. CASE PortalChangesEndpoint
    BY <2>6 DEF PortalChangesEndpoint, Intervene, memory, Register!Next, Register!Outside,
       Register!Endpoints, Endpoints, View
  <2>7. CASE PortalChangesBackend \/ ControlsDrift \/ UNCHANGED vars
    BY <2>7 DEF PortalChangesBackend, ControlsDrift, Intervene, memory, vars, View
  <2> QED
    BY <2>2, <2>3, <2>4, <2>5, <2>6, <2>7 DEF Next, JobStep
<1> QED
  BY <1>1, <1>2, TypeCorrect, DecisionsHold, PTL DEF Spec, ImplementsRegister, Register!Spec, View

\* Whichever jobs release in between, a promotion's receipt takes the route back
\* exactly, and a rollback's inverts its promotion's (release.py:186-203).
THEOREM ReceiptsAreInverse ==
    ASSUME Discipline # "none"
    PROVE  Spec => []ReceiptsInvert
<1>1. ReceiptUndoesPromotion /\ RollbackInvertsPromotion => ReceiptsInvert
  BY DEF ReceiptsInvert
<1> QED
  BY <1>1, ReceiptUndoes, RollbackInverts, PTL
=============================================================================
