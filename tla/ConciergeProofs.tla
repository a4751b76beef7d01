-------------------------- MODULE ConciergeProofs --------------------------
(***************************************************************************)
(* Proofs about Concierge, for every number of runs, commits and cases.    *)
(* The invariant follows a package from the run that exported it: what a   *)
(* run holds is tied to its step, and what a successful run retained never *)
(* changes, so the evidence for a package can only grow.                   *)
(***************************************************************************)
EXTENDS Concierge, FiniteSetTheorems, TLAPS

\* A successful package run exported p, and one retains it.
Traced(p) == p \in Retained("package") /\ p.exporter \in Successful("package")

Accepted(p) ==
    /\ Traced(p)
    /\ \E a \in Successful("accept-test") : artifact[a].package = p /\ Len(seen[a]) = Cases

NameOf(k) == IF k = "package" THEN "managed" ELSE "accepted"

\* What run n has at its step.
Stage(n) ==
    /\ step[n] \in {"idle", "queued"} => held[n] = None
    /\ step[n] = "idle" => seen[n] = <<>>
    /\ step[n] # "idle" => /\ kind[n] \in Kinds /\ sha[n] \in Commits
                           /\ kind[n] # "package" => input[n] \in Inputs
    /\ step[n] = "imported" => \/ kind[n] = "package" /\ held[n] = None /\ dev # None
                               \/ kind[n] \in {"import-test", "import-prod"}
    /\ step[n] = "exported" => kind[n] = "package" /\ held[n] # None
    /\ step[n] = "verified" => kind[n] # "package" /\ held[n] # None
    /\ step[n] \in {"attested", "uploaded"} =>
           /\ held[n] # None
           /\ kind[n] = "package" \/ (kind[n] = "accept-test" /\ Len(seen[n]) = Cases)

\* What run n retains.
Store(n) ==
    artifact[n] # None =>
        /\ step[n] \in {"uploaded", "success", "failed"}
        /\ held[n] # None /\ artifact[n].package = held[n]
        /\ artifact[n].name = NameOf(kind[n])
        /\ kind[n] = "package" \/ (kind[n] = "accept-test" /\ Len(seen[n]) = Cases)

\* Where the package run n holds comes from.
Source(n) ==
    held[n] # None =>
        /\ kind[n] = "package" => held[n].exporter = n
        /\ kind[n] # "package" => Traced(held[n])
        /\ kind[n] = "import-prod" => Accepted(held[n])

Deployed ==
    /\ \A p \in {test, published} \ {None} : Traced(p)
    /\ prod # None => Accepted(prod)

IInv ==
    /\ TypeOK
    /\ \A n \in Runs : Stage(n)
    /\ \A n \in Runs : Store(n)
    /\ \A n \in Runs : Source(n)
    /\ Deployed

Artifacts == [name : Names, package : Packages]

(* It holds when nothing has run. *)
LEMMA InitInvariant == Init => IInv
<1> SUFFICES ASSUME Init PROVE IInv
  OBVIOUS
<1>1. TypeOK
  BY ConciergeAssumption DEF Init, TypeOK, Commits, Steps
<1>2. \A n \in Runs : Stage(n) /\ Store(n) /\ Source(n)
  BY DEF Init, Stage, Store, Source
<1>3. Deployed
  BY DEF Init, Deployed
<1> QED
  BY <1>1, <1>2, <1>3 DEF IInv

-----------------------------------------------------------------------------
(* One run at a time *)

\* What an action of run n leaves alone.
Others(n) == \A m \in Runs \ {n} : /\ kind'[m] = kind[m] /\ sha'[m] = sha[m]
                                  /\ input'[m] = input[m] /\ step'[m] = step[m]
                                  /\ held'[m] = held[m] /\ seen'[m] = seen[m]
                                  /\ artifact'[m] = artifact[m]

(* An action of a run is about that run. *)
LEMMA OthersUntouched ==
    ASSUME TypeOK, NEW n \in Runs, Workflow(n)
    PROVE  Others(n)
<1> USE DEF TypeOK, Others, store, cloud, Go
<1>1. ASSUME NEW k \in Kinds, NEW i \in Inputs \cup {None}, Dispatch(n, k, i) PROVE Others(n)
  BY <1>1 DEF Dispatch
<1>2. CASE Skip(n)
  BY <1>2 DEF Skip
<1>3. CASE Finish(n)
  BY <1>3 DEF Finish
<1>4. CASE Fail(n)
  BY <1>4 DEF Fail
<1>5. CASE ImportDev(n)
  BY <1>5 DEF ImportDev
<1>6. CASE Export(n)
  BY <1>6 DEF Export
<1>7. CASE Attest(n)
  BY <1>7 DEF Attest
<1>8. CASE Upload(n)
  BY <1>8 DEF Upload
<1>9. CASE Verify(n)
  BY <1>9 DEF Verify
<1>10. CASE ImportTest(n)
  BY <1>10 DEF ImportTest
<1>11. CASE PassCase(n)
  BY <1>11 DEF PassCase
<1>12. CASE ImportProd(n)
  BY <1>12 DEF ImportProd
<1> QED
  BY <1>1, <1>2, <1>3, <1>4, <1>5, <1>6, <1>7, <1>8, <1>9, <1>10, <1>11, <1>12 DEF Workflow

(* A run that ended does nothing more. *)
LEMMA EndedRunsRest ==
    ASSUME TypeOK, NEW n \in Runs, Workflow(n)
    PROVE  step[n] \notin {"success", "failed"}
BY DEF Workflow, Dispatch, Skip, Finish, Fail, ImportDev, Export, Attest, Upload, Verify,
   ImportTest, PassCase, ImportProd, Go, Active

(* A step leaves what a successful run did alone. *)
LEMMA SuccessRests ==
    ASSUME IInv, [Next]_vars, NEW m \in Runs, step[m] = "success"
    PROVE  /\ step'[m] = "success" /\ kind'[m] = kind[m]
           /\ artifact'[m] = artifact[m] /\ seen'[m] = seen[m]
<1>1. CASE UNCHANGED vars
  BY <1>1 DEF vars, run, store
<1>2. CASE Outside
  BY <1>2 DEF Outside, Commit, EditDev, Publish, Expire, run, store
<1>3. ASSUME NEW n \in Runs, Workflow(n)
      PROVE  /\ step'[m] = "success" /\ kind'[m] = kind[m]
             /\ artifact'[m] = artifact[m] /\ seen'[m] = seen[m]
  <2>1. n # m
    BY <1>3, EndedRunsRest DEF IInv
  <2> QED
    BY <1>3, <2>1, OthersUntouched DEF IInv, Others
<1> QED
  BY <1>1, <1>2, <1>3 DEF Next

(* The evidence for a package stays. *)
LEMMA EvidenceStays ==
    ASSUME IInv, [Next]_vars, NEW p
    PROVE  /\ Traced(p) => Traced(p)'
           /\ Accepted(p) => Accepted(p)'
<1>1. \A k \in Kinds : \A m \in Successful(k) :
          /\ m \in Successful(k)'
          /\ artifact'[m] = artifact[m] /\ seen'[m] = seen[m]
  BY SuccessRests DEF Successful
<1>2. ASSUME Traced(p) PROVE Traced(p)'
  BY <1>1, <1>2 DEF Traced, Retained, Kinds
<1>3. ASSUME Accepted(p) PROVE Accepted(p)'
  BY <1>1, <1>2, <1>3 DEF Accepted, Kinds
<1> QED
  BY <1>2, <1>3

(* What verify-concierge-artifact lets through. *)
LEMMA VerifiedPackages ==
    ASSUME IInv, NEW n \in Runs, Verify(n)
    PROVE  LET p == artifact[input[n].run].package IN
           /\ p \in Packages
           /\ Traced(p)
           /\ kind[n] = "import-prod" => Accepted(p)
<1> DEFINE s == input[n].run
           p == artifact[s].package
<1>1. /\ kind[n] # "package" /\ step[n] = "queued" /\ step[s] = "success"
      /\ artifact[s] # None /\ artifact[s].name = Wanted(kind[n])
  BY DEF Verify, Trusted
<1>2. input[n] \in Inputs /\ s \in Runs
  BY <1>1 DEF IInv, Stage, Inputs
<1>3. artifact[s] \in Artifacts /\ p \in Packages
  BY <1>1, <1>2 DEF IInv, TypeOK, Artifacts
<1>4. /\ held[s] # None /\ p = held[s] /\ artifact[s].name = NameOf(kind[s])
      /\ kind[s] = "package" \/ (kind[s] = "accept-test" /\ Len(seen[s]) = Cases)
  BY <1>1, <1>2 DEF IInv, Store
<1>5. CASE kind[s] = "package"
  <2>1. s \in Successful("package")
    BY <1>1, <1>2, <1>5 DEF Successful
  <2>2. p.exporter = s
    BY <1>2, <1>4, <1>5 DEF IInv, Source
  <2>3. Traced(p)
    BY <2>1, <2>2 DEF Traced, Retained
  <2>4. kind[n] # "import-prod"
    BY <1>1, <1>4, <1>5 DEF Wanted, NameOf
  <2> QED
    BY <1>3, <2>3, <2>4
<1>6. CASE kind[s] = "accept-test" /\ Len(seen[s]) = Cases
  <2>1. s \in Successful("accept-test")
    BY <1>1, <1>2, <1>6 DEF Successful
  <2>2. Traced(p)
    BY <1>2, <1>4, <1>6 DEF IInv, Source
  <2> QED
    BY <1>3, <1>6, <2>1, <2>2 DEF Accepted
<1> QED
  BY <1>4, <1>5, <1>6

-----------------------------------------------------------------------------
(* Each part of the invariant *)

(* Every variable stays in its set. *)
LEMMA TypesKept ==
    ASSUME IInv, [Next]_vars
    PROVE  TypeOK'
<1> USE DEF TypeOK, run, store, cloud, Go, Commits
<1>0. TypeOK
  BY DEF IInv
<1>1. CASE UNCHANGED vars
  BY <1>0, <1>1 DEF vars
<1>2. CASE Outside
  <2>1. CASE Commit
    BY <1>0, <2>1, ConciergeAssumption DEF Commit
  <2>2. CASE EditDev
    BY <1>0, <2>2 DEF EditDev, Contents
  <2>3. CASE Publish
    BY <1>0, <2>3 DEF Publish
  <2>4. ASSUME NEW n \in Runs, Expire(n) PROVE TypeOK'
    BY <1>0, <2>4 DEF Expire
  <2> QED
    BY <1>2, <2>1, <2>2, <2>3, <2>4 DEF Outside
<1>3. ASSUME NEW n \in Runs, Workflow(n) PROVE TypeOK'
  <2>1. Stage(n) /\ Store(n)
    BY DEF IInv
  <2>2. ASSUME NEW k \in Kinds, NEW i \in Inputs \cup {None}, Dispatch(n, k, i) PROVE TypeOK'
    BY <1>0, <2>2 DEF Dispatch, Steps
  <2>3. CASE Skip(n)
    BY <1>0, <2>3 DEF Skip, Steps
  <2>4. CASE Finish(n)
    BY <1>0, <2>4 DEF Finish, Steps
  <2>5. CASE Fail(n)
    BY <1>0, <2>5 DEF Fail, Steps
  <2>6. CASE ImportDev(n)
    <3>1. sha[n] \in Commits
      BY <2>1, <2>6 DEF ImportDev, Stage
    <3> QED
      BY <1>0, <2>6, <3>1 DEF ImportDev, Steps, Contents
  <2>7. CASE Export(n)
    <3>1. dev \in Contents
      BY <1>0, <2>1, <2>7 DEF Export, Stage
    <3>2. [exporter |-> n, source |-> dev] \in Packages
      BY <3>1 DEF Packages
    <3> QED
      BY <1>0, <2>7, <3>2 DEF Export, Steps
  <2>8. CASE Attest(n)
    <3>1. held[n] \in Packages
      BY <1>0, <2>1, <2>8 DEF Attest, Stage
    <3> QED
      BY <1>0, <2>8, <3>1 DEF Attest, Steps
  <2>9. CASE Upload(n)
    <3>1. held[n] \in Packages
      BY <1>0, <2>1, <2>9 DEF Upload, Stage
    <3>2. [name |-> IF kind[n] = "package" THEN "managed" ELSE "accepted",
           package |-> held[n]] \in Artifacts
      BY <3>1 DEF Artifacts, Names
    <3> QED
      BY <1>0, <2>9, <3>2 DEF Upload, Steps, Artifacts
  <2>10. CASE Verify(n)
    <3>1. artifact[input[n].run].package \in Packages
      BY <2>10, VerifiedPackages
    <3> QED
      BY <1>0, <2>10, <3>1 DEF Verify, Steps
  <2>11. CASE ImportTest(n)
    BY <1>0, <2>1, <2>11 DEF ImportTest, Steps, Stage
  <2>12. CASE PassCase(n)
    <3>1. published \in Packages /\ seen[n] \in Seq(Packages)
      BY <1>0, <2>12 DEF PassCase
    <3>2. Append(seen[n], published) \in Seq(Packages)
      BY <3>1
    <3> QED
      BY <1>0, <2>12, <3>2 DEF PassCase
  <2>13. CASE ImportProd(n)
    BY <1>0, <2>1, <2>13 DEF ImportProd, Steps, Stage
  <2> QED
    BY <1>3, <2>2, <2>3, <2>4, <2>5, <2>6, <2>7, <2>8, <2>9, <2>10, <2>11, <2>12, <2>13
       DEF Workflow
<1> QED
  BY <1>1, <1>2, <1>3 DEF Next

(* DEV is never emptied. *)
LEMMA DevStays ==
    ASSUME IInv, [Next]_vars, dev # None
    PROVE  dev' # None
<1> USE DEF run, store, cloud, Go
<1>1. CASE UNCHANGED vars
  BY <1>1 DEF vars
<1>2. CASE Outside
  BY <1>2, ConciergeAssumption DEF Outside, Commit, EditDev, Publish, Expire, Contents
<1>3. ASSUME NEW n \in Runs, ImportDev(n) PROVE dev' # None
  <2>1. sha[n] \in Contents
    BY <1>3 DEF ImportDev, IInv, Stage, Contents
  <2> QED
    BY <1>3, <2>1, ConciergeAssumption DEF ImportDev
<1>4. ASSUME NEW n \in Runs, Workflow(n), ~ ImportDev(n) PROVE dev' = dev
  BY <1>4 DEF Workflow, Dispatch, Skip, Finish, Fail, Export, Attest, Upload, Verify,
     ImportTest, PassCase, ImportProd
<1> QED
  BY <1>1, <1>2, <1>3, <1>4 DEF Next

(* What a run has stays tied to its step, and what it retains to both. *)
LEMMA StagesKept ==
    ASSUME IInv, [Next]_vars, NEW m \in Runs
    PROVE  Stage(m)' /\ Store(m)'
<1>0. TypeOK /\ Stage(m) /\ Store(m)
  BY DEF IInv
<1> USE DEF Stage, Store, run, store, cloud, Go
<1>1. CASE UNCHANGED vars
  BY <1>0, <1>1 DEF vars
<1>2. CASE Outside
  <2>1. UNCHANGED <<run, artifact>>
    BY <1>2 DEF Outside, Commit, EditDev, Publish, Expire
  <2> QED
    BY <1>0, <2>1, DevStays
<1>3. ASSUME NEW n \in Runs, Workflow(n), n # m PROVE Stage(m)' /\ Store(m)'
  <2>1. Others(n)
    BY <1>0, <1>3, OthersUntouched
  <2> QED
    BY <1>0, <1>3, <2>1, DevStays DEF Others
<1>4. ASSUME Workflow(m) PROVE Stage(m)' /\ Store(m)'
  <2> USE <1>0 DEF TypeOK
  <2>1. ASSUME NEW k \in Kinds, NEW i \in Inputs \cup {None}, Dispatch(m, k, i)
        PROVE  Stage(m)' /\ Store(m)'
    BY <2>1 DEF Dispatch, Commits
  <2>2. CASE Skip(m)
    BY <2>2 DEF Skip
  <2>3. CASE Finish(m)
    BY <2>3 DEF Finish
  <2>4. CASE Fail(m)
    BY <2>4 DEF Fail, Active, Dispatched
  <2>5. CASE ImportDev(m)
    <3>1. sha[m] \in Contents
      BY <2>5 DEF ImportDev, Contents
    <3> QED
      BY <2>5, <3>1, ConciergeAssumption DEF ImportDev
  <2>6. CASE Export(m)
    <3>1. dev \in Contents
      BY <2>6 DEF Export
    <3>2. [exporter |-> m, source |-> dev] \in Packages
      BY <3>1 DEF Packages
    <3> QED
      BY <2>6, <3>2, ConciergeAssumption DEF Export
  <2>7. CASE Attest(m)
    BY <2>7 DEF Attest
  <2>8. CASE Upload(m)
    BY <2>8 DEF Upload, NameOf
  <2>9. CASE Verify(m)
    <3>1. artifact[input[m].run].package # None
      BY <2>9, VerifiedPackages, ConciergeAssumption
    <3> QED
      BY <2>9, <3>1 DEF Verify
  <2>10. CASE ImportTest(m)
    BY <2>10 DEF ImportTest
  <2>11. CASE PassCase(m)
    BY <2>11 DEF PassCase
  <2>12. CASE ImportProd(m)
    BY <2>12 DEF ImportProd
  <2> QED
    BY <1>4, <2>1, <2>2, <2>3, <2>4, <2>5, <2>6, <2>7, <2>8, <2>9, <2>10, <2>11, <2>12
       DEF Workflow
<1> QED
  BY <1>1, <1>2, <1>3, <1>4 DEF Next

(* What a run holds comes from where it should. *)
LEMMA SourcesKept ==
    ASSUME IInv, [Next]_vars, NEW m \in Runs
    PROVE  Source(m)'
<1>0. TypeOK /\ Source(m) /\ Stage(m)
  BY DEF IInv
<1> USE DEF Source
<1>1. ASSUME held'[m] = held[m], kind'[m] = kind[m] PROVE Source(m)'
  BY <1>0, <1>1, EvidenceStays
<1>2. CASE UNCHANGED vars \/ Outside
  <2>1. UNCHANGED <<held, kind>>
    BY <1>2 DEF vars, run, Outside, Commit, EditDev, Publish, Expire
  <2> QED
    BY <1>1, <2>1
<1>3. ASSUME NEW n \in Runs, Workflow(n), n # m PROVE Source(m)'
  BY <1>0, <1>1, <1>3, OthersUntouched DEF Others
<1>4. ASSUME NEW k \in Kinds, NEW i \in Inputs \cup {None}, Dispatch(m, k, i) PROVE Source(m)'
  BY <1>0, <1>4 DEF Dispatch, Stage
<1>5. CASE Export(m)
  <2>1. kind'[m] = "package" /\ held'[m].exporter = m
    BY <1>0, <1>5 DEF Export, TypeOK
  <2> QED
    BY <2>1
<1>6. CASE Verify(m)
  <2>0. PICK p : p = artifact[input[m].run].package
    OBVIOUS
  <2>1. kind'[m] = kind[m] /\ kind[m] # "package" /\ held'[m] = p
    BY <1>0, <1>6, <2>0 DEF Verify, TypeOK
  <2>2. Traced(p)' /\ (kind[m] = "import-prod" => Accepted(p)')
    BY <1>6, <2>0, VerifiedPackages, EvidenceStays
  <2> QED
    BY <2>1, <2>2
<1>7. ASSUME Workflow(m), ~ Export(m), ~ Verify(m),
             ~ (\E k \in Kinds, i \in Inputs \cup {None} : Dispatch(m, k, i))
      PROVE  Source(m)'
  <2>1. UNCHANGED <<held, kind>>
    BY <1>7 DEF Workflow, Skip, Finish, Fail, ImportDev, Attest, Upload, ImportTest, PassCase,
       ImportProd
  <2> QED
    BY <1>1, <2>1
<1> QED
  BY <1>2, <1>3, <1>4, <1>5, <1>6, <1>7 DEF Next

(* So does what the environments hold. *)
LEMMA DeployedKept ==
    ASSUME IInv, [Next]_vars
    PROVE  Deployed'
<1>0. Deployed /\ TypeOK
  BY DEF IInv
<1>1. ASSUME NEW p PROVE /\ Traced(p) => Traced(p)'
                         /\ Accepted(p) => Accepted(p)'
  BY EvidenceStays
<1>2. \A p \in {test, published} \ {None} : Traced(p)'
  BY <1>0, <1>1 DEF Deployed
<1>3. \A p : p = prod /\ p # None => Accepted(p)'
  BY <1>0, <1>1 DEF Deployed
<1>4. ASSUME NEW n \in Runs, ImportTest(n) PROVE Deployed'
  <2>1. Traced(held[n])
    BY <1>4 DEF ImportTest, Go, IInv, Stage, Source
  <2>2. test' = held[n] /\ UNCHANGED <<published, prod>>
    BY <1>4 DEF ImportTest
  <2> QED
    BY <1>1, <1>2, <1>3, <2>1, <2>2 DEF Deployed
<1>5. ASSUME NEW n \in Runs, ImportProd(n) PROVE Deployed'
  <2>1. Accepted(held[n])
    BY <1>5 DEF ImportProd, Go, IInv, Stage, Source
  <2>2. prod' = held[n] /\ UNCHANGED <<published, test>>
    BY <1>5 DEF ImportProd
  <2> QED
    BY <1>1, <1>2, <2>1, <2>2 DEF Deployed
<1>6. CASE Publish
  BY <1>2, <1>3, <1>6 DEF Publish, Deployed
<1>7. CASE UNCHANGED <<test, published, prod>>
  BY <1>2, <1>3, <1>7 DEF Deployed
<1>8. ASSUME NEW n \in Runs, Workflow(n), ~ ImportTest(n), ~ ImportProd(n)
      PROVE  UNCHANGED <<test, published, prod>>
  BY <1>8 DEF Workflow, Dispatch, Skip, Finish, Fail, ImportDev, Export, Attest, Upload, Verify,
     PassCase, cloud
<1>9. CASE Outside
  BY <1>6, <1>7, <1>9 DEF Outside, Commit, EditDev, Expire, cloud
<1>10. CASE UNCHANGED vars
  BY <1>7, <1>10 DEF vars, cloud
<1> QED
  BY <1>4, <1>5, <1>7, <1>8, <1>9, <1>10 DEF Next

-----------------------------------------------------------------------------
(* The invariant holds along every behaviour. *)
LEMMA ConciergeInvariant == Spec => []IInv
<1>1. IInv /\ [Next]_vars => IInv'
  <2> SUFFICES ASSUME IInv, [Next]_vars PROVE IInv'
    OBVIOUS
  <2>1. \A n \in Runs : Stage(n)' /\ Store(n)' /\ Source(n)'
    BY StagesKept, SourcesKept
  <2> QED
    BY <2>1, TypesKept, DeployedKept DEF IInv, Runs
<1> QED
  BY InitInvariant, <1>1, PTL DEF Spec

(* Every variable of the release path stays in its set. *)
THEOREM TypeCorrect == Spec => []TypeOK
<1>1. IInv => TypeOK
  BY DEF IInv
<1> QED
  BY <1>1, ConciergeInvariant, PTL

(* TEST holds and serves only what successful package runs exported and    *)
(* retained (concierge_alm.py:90-103).                                     *)
THEOREM TestReleased == Spec => []TestIsReleased
<1>1. IInv => TestIsReleased
  BY DEF IInv, Deployed, Traced, TestIsReleased
<1> QED
  BY <1>1, ConciergeInvariant, PTL

(* Production holds only what an acceptance run re-issued after every case *)
(* passed (concierge-alm.yml:263-274).                                     *)
THEOREM ProdAccepted == Spec => []ProdIsAccepted
<1>1. IInv => ProdIsAccepted
  BY DEF IInv, Deployed, Accepted, Traced, ProdIsAccepted
<1> QED
  BY <1>1, ConciergeInvariant, PTL

-----------------------------------------------------------------------------
(* The release path implements Promotion. *)

(* A step in which no run of kind k succeeds leaves what they retained.    *)
LEMMA RetainedStays ==
    ASSUME IInv, [Next]_vars, NEW k, \A m \in Successful(k)' : m \in Successful(k)
    PROVE  Retained(k)' = Retained(k)
<1>1. \A m \in Successful(k) : m \in Successful(k)' /\ artifact'[m] = artifact[m]
  BY SuccessRests DEF Successful
<1>2. Successful(k)' = Successful(k)
  BY <1>1
<1> QED
  BY <1>1, <1>2 DEF Retained

(* A run that succeeds adds what it retains. *)
LEMMA RetainedGrows ==
    ASSUME IInv, [Next]_vars, NEW n \in Runs, NEW k,
           Successful(k)' = Successful(k) \cup {n}, artifact'[n] = artifact[n]
    PROVE  Retained(k)' = Retained(k) \cup {artifact[n].package}
<1>1. \A m \in Successful(k) : artifact'[m] = artifact[m]
  BY SuccessRests DEF Successful
<1> QED
  BY <1>1 DEF Retained

(* Only the end of a run makes it successful. *)
LEMMA OnlyFinishing ==
    ASSUME IInv, [Next]_vars, NEW k \in Kinds, NEW m \in Runs,
           m \in Successful(k)', m \notin Successful(k)
    PROVE  Finish(m) /\ kind[m] = k /\ artifact[m] # None /\ artifact'[m] = artifact[m]
<1>0. TypeOK /\ Store(m)
  BY DEF IInv
<1>1. Workflow(m)
  <2>1. ~ (UNCHANGED vars \/ Outside)
    BY DEF vars, run, store, Outside, Commit, EditDev, Publish, Expire, Successful
  <2>2. ASSUME NEW n \in Runs, Workflow(n), n # m PROVE FALSE
    BY <1>0, <2>2, OthersUntouched DEF Others, Successful
  <2> QED
    BY <2>1, <2>2 DEF Next
<1>2. step'[m] = "success" /\ kind'[m] = k /\ artifact'[m] # None
  BY DEF Successful
<1>3. ~ Skip(m)
  BY <1>0, <1>2 DEF Skip, Go, Store, store
<1>4. Finish(m)
  BY <1>0, <1>1, <1>2, <1>3 DEF TypeOK, Workflow, Dispatch, Fail, ImportDev, Export, Attest, Upload,
     Verify, ImportTest, PassCase, ImportProd, Go, Successful
<1> QED
  BY <1>2, <1>4 DEF Finish, store

(* The workflow builds, accepts and promotes packages in that order        *)
(* (concierge-alm.yml:83-302).                                             *)
THEOREM ConciergePromotes == Spec => ImplementsPromotion
<1> DEFINE pvars == <<Retained("package"), Retained("accept-test"), prod>>
<1>1. Init => Path!Init
  BY DEF Init, Path!Init, Retained, Successful
<1>2. IInv /\ IInv' /\ [Next]_vars => [Path!Next]_pvars
  <2> SUFFICES ASSUME IInv, IInv', [Next]_vars PROVE [Path!Next]_pvars
    OBVIOUS
  <2>0. "package" \in Kinds /\ "accept-test" \in Kinds /\ TypeOK
    BY DEF Kinds, IInv
  <2>1. ASSUME NEW n \in Runs, n \in Successful("package")', n \notin Successful("package")
        PROVE  Path!Next
    <3> DEFINE p == artifact[n].package
    <3>1. Finish(n) /\ kind[n] = "package" /\ artifact[n] # None /\ artifact'[n] = artifact[n]
      BY <2>0, <2>1, OnlyFinishing
    <3>2. p \in Packages /\ p.exporter = n
      BY <2>0, <3>1 DEF TypeOK, IInv, Store, Source
    <3>3. p \notin Retained("package")
      <4>1. \A m \in Successful("package") : artifact[m].package.exporter = m
        BY DEF Successful, IInv, Store, Source
      <4> QED
        BY <2>1, <3>2, <4>1 DEF Retained
    <3>4. \A k \in Kinds : \A m \in Successful(k)' : m \in Successful(k) \/ m = n
      BY <2>0, <3>1 DEF Finish, Successful, store, TypeOK
    <3>5. Successful("package")' = Successful("package") \cup {n}
      BY <2>0, <2>1, <3>4, SuccessRests DEF Successful
    <3>6. Retained("package")' = Retained("package") \cup {p}
      BY <3>1, <3>5, RetainedGrows
    <3>7. n \notin Successful("accept-test")'
      BY <3>1, <2>1 DEF Successful
    <3>8. Retained("accept-test")' = Retained("accept-test")
      BY <2>0, <3>4, <3>7, RetainedStays
    <3>9. prod' = prod
      BY <3>1 DEF Finish, cloud
    <3> QED
      BY <3>2, <3>3, <3>6, <3>8, <3>9 DEF Path!Next, Path!Build
  <2>2. ASSUME NEW n \in Runs, n \in Successful("accept-test")', n \notin Successful("accept-test")
        PROVE  Path!Next
    <3> DEFINE p == artifact[n].package
    <3>1. /\ Finish(n) /\ kind[n] = "accept-test" /\ artifact[n] # None
          /\ artifact'[n] = artifact[n]
      BY <2>0, <2>2, OnlyFinishing
    <3>2. p \in Packages /\ Traced(p)
      BY <2>0, <3>1 DEF TypeOK, IInv, Store, Source
    <3>4. \A k \in Kinds : \A m \in Successful(k)' : m \in Successful(k) \/ m = n
      BY <2>0, <3>1 DEF Finish, Successful, store, TypeOK
    <3>5. Successful("accept-test")' = Successful("accept-test") \cup {n}
      BY <2>0, <2>2, <3>4, SuccessRests DEF Successful
    <3>6. Retained("accept-test")' = Retained("accept-test") \cup {p}
      BY <3>1, <3>5, RetainedGrows
    <3>7. n \notin Successful("package")'
      BY <3>1, <2>2 DEF Successful
    <3>8. Retained("package")' = Retained("package")
      BY <2>0, <3>4, <3>7, RetainedStays
    <3>9. prod' = prod
      BY <3>1 DEF Finish, cloud
    <3> QED
      BY <3>2, <3>6, <3>8, <3>9 DEF Path!Next, Path!Accept, Traced
  <2>3. ASSUME \A n \in Runs : /\ n \in Successful("package")' => n \in Successful("package")
                               /\ n \in Successful("accept-test")' =>
                                      n \in Successful("accept-test")
        PROVE  [Path!Next]_pvars
    <3>1. Retained("package")' = Retained("package")
      BY <2>0, <2>3, RetainedStays DEF Successful
    <3>2. Retained("accept-test")' = Retained("accept-test")
      BY <2>0, <2>3, RetainedStays DEF Successful
    <3>3. ASSUME NEW n \in Runs, ImportProd(n) PROVE Path!Next
      <4>1. Accepted(held[n]) /\ held[n] \in Packages
        BY <2>0, <3>3 DEF ImportProd, Go, IInv, Stage, Source, TypeOK
      <4>2. held[n] \in Retained("accept-test") /\ prod' = held[n]
        BY <3>3, <4>1 DEF Accepted, Retained, ImportProd
      <4> QED
        BY <3>1, <3>2, <4>1, <4>2 DEF Path!Next, Path!Promote
    <3>4. ASSUME \A n \in Runs : ~ ImportProd(n) PROVE prod' = prod
      BY <3>4 DEF Next, Workflow, Outside, Commit, EditDev, Publish, Expire, vars, Dispatch, Skip,
         Finish, Fail, ImportDev, Export, Attest, Upload, Verify, ImportTest, PassCase, cloud
    <3> QED
      BY <3>1, <3>2, <3>3, <3>4
  <2> QED
    BY <2>1, <2>2, <2>3
<1> QED
  BY <1>1, <1>2, ConciergeInvariant, PTL DEF Spec, ImplementsPromotion, Path!Spec

(* No package reaches TEST without a package run that succeeded, nor production
   without an acceptance that did, for any number of concurrent runs. *)
THEOREM ReleasedThroughTest == Spec => []ReleasedInOrder
<1>1. TestIsReleased /\ ProdIsAccepted => ReleasedInOrder
  BY DEF ReleasedInOrder
<1> QED
  BY <1>1, TestReleased, ProdAccepted, PTL

-----------------------------------------------------------------------------
(* A run at a time, and no author in DEV meanwhile *)

\* What a package run imported is in DEV until it has exported it.
FromSource(n) ==
    kind[n] = "package" =>
        /\ step[n] = "imported" => dev = sha[n]
        /\ held[n] # None => held[n].source = sha[n]

SerialInv ==
    /\ \A m, n \in Active : m = n
    /\ \A n \in Runs : FromSource(n)

(* A run is dispatched when none is active, and nothing else starts one.   *)
LEMMA OneActive ==
    ASSUME MaxActive = 1, IInv, SerialInv, NEW n \in Runs, Workflow(n)
    PROVE  \A l, m \in Active' : l = m
<1>1. Others(n)
  BY OthersUntouched DEF IInv
<1>2. Active' \subseteq Active \cup {n}
  BY <1>1 DEF Active, Dispatched, Others
<1>3. CASE n \in Active
  BY <1>2, <1>3 DEF SerialInv
<1>4. CASE n \notin Active
  <2>1. step[n] = "idle"
    BY <1>4, EndedRunsRest DEF Active, Dispatched, IInv
  <2>2. PICK k \in Kinds, i \in Inputs \cup {None} : Dispatch(n, k, i)
    <3> SUFFICES \E k \in Kinds, i \in Inputs \cup {None} : Dispatch(n, k, i)
      OBVIOUS
    <3>1. ~ Fail(n)
      BY <1>4 DEF Fail
    <3>2. ~ PassCase(n) /\ ~ Finish(n) /\ ~ Skip(n) /\ ~ ImportDev(n) /\ ~ Export(n)
      BY <2>1 DEF PassCase, Finish, Skip, ImportDev, Export, Go
    <3>3. ~ Attest(n) /\ ~ Upload(n) /\ ~ Verify(n) /\ ~ ImportTest(n) /\ ~ ImportProd(n)
      BY <2>1 DEF Attest, Upload, Verify, ImportTest, ImportProd, Go
    <3> QED
      BY <3>1, <3>2, <3>3 DEF Workflow
  <2>3. IsFiniteSet(Active)
    <3>1. IsFiniteSet(Runs)
      <4>1. MaxRuns \in Int /\ 1 \in Int
        BY ConciergeAssumption
      <4> QED
        BY <4>1, FS_Interval DEF Runs
    <3>2. Active \subseteq Runs
      BY DEF Active, Dispatched
    <3> QED
      BY <3>1, <3>2, FS_Subset
  <2>4. Active = {}
    <3>1. Cardinality(Active) < 1 /\ Cardinality(Active) \in Nat
      BY <2>2, <2>3, FS_CardinalityType DEF Dispatch
    <3> QED
      BY <2>3, <3>1, FS_EmptySet
  <2> QED
    BY <1>2, <2>4
<1> QED
  BY <1>3, <1>4

(* A step of a run keeps what every package run has of its commit.         *)
LEMMA FromSourceKept ==
    ASSUME IInv, SerialInv, NEW n \in Runs, Workflow(n), NEW m \in Runs
    PROVE  FromSource(m)'
<1>1. Others(n)
  BY OthersUntouched DEF IInv
<1>2. CASE m # n
  <2>1. kind'[m] = kind[m] /\ sha'[m] = sha[m] /\ step'[m] = step[m] /\ held'[m] = held[m]
    BY <1>1, <1>2 DEF Others
  <2>2. step[m] = "imported" => dev' = dev
    <3>1. CASE ImportDev(n)
      <4>1. n \in Active
        BY <3>1 DEF ImportDev, Go, Active, Dispatched
      <4>2. step[m] = "imported" => m \in Active
        BY DEF Active, Dispatched
      <4> QED
        BY <1>2, <4>1, <4>2 DEF SerialInv
    <3>2. CASE ~ ImportDev(n)
      BY <3>2 DEF Workflow, Dispatch, Skip, Finish, Fail, Export, Attest, Upload, Verify,
         ImportTest, PassCase, ImportProd, cloud
    <3> QED
      BY <3>1, <3>2
  <2> QED
    BY <2>1, <2>2 DEF SerialInv, FromSource
<1>3. CASE m = n
  <2> USE <1>3 DEF FromSource, SerialInv, IInv, TypeOK
  <2>1. ASSUME NEW k \in Kinds, NEW i \in Inputs \cup {None}, Dispatch(n, k, i) PROVE FromSource(n)'
    <3>1. step'[n] = "queued" /\ held'[n] = None
      BY <2>1 DEF Dispatch, Stage
    <3> QED
      BY <3>1
  <2>2. CASE Skip(n)
    BY <2>2 DEF Skip, Go
  <2>3. CASE Finish(n)
    BY <2>3 DEF Finish
  <2>4. CASE Fail(n)
    BY <2>4 DEF Fail
  <2>5. CASE ImportDev(n)
    BY <2>5 DEF ImportDev, Go
  <2>6. CASE Export(n)
    BY <2>6 DEF Export, Go
  <2>7. CASE Attest(n)
    BY <2>7 DEF Attest, Go
  <2>8. CASE Upload(n)
    BY <2>8 DEF Upload, Go
  <2>9. CASE Verify(n)
    BY <2>9 DEF Verify
  <2>10. CASE ImportTest(n)
    BY <2>10 DEF ImportTest, Go
  <2>11. CASE PassCase(n)
    BY <2>11 DEF PassCase, cloud
  <2>12. CASE ImportProd(n)
    BY <2>12 DEF ImportProd, Go
  <2> QED
    BY <2>1, <2>2, <2>3, <2>4, <2>5, <2>6, <2>7, <2>8, <2>9, <2>10, <2>11, <2>12 DEF Workflow
<1> QED
  BY <1>2, <1>3

(* With a run at a time and no author in DEV while it packages, what any   *)
(* number of runs retain is the source of the commits they worked from.    *)
THEOREM ReleasesOwnSource ==
    ASSUME MaxActive = 1, Authors = FALSE PROVE Spec => []ReleasedFromItsSource
<1>1. Init => SerialInv
  BY DEF Init, SerialInv, FromSource, Active, Dispatched
<1>2. IInv /\ SerialInv /\ [Next]_vars => SerialInv'
  <2> SUFFICES ASSUME IInv, SerialInv, [Next]_vars PROVE SerialInv'
    OBVIOUS
  <2>1. ASSUME NEW n \in Runs, Workflow(n) PROVE SerialInv'
    <3>1. \A l, m \in Active' : l = m
      BY <2>1, OneActive
    <3>2. \A m \in Runs : FromSource(m)'
      BY <2>1, FromSourceKept
    <3> QED
      BY <3>1, <3>2 DEF SerialInv
  <2>2. CASE EditDev
    <3>1. /\ \A n \in Active : kind[n] # "package"
          /\ UNCHANGED <<kind, sha, step, held>>
      BY <2>2 DEF EditDev, run
    <3>2. \A n \in Runs : step[n] = "imported" => n \in Active
      BY DEF Active, Dispatched
    <3> QED
      BY <3>1, <3>2 DEF SerialInv, FromSource, Active, Dispatched
  <2>3. CASE Commit \/ Publish \/ (\E n \in Runs : Expire(n)) \/ UNCHANGED vars
    <3>1. UNCHANGED <<kind, sha, step, held, dev>>
      BY <2>3 DEF Commit, Publish, Expire, vars, run, cloud
    <3> QED
      BY <3>1 DEF SerialInv, FromSource, Active, Dispatched
  <2> QED
    BY <2>1, <2>2, <2>3 DEF Next, Outside
<1>3. IInv /\ SerialInv => ReleasedFromItsSource
  BY DEF IInv, Store, SerialInv, FromSource, ReleasedFromItsSource
<1> QED
  BY <1>1, <1>2, <1>3, ConciergeInvariant, PTL DEF Spec
=============================================================================
