----------------------------- MODULE Concierge -----------------------------
(***************************************************************************)
(* The manually dispatched ALM workflow of the Copilot Studio Concierge    *)
(* (.github/workflows/concierge-alm.yml).  A run does one operation:       *)
(* package imports the repository's source into DEV and exports a managed  *)
(* package from it, import-test imports a package into TEST, accept-test   *)
(* puts the synthetic suite to the runtime TEST has published and re-issues*)
(* the package, import-prod imports a re-issued package into production.   *)
(* Runs meet only in the artifacts they leave and in the three             *)
(* environments; nothing keeps two of them apart.                          *)
(*                                                                         *)
(* A package is told apart by the run that exported it and by the source   *)
(* DEV held then; a commit of main, by its number.  An attested archive is *)
(* never altered: verify-concierge-artifact checks its digest.             *)
(***************************************************************************)
EXTENDS Naturals, Sequences, FiniteSets

CONSTANTS
    MaxRuns,      \* bound: dispatches of the workflow
    MaxActive,    \* bound: runs in progress at once
    MaxCommits,   \* bound: commits of main
    Cases,        \* number of cases of the acceptance suite
    Edited,       \* what DEV holds after an author changed it there
    Authors,      \* whether authors change DEV while a package run uses it
    Defects,      \* the pairs <<content, case>> the runtime fails
    None

Runs     == 1 .. MaxRuns
Commits  == 1 .. MaxCommits
Contents == Commits \cup {Edited}
Packages == [exporter : Runs, source : Contents]
Kinds    == {"package", "import-test", "accept-test", "import-prod"}
Names    == {"managed", "accepted"}
Inputs   == [run : Runs, sha : Commits]
Steps    == {"idle", "queued", "imported", "exported", "verified", "attested", "uploaded",
             "success", "failed"}

ASSUME ConciergeAssumption ==
    /\ MaxRuns \in Nat /\ MaxActive \in Nat /\ MaxCommits \in Nat \ {0}
    /\ Cases \in Nat \ {0}
    /\ Authors \in BOOLEAN
    /\ Edited \notin Nat
    /\ Defects \subseteq Contents \X (1 .. Cases)
    /\ None \notin Kinds \cup Packages \cup Inputs \cup [name : Names, package : Packages]
    /\ None \notin Contents

VARIABLES
    main,        \* the head of the main branch
    kind,        \* kind[n]: the operation of run n
    sha,         \* sha[n]: the commit run n works from
    input,       \* input[n]: the source run and commit its operator named
    step,        \* step[n]: where run n is
    held,        \* held[n]: the package in run n's workspace
    seen,        \* seen[n]: the runtimes run n's cases were put to, in order
    artifact,    \* artifact[n]: what run n retained
    expired,     \* the runs whose artifact passed its retention
    attested,    \* the packages the workflow attested
    dev,         \* the content of the unmanaged solution in DEV
    test,        \* the package imported into TEST
    published,   \* the package whose agent TEST's owner published
    prod         \* the package imported into production

run   == <<kind, sha, input, step, held, seen>>
store == <<artifact, expired, attested>>
cloud == <<dev, test, published, prod>>
vars  == <<main, run, store, cloud>>

Dispatched == {n \in Runs : step[n] # "idle"}
Active     == {n \in Dispatched : step[n] \notin {"success", "failed"}}

Init ==
    /\ main = 1
    /\ kind = [n \in Runs |-> None] /\ sha = [n \in Runs |-> None]
    /\ input = [n \in Runs |-> None] /\ step = [n \in Runs |-> "idle"]
    /\ held = [n \in Runs |-> None] /\ seen = [n \in Runs |-> <<>>]
    /\ artifact = [n \in Runs |-> None] /\ expired = {} /\ attested = {}
    /\ dev = None /\ test = None /\ published = None /\ prod = None

Go(n, from, to) == step[n] = from /\ step' = [step EXCEPT ![n] = to]

-----------------------------------------------------------------------------
(* Dispatch and the ends of a run. *)

\* An operator names any run there is and any commit of main.
Dispatch(n, k, i) ==
    /\ Cardinality(Active) < MaxActive
    /\ step[n] = "idle" /\ \A m \in 1 .. (n - 1) : m \in Dispatched
    /\ IF k = "package" THEN i = None ELSE i # None /\ i.run \in Dispatched /\ i.sha <= main
    /\ step' = [step EXCEPT ![n] = "queued"]
    /\ kind' = [kind EXCEPT ![n] = k]
    /\ sha' = [sha EXCEPT ![n] = main]
    /\ input' = [input EXCEPT ![n] = i]
    /\ UNCHANGED <<main, held, seen, store, cloud>>

\* Deployments are switched off: the job is skipped and the run succeeds.
Skip(n) ==
    /\ Go(n, "queued", "success")
    /\ UNCHANGED <<main, kind, sha, input, held, seen, store, cloud>>

Finish(n) ==
    /\ step[n] \in {"imported", "uploaded"}
    /\ step[n] = "imported" => kind[n] # "package"
    /\ step' = [step EXCEPT ![n] = "success"]
    /\ UNCHANGED <<main, kind, sha, input, held, seen, store, cloud>>

\* A gate, a check, a case or a command fails, a reviewer rejects the
\* environment, somebody cancels: at any point, also after the upload.
Fail(n) ==
    /\ n \in Active
    /\ step' = [step EXCEPT ![n] = "failed"]
    /\ UNCHANGED <<main, kind, sha, input, held, seen, store, cloud>>

-----------------------------------------------------------------------------
(* package *)

\* Mutant of ImportDev: a solution that DEV already has is not imported again.
ImportDevOnce(n) ==
    /\ kind[n] = "package"
    /\ Go(n, "queued", "imported")
    /\ dev' = IF dev = None THEN sha[n] ELSE dev
    /\ UNCHANGED <<main, kind, sha, input, held, seen, store, test, published, prod>>

\* The source of the run's commit is packed and imported.
ImportDev(n) ==
    /\ kind[n] = "package"
    /\ Go(n, "queued", "imported")
    /\ dev' = sha[n]
    /\ UNCHANGED <<main, kind, sha, input, held, seen, store, test, published, prod>>

\* The managed package holds what DEV holds now.
Export(n) ==
    /\ kind[n] = "package"
    /\ Go(n, "imported", "exported")
    /\ held' = [held EXCEPT ![n] = [exporter |-> n, source |-> dev]]
    /\ UNCHANGED <<main, kind, sha, input, seen, store, cloud>>

\* Mutant of Attest: a suite that was started is enough.
AttestEarly(n) ==
    /\ \/ Go(n, "exported", "attested")
       \/ kind[n] = "accept-test" /\ Go(n, "verified", "attested")
    /\ attested' = attested \cup {held[n]}
    /\ UNCHANGED <<main, kind, sha, input, held, seen, artifact, expired, cloud>>

\* After the export, or after every case of the suite passed.
Attest(n) ==
    /\ \/ Go(n, "exported", "attested")
       \/ kind[n] = "accept-test" /\ Len(seen[n]) = Cases /\ Go(n, "verified", "attested")
    /\ attested' = attested \cup {held[n]}
    /\ UNCHANGED <<main, kind, sha, input, held, seen, artifact, expired, cloud>>

Upload(n) ==
    /\ Go(n, "attested", "uploaded")
    /\ artifact' = [artifact EXCEPT ![n] =
           [name |-> IF kind[n] = "package" THEN "managed" ELSE "accepted", package |-> held[n]]]
    /\ UNCHANGED <<main, kind, sha, input, held, seen, expired, attested, cloud>>

-----------------------------------------------------------------------------
(* verify-concierge-artifact *)

\* Mutant of Wanted: production takes the package that TEST takes.
WantedAnywhere(k) == "managed"

Wanted(k) == IF k = "import-prod" THEN "accepted" ELSE "managed"

\* The source run succeeded on the named commit and retains the attested
\* package under the wanted name.
Trusted(n) ==
    LET s == input[n].run IN
    /\ step[s] = "success"
    /\ sha[s] = input[n].sha
    /\ artifact[s] # None
    /\ artifact[s].name = Wanted(kind[n])
    /\ s \notin expired
    /\ artifact[s].package \in attested

Verify(n) ==
    /\ kind[n] # "package"
    /\ step[n] = "queued" /\ Trusted(n)
    /\ step' = [step EXCEPT ![n] = "verified"]
    /\ held' = [held EXCEPT ![n] = artifact[input[n].run].package]
    /\ UNCHANGED <<main, kind, sha, input, seen, store, cloud>>

-----------------------------------------------------------------------------
(* import-test, accept-test, import-prod *)

ImportTest(n) ==
    /\ kind[n] = "import-test"
    /\ Go(n, "verified", "imported")
    /\ test' = held[n]
    /\ UNCHANGED <<main, kind, sha, input, held, seen, store, dev, published, prod>>

\* The next case goes to the runtime TEST has published, and passes.
PassCase(n) ==
    /\ kind[n] = "accept-test"
    /\ step[n] = "verified" /\ Len(seen[n]) < Cases
    /\ published # None /\ <<published.source, Len(seen[n]) + 1>> \notin Defects
    /\ seen' = [seen EXCEPT ![n] = Append(@, published)]
    /\ UNCHANGED <<main, kind, sha, input, step, held, store, cloud>>

ImportProd(n) ==
    /\ kind[n] = "import-prod"
    /\ Go(n, "verified", "imported")
    /\ prod' = held[n]
    /\ UNCHANGED <<main, kind, sha, input, held, seen, store, dev, test, published>>

-----------------------------------------------------------------------------
(* What goes on outside the workflow. *)

Commit ==
    /\ main < MaxCommits
    /\ main' = main + 1
    /\ UNCHANGED <<run, store, cloud>>

\* An author changes the agent in DEV.
EditDev ==
    /\ Authors \/ \A n \in Active : kind[n] # "package"
    /\ dev' = Edited
    /\ UNCHANGED <<main, run, store, test, published, prod>>

\* An agent owner publishes what TEST holds.
Publish ==
    /\ test # None
    /\ published' = test
    /\ UNCHANGED <<main, run, store, dev, test, prod>>

Expire(n) ==
    /\ artifact[n] # None
    /\ expired' = expired \cup {n}
    /\ UNCHANGED <<main, run, artifact, attested, cloud>>

-----------------------------------------------------------------------------
Workflow(n) ==
    \/ \E k \in Kinds, i \in Inputs \cup {None} : Dispatch(n, k, i)
    \/ Skip(n) \/ Finish(n) \/ Fail(n)
    \/ ImportDev(n) \/ Export(n) \/ Attest(n) \/ Upload(n)
    \/ Verify(n) \/ ImportTest(n) \/ PassCase(n) \/ ImportProd(n)

Outside == Commit \/ EditDev \/ Publish \/ \E n \in Runs : Expire(n)

Next == Outside \/ \E n \in Runs : Workflow(n)

Spec == Init /\ [][Next]_vars

-----------------------------------------------------------------------------
(* Every variable stays in its set. *)
TypeOK ==
    /\ main \in Commits
    /\ kind \in [Runs -> Kinds \cup {None}]
    /\ sha \in [Runs -> Commits \cup {None}]
    /\ input \in [Runs -> Inputs \cup {None}]
    /\ step \in [Runs -> Steps]
    /\ held \in [Runs -> Packages \cup {None}]
    /\ seen \in [Runs -> Seq(Packages)]
    /\ artifact \in [Runs -> [name : Names, package : Packages] \cup {None}]
    /\ expired \subseteq Runs /\ attested \subseteq Packages
    /\ dev \in Contents \cup {None}
    /\ test \in Packages \cup {None} /\ published \in Packages \cup {None}
    /\ prod \in Packages \cup {None}

Successful(k) == {n \in Runs : kind[n] = k /\ step[n] = "success" /\ artifact[n] # None}
Retained(k)   == {artifact[n].package : n \in Successful(k)}

(* What TEST holds and what it serves was retained by a package run that   *)
(* succeeded, and by the run that exported it: nothing is rebuilt or taken *)
(* from a run that failed after its upload (concierge_alm.py:90-103).      *)
TestIsReleased ==
    \A p \in {test, published} \ {None} :
        /\ p \in Retained("package")
        /\ p.exporter \in Successful("package")

(* Production runs a package that a package run released and that an       *)
(* acceptance run re-issued after it passed every case                     *)
(* (concierge-alm.yml:263-274, docs/operations/concierge-alm.md:59-61).    *)
ProdIsAccepted ==
    prod # None =>
        /\ prod \in Retained("package")
        /\ \E a \in Successful("accept-test") : /\ artifact[a].package = prod
                                                /\ Len(seen[a]) = Cases

(* Neither TEST nor production holds a package that skipped the step before. *)
ReleasedInOrder == TestIsReleased /\ ProdIsAccepted

(* A released package holds the source of the commit its run worked from,  *)
(* which is the commit the later operations name to trust it               *)
(* (config/concierge/alm.yaml:46, concierge_alm.py:94-99).                 *)
ReleasedFromItsSource ==
    \A n \in Runs : kind[n] = "package" /\ artifact[n] # None =>
        artifact[n].package.source = sha[n]

(* A package is re-issued for production only if the suite was put to that *)
(* package (docs/operations/concierge-alm.md:3-5, 55-58).                  *)
AcceptedWasExercised ==
    \A a \in Runs : kind[a] = "accept-test" /\ artifact[a] # None =>
        \A c \in 1 .. Len(seen[a]) : seen[a][c] = artifact[a].package

-----------------------------------------------------------------------------
(* A package is released, and accepted, when the run that retains it ends. *)
Path == INSTANCE Promotion WITH Nothing <- None, built <- Retained("package"),
                                accepted <- Retained("accept-test")

(* The workflow builds, accepts and promotes packages in that order, each  *)
(* package built once (concierge-alm.yml:83-302).                          *)
ImplementsPromotion == Path!Spec
=============================================================================
