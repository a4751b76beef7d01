------------------------------ MODULE Boundary ------------------------------
(***************************************************************************)
(* The ownership boundary against the live subscription (boundary.py).     *)
(* The resource group, its resources, their children page by page, the     *)
(* agents, the identities and the role assignments are read one after the  *)
(* other while others work in the subscription; a clean report lets the    *)
(* group be created.                                                       *)
(***************************************************************************)
EXTENDS Naturals, FiniteSets, Sequences

CONSTANTS
    Declared,   \* resources and identities of the plan: [name, matches, module, required,
                \* expected, most]
    Assigned,   \* role assignments of the plan: [principal, role, matches, module, required]
    External,   \* external principals: [name, module, required]
    Optional,   \* the modules that are not enabled by default
    Scopes,     \* the relative scopes resources may have
    Listed,     \* those "az resource list" shows
    Queries,    \* the inventory reads: collections of children and projects of agents
    Contents,   \* Contents[q]: the scopes a read covers
    Single,     \* the reads of one resource, which fail when it is not there
    Principal,  \* Principal[s]: the principal of a resource, or NoPrincipal
    Shown,      \* Shown[s]: where its principal is shown: "list", "identity", "detail"
    Owner,      \* Owner[name]: the object ids of external principals
    Grants,     \* bound: role assignments there may be: [principal, role, scope]
    Lives,      \* bound: the resources, and
    GrantSets,  \* bound: the role assignments, to start with
    CheckRequests, \* bound: [static, live, existing, modules, readiness, supplied]
    Tokens,     \* bound: the continuations of a read that may come back
    Fresh,      \* names for those that never do; two of them tell one from the next
    MaxEvents,  \* bound: what others do and reads that fail
    NoPrincipal \* no principal

VARIABLES
    group,      \* the resource group: "absent", "ours" or "foreign", by its tags
    live,       \* the resources in it
    grants,     \* the role assignments of the subscription
    changes,    \* what others did, and whether they did it during the check
    still,
    request,    \* what is checked, and how: whether the plan passes its static checks
                \* and lets the group exist, whether the live check is made, the optional
                \* modules and external principals that are enabled and supplied, and
                \* whether resources may be missing
    at,         \* the step of the check
    violations, \* the checks that failed
    target,     \* target_exists, "unknown" before the groups are read
    found,      \* live_resources: the principal known of each scope found
    pending,    \* the reads still to make
    next,       \* the continuation the read under way asks for, "none" at its first page
    visited,    \* those it has asked for and may see again
    reported,   \* what it has reported
    faults,     \* reads that failed
    made        \* what ensure_resource_group did

\* The list of resources and the reads of collections between them cover what there may
\* be, and a principal is shown somewhere; the names of external principals are their own
\* (config/boundary.yaml), and a role is always granted to somebody.
ASSUME BoundaryAssumption ==
    /\ Lives \subseteq SUBSET Scopes
    /\ Scopes \subseteq Listed \cup UNION {Contents[q] : q \in Queries}
    /\ \A s \in Scopes : Shown[s] \in {"list", "identity", "detail"}
    /\ \A x \in External, e \in Declared : x.name # e.name
    /\ \A g \in Grants \cup UNION GrantSets : g.principal # NoPrincipal
    /\ Tokens \cap Fresh = {} /\ "none" \notin Tokens \cup Fresh

boundary == <<group, live, grants, changes, still, request, at, violations, target, found,
              pending, next, visited, reported, faults, made>>

Modules == {"core"} \cup Optional

\* The group and the plan may be as they are.
BoundaryInit ==
    /\ group \in {"absent", "ours", "foreign"}
    /\ IF group = "absent" THEN live = {} ELSE live \in Lives
    /\ grants \in GrantSets
    /\ request \in CheckRequests
    /\ changes = 0 /\ still = TRUE /\ at = "static" /\ violations = {}
    /\ target = "unknown" /\ found = <<>> /\ pending = {} /\ next = "none" /\ visited = {}
    /\ reported = {} /\ faults = 0 /\ made = "nothing"

-----------------------------------------------------------------------------
(* The plan *)

\* _enabled_modules and _active_plan.
Enabled == {"core"} \cup request.modules
Active(entries) == {e \in entries : e.module \in Enabled}

-----------------------------------------------------------------------------
(* Others in the subscription *)

Change ==
    /\ changes + faults < MaxEvents /\ changes' = changes + 1
    /\ still' = (still /\ at = "static")
    /\ UNCHANGED <<request, at, violations, target, found, pending, next, visited, reported, faults,
                   made>>

\* Others make the group too, or drop it.
Regroup ==
    /\ Change /\ group' = (IF group = "absent" THEN "foreign" ELSE "absent")
    /\ live' = IF group' = "absent" THEN {} ELSE live
    /\ UNCHANGED grants

Deploy(s) ==
    /\ Change /\ group # "absent"
    /\ live' = (IF s \in live THEN live \ {s} ELSE live \cup {s}) /\ UNCHANGED <<group, grants>>

Grant(g) ==
    /\ Change /\ grants' = (IF g \in grants THEN grants \ {g} ELSE grants \cup {g})
    /\ UNCHANGED <<group, live>>

-----------------------------------------------------------------------------
(* The check *)

Checking(from, to) ==
    /\ at = from /\ at' = to
    /\ UNCHANGED <<group, live, grants, changes, still, request, made>>

Fails(checks) == violations' = violations \cup checks

\* A read of the Azure CLI fails: where it is caught it is a violation, or the end of
\* the check; elsewhere it is raised.
ReadFails ==
    /\ changes + faults < MaxEvents /\ faults' = faults + 1
    /\ \/ Checking("groups", "done") /\ Fails({"subscription-inventory"})
       \/ Checking("resources", "done") /\ Fails({"resource-inventory"})
       \/ Checking("children", "compare") /\ Fails({"declared-resource-inventory"})
       \/ /\ Checking(at, "raised") /\ at \in {"identities", "details", "roles"}
          /\ UNCHANGED violations
    /\ UNCHANGED <<target, found, pending, next, visited, reported>>

\* The command looks at the subscription whatever the plan's own checks say, and adds what
\* it finds; require_clean_live raises at a plan that fails them.
CheckStatic ==
    /\ \/ Checking("static", IF request.live THEN "groups" ELSE "done")
       \/ request.live /\ ~ request.static /\ Checking("static", "raised")
    /\ Fails(IF request.static THEN {} ELSE {"plan"})
    /\ UNCHANGED <<target, found, pending, next, visited, reported, faults>>

\* The group list tells whether the group exists, and its tags.
ReadGroups ==
    /\ Checking("groups", IF group = "absent" THEN "done" ELSE "resources")
    /\ target' = (IF group = "absent" THEN "absent" ELSE "exists")
    /\ Fails(IF group = "foreign" THEN {"target-ownership-tags"} ELSE {})
    /\ UNCHANGED <<found, pending, next, visited, reported, faults>>

\* What a list shows of the principals of these scopes.
Known(scopes, where) == [s \in scopes |-> IF Shown[s] \in where THEN Principal[s] ELSE NoPrincipal]

ReadResources ==
    /\ Checking("resources", IF request.existing THEN "children" ELSE "done")
    /\ Fails(IF request.existing THEN {} ELSE {"target-not-adopted"})
    /\ found' = Known(live \cap Listed, {"list"})
    /\ pending' = Queries /\ next' = "none" /\ visited' = {} /\ reported' = {}
    /\ UNCHANGED <<target, faults>>

Seen(scopes) ==
    found' = [s \in DOMAIN found \cup scopes |->
                 IF s \in scopes THEN Known(scopes, {"list"})[s] ELSE found[s]]

\* Mutant of ReadPage: continuations are not remembered.
ReadPageForgetting(q, page, token) ==
    /\ page \subseteq (live \cap Contents[q]) \ reported /\ Seen(page) /\ next' = token
    /\ \/ /\ token = "none" /\ live \cap Contents[q] \subseteq reported \cup page
          /\ pending' = pending \ {q} /\ reported' = {}
       \/ /\ token # "none" /\ (token \in Fresh => token # next)
          /\ reported' = reported \cup page /\ UNCHANGED pending
    /\ UNCHANGED <<violations, at, visited>>

\* A page of ARM resources or of agents reports part of the collection and names another
\* page, or reports the rest; a continuation that was seen ends the reading of all
\* collections, and a fresh one, which will not be seen again, need not be remembered.
ReadPage(q, page, token) ==
    /\ page \subseteq (live \cap Contents[q]) \ reported /\ Seen(page) /\ next' = token
    /\ \/ /\ token = "none" /\ live \cap Contents[q] \subseteq reported \cup page
          /\ pending' = pending \ {q} /\ visited' = {} /\ reported' = {}
          /\ UNCHANGED <<violations, at>>
       \/ /\ token # "none" /\ token \notin visited /\ (token \in Fresh => token # next)
          /\ visited' = visited \cup ({token} \cap Tokens) /\ reported' = reported \cup page
          /\ UNCHANGED <<pending, violations, at>>
       \/ /\ token # "none" /\ token \in visited
          /\ Fails({"declared-resource-inventory"}) /\ at' = "compare"
          /\ UNCHANGED <<pending, visited, reported>>

\* The reads are made one after the other; that of one resource fails without it. No scope
\* that the checked-in plan queries has a wildcard, so _expand_inventory_scope gives back
\* the scope itself and the reads do not depend on what was found.
Children ==
    /\ at = "children" /\ pending # {}
    /\ LET q == CHOOSE p \in pending : TRUE IN
       IF q \in Single /\ live \cap Contents[q] = {}
       THEN /\ Fails({"declared-resource-inventory"}) /\ at' = "compare"
            /\ UNCHANGED <<found, pending, next, visited, reported>>
       ELSE \E page \in SUBSET (live \cap Contents[q]), token \in Tokens \cup Fresh \cup {"none"} :
               ReadPage(q, page, token)
    /\ UNCHANGED <<group, live, grants, changes, still, request, target, faults, made>>

ChildrenRead ==
    /\ Checking("children", "compare") /\ pending = {}
    /\ UNCHANGED <<violations, target, found, pending, next, visited, reported, faults>>

Matches(e) == e.matches \cap DOMAIN found

\* How many resources a declaration may match.
Fits(e) ==
    LET n == Cardinality(Matches(e)) IN
    \/ n = e.expected
    \/ request.readiness /\ n <= e.most
    \/ n = 0 /\ ~ e.required

\* Mutant of OneToOne: resources nobody declared are not looked at.
OneToOneDeclared == \A e \in Active(Declared) : Fits(e)

\* Each declaration matches as many resources as it may, each resource one declaration.
OneToOne ==
    /\ \A e \in Active(Declared) : Fits(e)
    /\ \A s \in DOMAIN found : Cardinality({e \in Active(Declared) : s \in e.matches}) = 1

Compare ==
    /\ Checking("compare", "identities")
    /\ Fails(IF OneToOne THEN {} ELSE {"declared-resource-inventory"})
    /\ UNCHANGED <<target, found, pending, next, visited, reported, faults>>

\* The identities of the group, with their principals, join what was found.
ReadIdentities ==
    /\ Checking("identities", "details")
    /\ LET ids == {s \in live : Shown[s] = "identity"} IN
       found' = [s \in DOMAIN found \cup ids |-> IF s \in ids THEN Principal[s] ELSE found[s]]
    /\ UNCHANGED <<violations, target, pending, next, visited, reported, faults>>

\* The resources declared assignments name are shown, unless their principal is known;
\* one that is gone is an error.
ReadDetails ==
    LET named == {s \in DOMAIN found : found[s] = NoPrincipal /\
                     \E e \in Active(Declared), a \in Active(Assigned) :
                        a.principal = e.name /\ s \in e.matches}
    IN  /\ Checking("details", IF named \subseteq live THEN "roles" ELSE "raised")
        /\ found' = [s \in DOMAIN found |->
                        IF s \in named /\ Shown[s] = "detail" THEN Principal[s] ELSE found[s]]
        /\ UNCHANGED <<violations, target, pending, next, visited, reported, faults>>

-----------------------------------------------------------------------------
(* _check_live_role_assignments *)

Supplied(name) == name \in request.supplied
\* An external principal of an enabled module must be supplied, unless it may be missing.
Unsupplied == {x \in Active(External) : ~ Supplied(x.name) /\ x.required}
Waived(a) == ~ a.required /\ \E x \in Active(External) : x.name = a.principal
                                 /\ ~ Supplied(x.name) /\ ~ x.required

PrincipalsOf(a) ==
    IF \E x \in Active(External) : x.name = a.principal /\ Supplied(x.name)
    THEN {Owner[a.principal]}
    ELSE {found[s] : s \in UNION {Matches(e) : e \in {d \in Active(Declared) : d.name = a.principal}}}
            \ {NoPrincipal}

ScopesOf(a) == IF a.matches = {"."} THEN {"."} ELSE a.matches \cap DOMAIN found

IsExternal(a) == \E x \in Active(External) : x.name = a.principal /\ Supplied(x.name)
MayMiss(a) == ~ a.required \/ request.readiness

\* An assignment is skipped, is in error, or says which grants are expected.
Skipped(a) ==
    \/ Waived(a)
    \/ PrincipalsOf(a) = {} /\ MayMiss(a) /\ \E e \in Active(Declared) : e.name = a.principal
Unresolved(a) ==
    /\ ~ Skipped(a)
    /\ \/ ~ IsExternal(a) /\ ~ \E e \in Active(Declared) : e.name = a.principal
       \/ ~ IsExternal(a) /\ Cardinality(PrincipalsOf(a)) # 1 /\ ~ request.readiness
Resolved == {a \in Active(Assigned) : ~ Skipped(a) /\ ~ Unresolved(a)}

Ambiguous(a) == Cardinality(ScopesOf(a)) # 1 /\ ~ (ScopesOf(a) = {} /\ MayMiss(a))

ExpectedGrants(assigned) ==
    UNION {{[principal |-> p, role |-> a.role, scope |-> s] : p \in PrincipalsOf(a), s \in ScopesOf(a)} :
              a \in {b \in assigned : Cardinality(ScopesOf(b)) = 1}}
Aliases == UNION {PrincipalsOf(a) : a \in Resolved}

\* Grants outside the group count for the principals of the plan alone; inside it the
\* grants and the plan must be the same, but for those that may be missing.
RoleViolations(all) ==
    LET inside == {g \in all : g.scope # "above"} IN
    \/ Unsupplied # {}
    \/ \E a \in Active(Assigned) : Unresolved(a) \/ (a \in Resolved /\ Ambiguous(a))
    \/ \E g \in all : g.scope = "above" /\ g.principal \in Aliases
    \/ ~ request.readiness /\ ~ ExpectedGrants({a \in Resolved : a.required}) \subseteq inside
    \/ ~ inside \subseteq ExpectedGrants(Resolved)

ReadRoles ==
    /\ Checking("roles", "done")
    /\ Fails(IF RoleViolations(grants) THEN {"declared-role-assignments"} ELSE {})
    /\ UNCHANGED <<target, found, pending, next, visited, reported, faults>>

-----------------------------------------------------------------------------
(* ensure_resource_group *)

\* The command refuses without the live check. A clean report of a subscription without
\* the group lets it be made; "az group create" gives the group its tags whether or not
\* it is there by now.
Ensure(dry) ==
    /\ at = "done" /\ made = "nothing"
    /\ IF violations # {} \/ ~ request.live \/ target = "exists" \/ dry
       THEN made' = "refused" /\ UNCHANGED group
       ELSE made' = "created" /\ group' = "ours"
    /\ UNCHANGED <<live, grants, changes, still, request, at, violations, target, found, pending,
                   next, visited, reported, faults>>

CheckStep ==
    \/ CheckStatic \/ ReadGroups \/ ReadResources \/ Children \/ ChildrenRead \/ Compare
    \/ ReadIdentities \/ ReadDetails \/ ReadRoles

BoundaryNext ==
    \/ Regroup \/ (\E s \in Scopes : Deploy(s)) \/ (\E g \in Grants : Grant(g))
    \/ ReadFails \/ CheckStep
    \/ \E dry \in BOOLEAN : Ensure(dry)

BoundarySpec == BoundaryInit /\ [][BoundaryNext]_boundary /\ WF_boundary(CheckStep)

-----------------------------------------------------------------------------
(* Said of the subscription itself, not of what was found of it. *)

InPlan(s) == \E e \in Active(Declared) : s \in e.matches
HasGrant(g) ==
    \E a \in Active(Assigned) :
        /\ a.role = g.role
        /\ g.scope \in a.matches
        /\ \/ \E x \in Active(External) : x.name = a.principal /\ Supplied(x.name)
                                           /\ Owner[x.name] = g.principal
           \/ \E e \in Active(Declared) : e.name = a.principal
                                           /\ \E s \in live \cap e.matches : Principal[s] = g.principal

(* "The live gate proves ownership tags and the complete resource          *)
(* inventory" (config/boundary.yaml:22): of a subscription that others     *)
(* leave alone during the check, a clean report says that the group is     *)
(* ours, all in it is of the plan, what the plan requires is there, and    *)
(* nobody holds a role in it that the plan does not give.                  *)
CleanMeansOwned ==
    at = "done" /\ violations = {} /\ request.live /\ still /\ made # "created"
    /\ group # "absent" =>
        /\ group = "ours" /\ request.existing
        /\ \A s \in live : InPlan(s)
        /\ ~ request.readiness => \A e \in Active(Declared) :
              e.required => Cardinality(e.matches \cap live) = e.expected
        /\ \A g \in grants : g.scope # "above" => HasGrant(g)

(* And no principal the plan gives a role holds one above the group.       *)
NoRoleAboveGroup ==
    at = "done" /\ violations = {} /\ still /\ target = "exists" =>
        \A g \in grants, a \in Active(Assigned), e \in Active(Declared) :
            g.scope = "above" /\ a.principal = e.name =>
                ~ \E s \in live \cap e.matches : Principal[s] = g.principal

(* "Creating requires the live adoption check" (cli.py:221): the group is  *)
(* made only of a plan that is sound and clean, and in a subscription that *)
(* was seen without it.                                                    *)
CreatedWhenClean == made = "created" => violations = {} /\ request.static /\ target = "absent"

(* A clean check means that what is there is of the plan and ours, that no *)
(* role reaches above the group, and it comes before the group is made.    *)
CleanIsClean == CleanMeansOwned /\ NoRoleAboveGroup /\ CreatedWhenClean

(* The check ends, whatever pages it is shown and however they repeat;     *)
(* but nothing counts the pages (boundary.py:214 and 289), and a           *)
(* collection that names a fresh one for ever is read for ever.            *)
FreshPage == next' \in Fresh
CheckEnds == <>(at \in {"done", "raised"}) \/ []<><<FreshPage>>_next
=============================================================================
