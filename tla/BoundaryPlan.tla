---------------------------- MODULE BoundaryPlan ----------------------------
(***************************************************************************)
(* The static check of the ownership boundary (check_plan of boundary.py). *)
(* A scope is a sequence of path segments under the resource group; what   *)
(* it really addresses is said by resolving it as a path or as words.      *)
(***************************************************************************)
EXTENDS Naturals, Sequences, FiniteSets, SequencesExt

CONSTANTS
    Plans,      \* bound: [modules, defaulted, matches, entries, principals, teardown]; an entry is
                \* [section, name, module, scope, absolute, reuse, role, workspace, group],
                \* a principal [module, variable]
    Dotted,     \* the segments with two dots in them, and
    Grouping,   \* those that end in "resourcegroup" or "resourcegroups"
    Missing     \* not given, and before the check

VARIABLES plan, checked     \* and the checks that failed

\* A scope is a sequence of names, and what is not given is no set of checks.
ASSUME PlansAssumption ==
    /\ Missing # {} /\ ".." \in Dotted /\ {"resourcegroup", "resourcegroups"} \subseteq Grouping
    /\ \A p \in Plans : \A e \in p.entries : e.scope \in Seq(STRING)

planning == <<plan, checked>>

PlanInit == plan \in Plans /\ checked = Missing

Entries(sections) == {e \in plan.entries : e.section \in sections}
Created == Entries({"resources", "identities"})
Names(e) == ToSet(e.scope)

\* Every module says whether it is enabled by default, and every entry, and every external
\* principal, names a module of the plan.
ModulesKnown ==
    /\ "core" \in plan.modules /\ plan.defaulted
    /\ \A e \in plan.entries \cup plan.principals : e.module \in plan.modules
    /\ \A p \in plan.principals : p.variable # Missing

\* Mutant of Relative: a scope only has to be relative.
RelativeOnly(e) == e.scope # <<>> /\ ~ e.absolute

\* A relative scope names no way up, no resource group and no subscription.
Relative(e) ==
    /\ e.scope # <<>> /\ ~ e.absolute
    /\ Names(e) \cap Dotted = {}
    /\ \A i \in DOMAIN e.scope : e.scope[i] \in Grouping => i = Len(e.scope)
    /\ e.scope[1] = "subscriptions" => Len(e.scope) = 1

Wide == {"subscription", "tenant", "management-group", "management group", "root"}

\* The words, and the paths of the root, a subscription and a management group; another
\* absolute scope fails the check of relative scopes alone.
Widens(e) ==
    \/ ~ e.absolute /\ Len(e.scope) = 1 /\ e.scope[1] \in Wide
    \/ /\ e.absolute
       /\ \/ e.scope = <<>> \/ e.scope[1] = "subscriptions"
          \/ Len(e.scope) > 1 /\ e.scope[1] = "providers" /\ e.scope[2] = "microsoft.management"

\* A role is given inside the group, and named.
RoleInside(e) == e.role # Missing /\ ~ Widens(e)

\* Two creations do not share a scope.
ScopesUnique == \A e, f \in Created : e.scope = f.scope => e = f

\* Diagnostics go to a workspace of the plan.
TargetsDeclared == \A e \in Entries({"diagnostic_settings"}) :
    \E r \in Entries({"resources"}) : r.name = e.workspace

\* A plan with a teardown removes the group, or everything by name.
TornDown == plan.teardown =>
    \/ \E e \in Entries({"teardown"}) : e.group
    \/ \A e \in Created : \E t \in Entries({"teardown"}) : t.name = e.name

Checks == {"modules", "name", "scopes", "unique", "reuse", "roles", "targets", "teardown"}
Passes(c) ==
    /\ c = "modules" => ModulesKnown
    /\ c = "name" => plan.matches
    /\ c = "scopes" => \A e \in plan.entries : Relative(e)
    /\ c = "unique" => ScopesUnique
    /\ c = "reuse" => \A e \in Created : ~ e.reuse
    /\ c = "roles" => \A e \in Entries({"role_assignments"}) : RoleInside(e)
    /\ c = "targets" => TargetsDeclared
    /\ c = "teardown" => TornDown

CheckPlan ==
    /\ checked = Missing
    /\ checked' = {c \in Checks : ~ Passes(c)}
    /\ UNCHANGED plan

PlanNext == CheckPlan

PlanSpec == PlanInit /\ [][PlanNext]_planning

-----------------------------------------------------------------------------
(* What a scope addresses: the group, named "here", below its subscription. *)

Group == <<"subscriptions", "ours", "resourcegroups", "here">>

Address(e) ==
    IF e.absolute THEN e.scope
    ELSE FoldLeft(LAMBDA path, s : IF s = ".." THEN (IF path = <<>> THEN <<>> ELSE Front(path))
                                   ELSE IF s = "." THEN path ELSE Append(path, s), Group, e.scope)

(* "Scopes must be relative to the resource group so they cannot address   *)
(* another subscription or resource group" (boundary.py:585): whatever     *)
(* plan passes, each of its entries resolves to something in the group,    *)
(* and no role reads as one given above it.                                *)
SoundPlanStaysInside ==
    checked = {} => \A e \in plan.entries :
        /\ IsPrefix(Group, Address(e))
        /\ e.section = "role_assignments" => Len(e.scope) > 1 \/ e.scope[1] \notin Wide

(* What it makes is its own, made once, and can be removed: every scope it *)
(* creates is covered by a removal, as long as it declares any. (Scopes    *)
(* are compared as they are written: one that goes through "." may address *)
(* what another does.)                                                     *)
SoundPlanIsRemovable ==
    checked = {} /\ plan.teardown => \A e \in Created :
        /\ ~ e.reuse
        /\ \A f \in Created : Address(f) = Address(e) => f = e \/ "." \in Names(e) \cup Names(f)
        /\ \E t \in Entries({"teardown"}) : t.group \/ t.name = e.name

(* A plan without violations names nothing outside the group, and all that *)
(* it makes can be removed (boundary.py:585).                              *)
SoundPlanIsOurs == SoundPlanStaysInside /\ SoundPlanIsRemovable
=============================================================================
