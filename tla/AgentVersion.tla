---------------------------- MODULE AgentVersion ----------------------------
(***************************************************************************)
(* A version of the Travel agent (definition.py): agent.yaml is loaded and *)
(* digested, the project's connection is read, a version is created and    *)
(* read back, and a manifest is given for it.  Several creators work at    *)
(* once, the connection may be given another target meanwhile, and the     *)
(* service may store something else than it was sent.                      *)
(***************************************************************************)
EXTENDS Naturals, Sequences, FiniteSets

CONSTANTS
    Creators,       \* bound: create_agent_version running at once
    AgentDocuments, \* bound: what agent.yaml and its files may say, [name, major,
                    \* instructions, model, pinned, transport, connection, operations]
    Contract,       \* the operations of the Travel contract
    Targets,        \* bound: targets of the connection; NoTarget is one without https
    NoTarget,       \* not an https URL, or none
    MaxTargets,     \* bound: times the target changes
    Unmade          \* no spec, no definition, no version

VARIABLES
    spec,     \* each creator's AgentSpec
    doing,    \* where each creator is
    target,   \* the connection's target
    retargets,\* how often it changed
    rendered, \* the definition each creator sent
    versions, \* the service's versions: [name, definition, digest]
    created,  \* the version each creator was given
    manifests \* the manifests given: [version, digest]

creating == <<spec, doing, target, retargets, rendered, versions, created, manifests>>

VersionInit ==
    /\ spec = [c \in Creators |-> Unmade] /\ doing = [c \in Creators |-> "load"]
    /\ target \in Targets /\ retargets = 0
    /\ rendered = [c \in Creators |-> Unmade] /\ versions = <<>>
    /\ created = [c \in Creators |-> Unmade] /\ manifests = {}

Proceeds(c, from, to) == doing[c] = from /\ doing' = [doing EXCEPT ![c] = to]

-----------------------------------------------------------------------------
(* load_agent_spec *)

Distinct(s) == \A i, j \in DOMAIN s : s[i] = s[j] => i = j

\* The checks: a pinned model, instructions, an OpenAPI connection of the definition's
\* major version, and distinct operations of the contract.
Loads(document) ==
    /\ document.pinned
    /\ document.instructions # "empty"
    /\ document.transport = "openapi_project_connection"
    /\ document.operations # <<>> /\ Distinct(document.operations)
    /\ document.connection = document.major
    /\ \A i \in DOMAIN document.operations : document.operations[i] \in Contract

\* What the digest is taken of; SHA-256 is taken to be injective.
Digest(document) ==
    <<document.major, document.instructions, document.model, document.connection, document.operations>>

Load(c, document) ==
    /\ Proceeds(c, "load", IF Loads(document) THEN "connection" ELSE "error")
    /\ spec' = [spec EXCEPT ![c] = document]
    /\ UNCHANGED <<target, retargets, rendered, versions, created, manifests>>

-----------------------------------------------------------------------------
(* create_agent_version *)

Retarget(t) ==
    /\ retargets < MaxTargets /\ retargets' = retargets + 1 /\ t # target /\ target' = t
    /\ UNCHANGED <<spec, doing, rendered, versions, created, manifests>>

\* build_agent_definition, with the connection as it is now.
Render(c) ==
    /\ Proceeds(c, "connection", IF target = NoTarget THEN "error" ELSE "create")
    /\ rendered' = [rendered EXCEPT ![c] =
          [instructions |-> spec[c].instructions, model |-> spec[c].model,
           operations |-> spec[c].operations, connection |-> spec[c].connection, url |-> target]]
    /\ UNCHANGED <<spec, target, retargets, versions, created, manifests>>

\* The service makes a version of what it was sent, or of something else; under another
\* name, or without a version number, it ends in an error.
Create(c, name, kept, digested) ==
    /\ Proceeds(c, "create", IF name = spec[c].name THEN "readback" ELSE "error")
    /\ versions' = Append(versions,
          [name |-> name,
           definition |-> IF kept THEN rendered[c] ELSE [rendered[c] EXCEPT !.instructions = "altered"],
           digest |-> IF digested THEN Digest(spec[c]) ELSE <<>>])
    /\ created' = [created EXCEPT ![c] = Len(versions) + 1]
    /\ UNCHANGED <<spec, target, retargets, rendered, manifests>>

\* A request to the service fails, with its exception.
VersionFails(c) ==
    /\ doing[c] \in {"connection", "create", "readback"} /\ Proceeds(c, doing[c], "error")
    /\ UNCHANGED <<spec, target, retargets, rendered, versions, created, manifests>>

\* Mutant of ReadBack: the version that is answered need not be the one that was made.
ReadBackAny(c, n) ==
    /\ doing[c] = "readback"
    /\ LET v == versions[n] IN
       IF v.name = spec[c].name /\ v.digest = Digest(spec[c]) /\ v.definition = rendered[c]
       THEN /\ manifests' = manifests \cup {[version |-> created[c], digest |-> Digest(spec[c]), by |-> c]}
            /\ doing' = [doing EXCEPT ![c] = "made"]
       ELSE UNCHANGED manifests /\ doing' = [doing EXCEPT ![c] = "error"]
    /\ UNCHANGED <<spec, target, retargets, rendered, versions, created>>

\* The version is asked for by its number; number, name, digest and definition of what is
\* answered must be those made and sent.
ReadBack(c, n) ==
    /\ doing[c] = "readback"
    /\ LET v == versions[n] IN
       IF n = created[c] /\ v.name = spec[c].name /\ v.digest = Digest(spec[c]) /\ v.definition = rendered[c]
       THEN /\ manifests' = manifests \cup {[version |-> created[c], digest |-> Digest(spec[c]), by |-> c]}
            /\ doing' = [doing EXCEPT ![c] = "made"]
       ELSE UNCHANGED manifests /\ doing' = [doing EXCEPT ![c] = "error"]
    /\ UNCHANGED <<spec, target, retargets, rendered, versions, created>>

VersionNext ==
    \/ \E t \in Targets : Retarget(t)
    \/ \E c \in Creators :
          \/ \E document \in AgentDocuments : Load(c, document)
          \/ Render(c) \/ VersionFails(c)
          \/ \E n \in DOMAIN versions : ReadBack(c, n)
          \/ /\ doing[c] = "create"
             /\ \E name \in {spec[c].name, "other"}, kept, digested \in BOOLEAN :
                   Create(c, name, kept, digested)

VersionSpec == VersionInit /\ [][VersionNext]_creating

-----------------------------------------------------------------------------
(* A manifest names the version its creator made, and the service has that *)
(* version with the instructions, model and operations of the checked-in   *)
(* definition, however many versions others make meanwhile.                *)
ManifestIsStored ==
    \A m \in manifests : LET v == versions[m.version] IN
        /\ v.definition = rendered[m.by] /\ v.digest = m.digest
        /\ \A n \in manifests : n.version = m.version => n.by = m.by

(* Versions of one digest differ at most in the target their connection    *)
(* had: the digest tells what a version was made of.                       *)
DigestTellsDefinition ==
    \A m, n \in manifests : m.digest = n.digest =>
        [versions[m.version].definition EXCEPT !.url = NoTarget]
            = [versions[n.version].definition EXCEPT !.url = NoTarget]

(* A manifest tells what the service stores under the version it names,    *)
(* and its digest what that was made of.                                   *)
VersionIsItsManifest == ManifestIsStored /\ DigestTellsDefinition
=============================================================================
