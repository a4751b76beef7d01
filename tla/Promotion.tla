----------------------------- MODULE Promotion -----------------------------
(***************************************************************************)
(* What the Concierge release path promises about a managed package: it is *)
(* built once, it is accepted after it was built, and production runs      *)
(* nothing but accepted packages ("build once, test the managed artifact   *)
(* in TEST, and promote that exact file to PROD").                         *)
(***************************************************************************)
CONSTANTS
    Packages,   \* the managed packages
    Nothing     \* no package

VARIABLES
    built,      \* the packages that are released
    accepted,   \* the packages TEST accepted
    prod        \* the package in production

Init == built = {} /\ accepted = {} /\ prod = Nothing

Build(p) ==
    /\ p \notin built
    /\ built' = built \cup {p}
    /\ UNCHANGED <<accepted, prod>>

Accept(p) ==
    /\ p \in built
    /\ accepted' = accepted \cup {p}
    /\ UNCHANGED <<built, prod>>

Promote(p) ==
    /\ p \in accepted
    /\ prod' = p
    /\ UNCHANGED <<built, accepted>>

Next == \E p \in Packages : Build(p) \/ Accept(p) \/ Promote(p)

Spec == Init /\ [][Next]_<<built, accepted, prod>>
=============================================================================
