--------------------------- MODULE RouteRegister ---------------------------
(***************************************************************************)
(* What the named route of an agent promises to the people who change it:  *)
(* a compare-and-set register.  An actor looks at the complete endpoint    *)
(* configuration, thinks for as long as it likes, and its decision takes   *)
(* effect only on the very configuration it looked at; otherwise it is     *)
(* dropped.  A decision replaces the version selector and nothing else.    *)
(*                                                                         *)
(* agents/travel/.../operations.py has no such register: it has a read, a  *)
(* slow preflight, a second read and an unconditional patch.  Release      *)
(* models that code and says when it implements this module.               *)
(***************************************************************************)
CONSTANTS
    Actors,     \* those who decide through the register
    Routes,     \* what a version selector may hold
    Contracts,  \* the rest of the endpoint: authorization and protocols
    Unseen      \* the view of an actor that has not looked

VARIABLES
    endpoint,   \* the endpoint configuration
    view        \* view[a]: the configuration actor a bases its decision on

Endpoints == [route : Routes, contract : Contracts]

Init ==
    /\ endpoint \in Endpoints
    /\ view = [a \in Actors |-> Unseen]

Look(a) ==
    /\ view[a] = Unseen
    /\ view' = [view EXCEPT ![a] = endpoint]
    /\ UNCHANGED endpoint

Drop(a) ==
    /\ view' = [view EXCEPT ![a] = Unseen]
    /\ UNCHANGED endpoint

Decide(a) ==
    /\ view[a] = endpoint
    /\ \E route \in Routes : endpoint' = [endpoint EXCEPT !.route = route]
    /\ view' = [view EXCEPT ![a] = Unseen]

\* Somebody who does not use the register: the portal, another tool.
Outside ==
    /\ endpoint' \in Endpoints
    /\ UNCHANGED view

Next ==
    \/ \E a \in Actors : Look(a) \/ Drop(a) \/ Decide(a)
    \/ Outside

Spec == Init /\ [][Next]_<<endpoint, view>>
=============================================================================
