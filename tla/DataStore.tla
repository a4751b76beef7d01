------------------------------ MODULE DataStore ------------------------------
(***************************************************************************)
(* CanonicalDataStore of the support agent: calls of one process look for  *)
(* the database outside a lock, build it under the lock when it is not     *)
(* there, check its digest when one is expected, and open a connection.    *)
(* The build (foundry/data/build.py) unlinks, creates the file with its    *)
(* tables, and commits the rows in a transaction of its own.               *)
(***************************************************************************)
EXTENDS Naturals

CONSTANTS Calls,            \* calls of connect in flight
          CanBuild,         \* spine_config, seed_dir and fixtures_dir are given
          ExpectsDigest,    \* expected_sha256 is given
          MaxInterruptions, \* bound on failed builds and restarts
          Nobody            \* the lock is free

ASSUME SettingsAssumption == CanBuild \in BOOLEAN /\ ExpectsDigest \in BOOLEAN
ASSUME NobodyAssumption == Nobody \notin Calls
ASSUME InterruptionsAssumption == MaxInterruptions \in Nat

(* What is at database_path: nothing, the tables and not yet their rows,
   the whole spine, or some other file that was packaged by mistake. *)
Files == {"absent", "tables", "spine", "other"}

VARIABLES
    file,           \* what is at database_path
    lock,           \* the holder of _build_lock
    pc,             \* the step each call is at
    opened,         \* what each open connection was opened on
    builds,         \* history: builds that were started
    interruptions   \* history: builds that failed and restarts

vars == <<file, lock, pc, opened, builds, interruptions>>

Steps == {"idle", "look", "acquire", "recheck", "unlink", "create", "insert",
          "release", "verify", "open", "connected"}

(* Where a call holds the lock. *)
Locked == {"recheck", "unlink", "create", "insert", "release"}

Init ==
    /\ file \in {"absent", "spine", "other"}
    /\ lock = Nobody
    /\ pc = [c \in Calls |-> "idle"]
    /\ opened = [c \in Calls |-> "absent"]
    /\ builds = 0
    /\ interruptions = 0

Goto(c, step) == pc' = [pc EXCEPT ![c] = step]

Connect(c) ==
    /\ pc[c] = "idle"
    /\ Goto(c, "look")
    /\ UNCHANGED <<file, lock, opened, builds, interruptions>>

(* is_file without the lock; FileNotFoundError when it cannot be built *)
Look(c) ==
    /\ pc[c] = "look"
    /\ Goto(c, IF file # "absent" THEN "verify"
               ELSE IF CanBuild THEN "acquire" ELSE "idle")
    /\ UNCHANGED <<file, lock, opened, builds, interruptions>>

Acquire(c) ==
    /\ pc[c] = "acquire"
    /\ lock = Nobody
    /\ lock' = c
    /\ Goto(c, "recheck")
    /\ UNCHANGED <<file, opened, builds, interruptions>>

\* Mutant of Recheck: the file is not looked for again under the lock.
RecheckNever(c) ==
    /\ pc[c] = "recheck"
    /\ Goto(c, "unlink")
    /\ builds' = builds + 1
    /\ UNCHANGED <<file, lock, opened, interruptions>>

Recheck(c) ==
    /\ pc[c] = "recheck"
    /\ Goto(c, IF file # "absent" THEN "release" ELSE "unlink")
    /\ builds' = IF file # "absent" THEN builds ELSE builds + 1
    /\ UNCHANGED <<file, lock, opened, interruptions>>

Unlink(c) ==
    /\ pc[c] = "unlink"
    /\ file' = "absent"
    /\ Goto(c, "create")
    /\ UNCHANGED <<lock, opened, builds, interruptions>>

CreateTables(c) ==
    /\ pc[c] = "create"
    /\ file' = "tables"
    /\ Goto(c, "insert")
    /\ UNCHANGED <<lock, opened, builds, interruptions>>

InsertRows(c) ==
    /\ pc[c] = "insert"
    /\ file' = "spine"
    /\ Goto(c, "release")
    /\ UNCHANGED <<lock, opened, builds, interruptions>>

(* Generation, the disk or a constraint makes the build raise. *)
FailBuild(c) ==
    /\ pc[c] \in {"unlink", "create", "insert"}
    /\ interruptions < MaxInterruptions
    /\ interruptions' = interruptions + 1
    /\ lock' = Nobody
    /\ Goto(c, "idle")
    /\ UNCHANGED <<file, opened, builds>>

Unlock(c) ==
    /\ pc[c] = "release"
    /\ lock' = Nobody
    /\ Goto(c, "verify")
    /\ UNCHANGED <<file, opened, builds, interruptions>>

Verify(c) ==
    /\ pc[c] = "verify"
    /\ Goto(c, IF ExpectsDigest /\ file # "spine" THEN "idle" ELSE "open")
    /\ UNCHANGED <<file, lock, opened, builds, interruptions>>

(* A read-only open of a file that is not there raises. *)
Open(c) ==
    /\ pc[c] = "open"
    /\ opened' = [opened EXCEPT ![c] = file]
    /\ Goto(c, IF file = "absent" THEN "idle" ELSE "connected")
    /\ UNCHANGED <<file, lock, builds, interruptions>>

Close(c) ==
    /\ pc[c] = "connected"
    /\ opened' = [opened EXCEPT ![c] = "absent"]
    /\ Goto(c, "idle")
    /\ UNCHANGED <<file, lock, builds, interruptions>>

(* The process dies and comes back; the file stays as it was. *)
Restart ==
    /\ interruptions < MaxInterruptions
    /\ interruptions' = interruptions + 1
    /\ lock' = Nobody
    /\ pc' = [c \in Calls |-> "idle"]
    /\ opened' = [c \in Calls |-> "absent"]
    /\ UNCHANGED <<file, builds>>

Step(c) ==
    \/ Look(c) \/ Acquire(c) \/ Recheck(c) \/ Unlink(c) \/ CreateTables(c)
    \/ InsertRows(c) \/ Unlock(c) \/ Verify(c) \/ Open(c) \/ Close(c)

Next ==
    \/ \E c \in Calls : Connect(c) \/ Step(c) \/ FailBuild(c)
    \/ Restart

Spec == Init /\ [][Next]_vars

(* Threads are scheduled fairly; threading.Lock promises nothing about who
   gets it, and nothing is assumed. *)
FairSpec == Spec /\ \A c \in Calls : WF_vars(Step(c))

-----------------------------------------------------------------------------
(* Properties *)

TypeOK ==
    /\ file \in Files
    /\ lock \in Calls \cup {Nobody}
    /\ pc \in [Calls -> Steps]
    /\ opened \in [Calls -> Files]
    /\ builds \in Nat
    /\ interruptions \in 0 .. MaxInterruptions

(* With a digest no tool call ever reads anything but the whole spine, however
   many calls race for the first build and whatever a crash left behind. *)
ConnectionsAreVerified ==
    ExpectsDigest => \A c \in Calls : pc[c] = "connected" => opened[c] = "spine"

(* The class comment: "Build the immutable synthetic spine once and open a
   connection per call."  Without interruptions the spine is built at most
   once, and it takes an interruption to pay for another build. *)
BuiltOnce == builds <= 1 + interruptions

(* Every connection reads a whole spine, and only an interruption makes anyone
   build it twice. *)
StoreIsSound == ConnectionsAreVerified /\ BuiltOnce

(* A spine that is there is never unlinked or written again, not even by a
   call that saw no file, waited for the lock and got it late. *)
SpineIsImmutable == [][file = "spine" => file' = "spine"]_vars

(* Every call of connect returns or raises: the lock is always given back. *)
CallEnds(c) == pc[c] = "look" ~> pc[c] \in {"connected", "idle"}
EveryCallEnds == \A c \in Calls : CallEnds(c)
=============================================================================
