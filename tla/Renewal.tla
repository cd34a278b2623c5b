------------------------------ MODULE Renewal ------------------------------
(***************************************************************************)
(* How a list is replaced by a newer one, said without rows, requests or   *)
(* the clock: it is taken from GitHub, the old one goes, the new one grows *)
(* until it is whole, and only then last_fetched says that it is up to     *)
(* date.  Both models of StoreRepoPrs implement it: PrStore, which has its *)
(* statements, and Daemon, which has the loop around it.                   *)
(***************************************************************************)
EXTENDS Integers

VARIABLES
    at,     \* "idle", a new list is "taken" from GitHub, or it is "filling"
    whole,  \* the stored list is a complete answer of GitHub
    age     \* how far last_fetched is behind, by whatever it is told

renewalVars == <<at, whole, age>>

Init == at = "idle" /\ whole = TRUE /\ age >= 0

(* Nothing but a stamp makes the list young again.                         *)
GrowOld ==
    /\ age' >= age
    /\ UNCHANGED <<at, whole>>

Take ==
    /\ at = "idle" /\ at' = "taken"
    /\ age' >= age
    /\ UNCHANGED whole

(* An empty list is whole at once.                                         *)
Empty ==
    /\ at = "taken" /\ at' = "filling"
    /\ whole' \in BOOLEAN
    /\ UNCHANGED age

Insert ==
    /\ at = "filling" /\ ~whole
    /\ whole' \in BOOLEAN
    /\ UNCHANGED <<at, age>>

Stamp ==
    /\ at = "filling" /\ at' = "idle"
    /\ whole' = TRUE
    /\ age' = 0

(* A statement fails or the process dies.  An incomplete list stays behind *)
(* under the stamp of the list before it; one left before the old list     *)
(* went, or after the new one was whole, is complete.                      *)
GiveUp ==
    /\ at # "idle" /\ at' = "idle"
    /\ whole' = whole \/ (at = "filling" /\ whole' = TRUE)
    /\ UNCHANGED age

Next == GrowOld \/ Take \/ Empty \/ Insert \/ Stamp \/ GiveUp

Spec == Init /\ [][Next]_renewalVars
=============================================================================
