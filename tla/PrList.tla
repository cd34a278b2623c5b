------------------------------- MODULE PrList -------------------------------
(***************************************************************************)
(* What a reader of the list of pull requests may rely on, said without    *)
(* the statements that write it: a list is cleared, grows row by row until *)
(* it is whole, is vouched for (last_fetched) only when whole, and does    *)
(* not change afterwards until it is cleared; a pull request shows up      *)
(* buried only after the user asked for it, at the version it was buried   *)
(* at or at a date that could not be read.                                 *)
(***************************************************************************)
EXTENDS Integers

CONSTANTS Urls, MaxVersion

VARIABLES
    prs,       \* the urls listed
    updated,   \* the version each is listed at
    buried,    \* those shown as buried
    buriedAt,  \* the version the user buried each at, or Never
    whole,     \* the list is a complete answer of GitHub
    vouched    \* last_fetched is the time of this list

listVars == <<prs, updated, buried, buriedAt, whole, vouched>>

ZeroTime == 0  \* a date that could not be read
Never == -1

Init ==
    /\ prs = {} /\ buried = {}
    /\ updated = [u \in Urls |-> 0]
    /\ buriedAt = [u \in Urls |-> Never]
    /\ whole = TRUE
    /\ vouched = FALSE

(* A new answer of GitHub, possibly an empty one, is about to be listed.   *)
Clear ==
    /\ prs' = {} /\ buried' = {}
    /\ updated' = [u \in Urls |-> 0]
    /\ whole' \in BOOLEAN
    /\ vouched' = FALSE
    /\ UNCHANGED buriedAt

Show(u, v) ==
    /\ ~whole
    /\ u \notin prs
    /\ prs' = prs \cup {u}
    /\ updated' = [updated EXCEPT ![u] = v]
    /\ \/ buried' = buried
       \/ /\ buriedAt[u] # Never /\ v \in {buriedAt[u], ZeroTime}
          /\ buried' = buried \cup {u}
    /\ whole' \in BOOLEAN
    /\ UNCHANGED <<buriedAt, vouched>>

Vouch ==
    /\ whole
    /\ vouched' = TRUE
    /\ UNCHANGED <<prs, updated, buried, buriedAt, whole>>

Bury(u) ==
    /\ u \in prs
    /\ buried' = buried \cup {u}
    /\ buriedAt' = [buriedAt EXCEPT ![u] = updated[u]]
    /\ UNCHANGED <<prs, updated, whole, vouched>>

(* An unbury that comes too late may be undone by the list being written.  *)
Unbury(u) ==
    /\ buried' = buried \ {u}
    /\ buriedAt' \in {buriedAt, [buriedAt EXCEPT ![u] = Never]}
    /\ UNCHANGED <<prs, updated, whole, vouched>>

Next ==
    \/ Clear
    \/ \E u \in Urls, v \in 0..MaxVersion : Show(u, v)
    \/ Vouch
    \/ \E u \in Urls : Bury(u) \/ Unbury(u)

Spec == Init /\ [][Next]_listVars
=============================================================================
