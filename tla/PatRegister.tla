----------------------------- MODULE PatRegister -----------------------------
(***************************************************************************)
(* What the storage of PATs promises, said without its rows: a register.   *)
(* Storing a PAT replaces the one before at once, or fails and changes     *)
(* nothing; it is cleared only when that was asked for; and a process that *)
(* dies takes its requests along, but not what is stored.                  *)
(***************************************************************************)
CONSTANTS Tokens, None, Callers

VARIABLES
    current,   \* the PAT everyone reads, or None
    offered,   \* the PAT each caller is storing or has stored, or None
    answered,  \* the callers whose PAT was stored
    clearing   \* somebody asked for the PAT to be cleared

registerVars == <<current, offered, answered, clearing>>

Init ==
    /\ current = None
    /\ offered = [c \in Callers |-> None]
    /\ answered = {}
    /\ clearing = FALSE

Offer(c, t) ==
    /\ offered[c] = None
    /\ offered' = [offered EXCEPT ![c] = t]
    /\ UNCHANGED <<current, answered, clearing>>

Store(c) ==
    /\ offered[c] # None /\ c \notin answered
    /\ current' = offered[c]
    /\ answered' = answered \cup {c}
    /\ UNCHANGED <<offered, clearing>>

(* The request ends, with its PAT stored or not.                           *)
End(c) ==
    /\ offered' = [offered EXCEPT ![c] = None]
    /\ answered' = answered \ {c}
    /\ UNCHANGED <<current, clearing>>

Ask == clearing' = TRUE /\ UNCHANGED <<current, offered, answered>>

Clear ==
    /\ clearing
    /\ current' \in {None, current}
    /\ clearing' = FALSE
    /\ UNCHANGED <<offered, answered>>

Die ==
    /\ offered' = [c \in Callers |-> None]
    /\ answered' = {}
    /\ clearing' = FALSE
    /\ UNCHANGED current

Next ==
    \/ \E c \in Callers : Store(c) \/ End(c) \/ \E t \in Tokens : Offer(c, t)
    \/ Ask
    \/ Clear
    \/ Die

Spec == Init /\ [][Next]_registerVars
=============================================================================
