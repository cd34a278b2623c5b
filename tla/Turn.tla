-------------------------------- MODULE Turn --------------------------------
(***************************************************************************)
(* Whose turn it is in one review thread, told by what people do and not   *)
(* by looking at the comments: what the reader of the page is promised.    *)
(*                                                                         *)
(* On the user's own pull request everybody's comment is for the user to   *)
(* answer or to acknowledge, and so is a reaction to the user's last word. *)
(* On another's, only the threads the user has started are.                *)
(***************************************************************************)
EXTENDS Naturals

CONSTANTS Limit, ReactionLimit  \* the comments that are looked at, and the
                                \* reactions to each

VARIABLES
    own,     \* it is the user's own pull request
    started, \* the user wrote the first comment
    last,    \* the user wrote the last comment that is looked at
    length,  \* how many are looked at
    noticed, \* how many reactions to the last one are looked at
    turn,    \* whose turn it is: "nothing", "actionable", "waiting"
    open,    \* neither resolved, outdated nor collapsed
    told     \* what is told: the turn, when open

turnVars == <<own, started, last, length, noticed, turn, open, told>>

Init ==
    /\ own \in BOOLEAN
    /\ started = FALSE /\ last = FALSE /\ length = 0 /\ noticed = 0
    /\ turn = "nothing" /\ open = TRUE /\ told = "nothing"

Tell == told' = IF open' THEN turn' ELSE "nothing"

MyComment ==
    /\ length < Limit
    /\ length' = length + 1
    /\ started' = (started \/ length = 0)
    /\ last' = TRUE /\ noticed' = 0
    /\ turn' = IF own THEN "nothing" ELSE "waiting"
    /\ Tell
    /\ UNCHANGED <<own, open>>

TheirComment ==
    /\ length < Limit
    /\ length' = length + 1
    /\ last' = FALSE /\ noticed' = 0
    /\ turn' = IF own \/ started THEN "actionable" ELSE "nothing"
    /\ Tell
    /\ UNCHANGED <<own, started, open>>

(* To the last comment, of which only the first reactions are looked at:   *)
(* behind them neither is anything acknowledged nor is anybody called.     *)
Notice ==
    /\ length > 0 /\ noticed < ReactionLimit
    /\ noticed' = noticed + 1

(* To one's own comment it acknowledges nothing.                           *)
MyReaction ==
    /\ Notice
    /\ turn' = IF last THEN turn ELSE "nothing"
    /\ Tell
    /\ UNCHANGED <<own, started, last, length, open>>

TheirReaction ==
    /\ Notice
    /\ turn' = IF own /\ last THEN "actionable" ELSE turn
    /\ Tell
    /\ UNCHANGED <<own, started, last, length, open>>

OpenOrShut ==
    /\ length > 0
    /\ open' = ~open
    /\ Tell
    /\ UNCHANGED <<own, started, last, length, noticed, turn>>

Next ==
    MyComment \/ TheirComment \/ MyReaction \/ TheirReaction \/ OpenOrShut

Spec == Init /\ [][Next]_turnVars
=============================================================================
