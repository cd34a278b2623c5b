------------------------------- MODULE Ranking -------------------------------
(***************************************************************************)
(* The two ways the list of pull requests is ranked and shown: the page    *)
(* (GET /) and the API (GET /api/v0/prs) of internal/server/server.go.     *)
(* Both sort with sort.Slice, which is an insertion sort for up to 12      *)
(* elements; it calls less with positions in the slice as sorted so far.   *)
(***************************************************************************)
EXTENDS Points, FiniteSets, Sequences, SequencesExt

CONSTANTS
    Samples,    \* pull requests GitHub may answer with
    MaxPrs,     \* bound on how many, at most 12
    MinPoints   \* values of the query parameter minPoints

ASSUME SamplesAssumption == Samples \subseteq Pr
ASSUME MaxPrsAssumption == MaxPrs \in 1..12
ASSUME MinPointsAssumption == MinPoints \subseteq Int

VARIABLES
    fetched,  \* what GitHub answered
    stored,   \* storedPrs: the rows, as Prs reads them
    ranked,   \* the slice being sorted, then shown
    minimum,  \* minimumPoints
    phase,    \* what was last done: "empty", "stored", "sorting", "shown"
    by,       \* which of the two the list is shown by
    i, j      \* the insertion sort's indices, from 1

rankVars == <<fetched, stored, ranked, minimum, phase, by, i, j>>

Total(pr) == StandardPrPoints(pr, User, Now)

DefaultMinimum == -999

ParsedMinimumUnchecked(n) == n

(* "minPoints": out of range is ignored. *)
ParsedMinimum(n) == IF n \in -999..999 THEN n ELSE DefaultMinimum

TypeOK ==
    /\ fetched \in Seq(Pr) /\ stored \in Seq(Pr) /\ ranked \in Seq(Pr)
    /\ minimum \in -999..999
    /\ phase \in {"empty", "stored", "sorting", "shown"}
    /\ by \in {"nothing", "page", "api"}
    /\ i \in 1..(MaxPrs + 1) /\ j \in 1..(MaxPrs + 1)

Init ==
    /\ fetched = <<>> /\ stored = <<>> /\ ranked = <<>>
    /\ minimum = DefaultMinimum
    /\ phase = "empty" /\ by = "nothing"
    /\ i = 1 /\ j = 1

(* StoreRepoPrs, in no particular order and with any marks, see PrStore.   *)
Store(prs) ==
    /\ phase = "empty"
    /\ fetched' = prs
    /\ stored' = [k \in 1..Len(prs) |-> Stored(prs[k])]
    /\ phase' = "stored"
    /\ UNCHANGED <<ranked, minimum, by, i, j>>

StartSort(prs, shownBy) ==
    /\ ranked' = prs
    /\ by' = shownBy
    /\ phase' = "sorting"
    /\ i' = 2 /\ j' = 2
    /\ UNCHANGED <<fetched, stored>>

GetPage ==
    /\ phase = "stored"
    /\ StartSort(stored, "page")
    /\ UNCHANGED minimum

(* The loop that keeps the elements at these positions. *)
Kept(prs, positions) ==
    LET kept[k \in 0..Len(prs)] ==
            IF k = 0 THEN <<>>
            ELSE IF k \in positions THEN Append(kept[k - 1], prs[k]) ELSE kept[k - 1]
    IN  kept[Len(prs)]

(* n is the parsed query parameter, or anything out of range when absent.  *)
GetPrsOfUnburiedPoints(n) ==
    /\ phase = "stored"
    /\ minimum' = ParsedMinimum(n)
    /\ StartSort(Kept(stored, {k \in DOMAIN stored :
            UnburiedPoints(stored[k], User, Now) >= ParsedMinimum(n)}), "api")

GetPrsAboveMinimum(n) ==
    /\ phase = "stored"
    /\ minimum' = ParsedMinimum(n)
    /\ StartSort(Kept(stored, {k \in DOMAIN stored :
            Total(stored[k]) > ParsedMinimum(n)}), "api")

GetPrs(n) ==
    /\ phase = "stored"
    /\ minimum' = ParsedMinimum(n)
    /\ StartSort(Kept(stored, {k \in DOMAIN stored :
            Total(stored[k]) >= ParsedMinimum(n)}), "api")

(* The page's less looks at the slice it sorts, the API's at storedPrs,    *)
(* which stays in the order of the rows.                                   *)
LessOnRows(a, b) == Better(stored[a], stored[b], User, Now)
Less(a, b) ==
    LET looksAt == IF by = "page" THEN ranked ELSE stored
    IN  Better(looksAt[a], looksAt[b], User, Now)

MustSwap == j > 1 /\ Less(j, j - 1)

SwapDown ==
    /\ phase = "sorting" /\ i <= Len(ranked)
    /\ MustSwap
    /\ ranked' = [ranked EXCEPT ![j] = ranked[j - 1], ![j - 1] = ranked[j]]
    /\ j' = j - 1
    /\ UNCHANGED <<fetched, stored, minimum, phase, by, i>>

NextElement ==
    /\ phase = "sorting" /\ i <= Len(ranked)
    /\ ~MustSwap
    /\ i' = i + 1 /\ j' = i + 1
    /\ UNCHANGED <<fetched, stored, minimum, ranked, phase, by>>

Show ==
    /\ phase = "sorting" /\ i > Len(ranked)
    /\ phase' = "shown"
    /\ UNCHANGED <<fetched, stored, minimum, ranked, by, i, j>>

Done == phase = "shown" /\ UNCHANGED rankVars

Next ==
    \/ \E prs \in BoundedSeq(Samples, MaxPrs) : Store(prs)
    \/ GetPage
    \/ \E n \in MinPoints : GetPrs(n)
    \/ SwapDown
    \/ NextElement
    \/ Show
    \/ Done

Spec == Init /\ [][Next]_rankVars

----------------------------------------------------------------------------
Shown(how) == phase = "shown" /\ by = how

(* No element has a better one behind it. *)
InOrder(prs) ==
    \A a, b \in 1..Len(prs) : a < b => ~Better(prs[b], prs[a], User, Now)

(* How often e is in a list. *)
Times(e, list) == Cardinality({k \in DOMAIN list : list[k] = e})

(* The page has every pull request once, in prioritized order, whatever    *)
(* the order of the rows.                                                  *)
PageIsRanked ==
    Shown("page") =>
        /\ InOrder(ranked)
        /\ Len(ranked) = Len(stored)
        /\ \A pr \in ToSet(stored) : Times(pr, ranked) = Times(pr, stored)

(* "just put them at the bottom of the prio list" (ADR-0006): on the page  *)
(* no combination of rules lifts a buried one above one that is not.       *)
BuriedAtTheBottom ==
    Shown("page") =>
        \A a, b \in 1..Len(ranked) :
            a < b /\ ranked[a].buried => ranked[b].buried

(* The i3blocks count asks for minPoints=1 and must leave out what is      *)
(* buried (ADR-0005); no limit above the most a buried one can have may    *)
(* let one in.                                                             *)
BuriedIsNotCounted ==
    Shown("api") /\ minimum > MostPoints - BuriedPenalty =>
        \A a \in 1..Len(ranked) : ~ranked[a].buried

(* The API sorts by rows that stay where they were, and so in no order one *)
(* could name; still it has every pull request with enough points once,    *)
(* and no other.  i3blocks counts them.                                    *)
ApiHasTheWorthy ==
    Shown("api") =>
        \A pr \in ToSet(stored) \cup ToSet(ranked) :
            Times(pr, ranked) = IF Total(pr) >= minimum THEN Times(pr, stored) ELSE 0

----------------------------------------------------------------------------
(* What the documentation says, and the code does not do.                  *)

(* README: "presented in a prioritized order, via a keyboard driven web    *)
(* GUI & API".                                                             *)
ApiIsRanked == Shown("api") => InOrder(ranked)
=============================================================================
