------------------------------- MODULE Points -------------------------------
(***************************************************************************)
(* How a pull request is ranked: StandardPrPoints of                       *)
(* internal/points/points.go, on the part of types.ViewPr it looks at.     *)
(* The reasons shown beside the points are left out.  Times are in days.   *)
(***************************************************************************)
EXTENDS Integers

CONSTANTS
    People,    \* GitHub logins
    NoOne,     \* the empty string: no PAT stored, or nobody commented
    User, Now  \* the owner of the PAT, today

ASSUME NoOneAssumption == NoOne \in People
ASSUME UserAssumption == User \in People /\ Now \in Int

(* None where the repository asks for no review. *)
ReviewStatus == {"", "APPROVED", "CHANGES_REQUESTED", "REVIEW_REQUIRED"}

Pr == [author : People, lastCommenter : People, reviewStatus : ReviewStatus,
       isDraft : BOOLEAN, threadsActionable : Nat, threadsWaiting : Nat,
       changed : Nat,    \* lines added and deleted
       reviewers : Nat,  \* how many were asked for a review
       updated : Int, buried : BOOLEAN]

(* StoreRepoPrs writes the reviewers joined by commas and Prs splits them  *)
(* again: an empty list comes back as one reviewer without a name.         *)
StoredFaithfully(pr) == pr
Stored(pr) == [pr EXCEPT !.reviewers = IF @ = 0 THEN 1 ELSE @]

----------------------------------------------------------------------------
If(condition, points) == IF condition THEN points ELSE 0

ThreadPoints(pr) ==
    If(pr.threadsActionable > 0, 80) - If(pr.threadsWaiting > 0, 10)

(* A pull request of the user's own. *)
OwnPoints(pr, username, now) ==
    If(pr.reviewStatus = "APPROVED", 100)
      + If(pr.reviewStatus = "CHANGES_REQUESTED", 50)
      + If(pr.lastCommenter # NoOne /\ pr.lastCommenter # username, 10)
      - If(pr.isDraft, 10)
      + If(pr.reviewers = 0, 10)
      + If(pr.updated < now - 14, 11)

(* Someone else's, before its size is looked at. *)
OtherPoints(pr, now) ==
    0 - If(pr.reviewStatus = "APPROVED", 100)
      - If(pr.reviewStatus = "CHANGES_REQUESTED", 100)
      - If(pr.isDraft, IF pr.updated < now - 5 THEN 70 ELSE 10)

SizePoints(changed) ==
    CASE changed < 50 -> 50
      [] changed >= 50 /\ changed < 150 -> 30
      [] changed >= 150 /\ changed <= 300 -> 20
      [] changed > 300 -> 10

(* Size only tells apart those that nothing else gives points to. *)
UnburiedPoints(pr, username, now) ==
    IF pr.author = username
    THEN ThreadPoints(pr) + OwnPoints(pr, username, now)
    ELSE LET total == ThreadPoints(pr) + OtherPoints(pr, now)
         IN  IF total = 0 THEN SizePoints(pr.changed) ELSE total

PointsWithSmallPenalty(pr, username, now) ==
    UnburiedPoints(pr, username, now) - If(pr.buried, 100)

StandardPrPoints(pr, username, now) ==
    UnburiedPoints(pr, username, now) - If(pr.buried, 1000)

----------------------------------------------------------------------------
(* The order of the page: most points first, then the last updated first.  *)
Better(p, q, username, now) ==
    LET pointsP == StandardPrPoints(p, username, now)
        pointsQ == StandardPrPoints(q, username, now)
    IN  \/ pointsP > pointsQ
        \/ pointsP = pointsQ /\ q.updated < p.updated

(* The least and the most points that are given to one not buried.         *)
LeastPoints == -180
MostPoints == 211
BuriedPenalty == 1000
=============================================================================
