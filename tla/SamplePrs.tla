----------------------------- MODULE SamplePrs ------------------------------
(***************************************************************************)
(* Pull requests to rank, for TLC: of the user and of someone else,        *)
(* approved or not, old or new, buried or not, and those with the least    *)
(* and the most points there are.                                          *)
(***************************************************************************)
EXTENDS Integers

Plain == [author |-> "you", lastCommenter |-> "", reviewStatus |-> "REVIEW_REQUIRED",
          isDraft |-> FALSE, threadsActionable |-> 0, threadsWaiting |-> 0,
          changed |-> 100, reviewers |-> 1, updated |-> 0, buried |-> FALSE]

Common ==
    {[Plain EXCEPT !.author = a, !.reviewStatus = s, !.updated = t, !.buried = b] :
        a \in {"me", "you"}, s \in {"APPROVED", "REVIEW_REQUIRED"},
        t \in {-20, 0}, b \in BOOLEAN}

Least == [Plain EXCEPT !.reviewStatus = "CHANGES_REQUESTED", !.isDraft = TRUE,
                       !.threadsWaiting = 1, !.updated = -20]

Most == [Plain EXCEPT !.author = "me", !.reviewStatus = "APPROVED",
                      !.threadsActionable = 1, !.lastCommenter = "you",
                      !.reviewers = 0, !.updated = -20]

Extremes == {[pr EXCEPT !.buried = b] : pr \in {Least, Most}, b \in BOOLEAN}

MCSamples == Common \cup Extremes

(* Absent (out of range), the default, just above the most a buried pull   *)
(* request has, what i3blocks asks for, and just what an approved one of   *)
(* the user's has.                                                         *)
MCMinPoints == {-1000, -999, -788, 1, 100}
=============================================================================
