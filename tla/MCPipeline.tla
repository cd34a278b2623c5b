----------------------------- MODULE MCPipeline -----------------------------
(***************************************************************************)
(* Pipeline with lists of the sample pull requests, and a pull request of  *)
(* the user or of someone else, or an old draft of either, that people     *)
(* talk about.                                                             *)
(***************************************************************************)
EXTENDS Pipeline, SamplePrs

MCPeople == {"", "me", "you", "bot"}

MCGood == [sent |-> TRUE, status |-> 200, body |-> "json", errors |-> "none",
           retry |-> FALSE]

MCZeroTime == -1000

Quiet == [author |-> "you", comments |-> <<>>, reviewDecision |-> "REVIEW_REQUIRED",
          approved |-> FALSE, isDraft |-> FALSE, reviewRequests |-> 1,
          changed |-> 10, updatedAt |-> -1, readable |-> TRUE, threads |-> <<>>]

(* One without a decision nor a reviewer, and one of an unreadable date.   *)
MCNodes ==
    {Quiet, [Quiet EXCEPT !.isDraft = TRUE, !.updatedAt = -20],
     [Quiet EXCEPT !.author = "me", !.isDraft = TRUE, !.updatedAt = -20],
     [Quiet EXCEPT !.author = "me", !.reviewDecision = "", !.approved = TRUE,
                   !.reviewRequests = 0, !.readable = FALSE]}
=============================================================================
