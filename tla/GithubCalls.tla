----------------------------- MODULE GithubCalls -----------------------------
(***************************************************************************)
(* The calls of Github, each against any answers: a query of the refresh   *)
(* loop, or the two requests that validate a PAT.                          *)
(***************************************************************************)
EXTENDS Github

CONSTANT NoAnswer
ASSUME NoAnswerAssumption == NoAnswer \notin Answers

VARIABLES
    call,     \* "none", "query" or "validate"
    user,     \* the answer to the user name request
    query,    \* the answer to the pull request query
    verdict

callVars == <<call, user, query, verdict>>

Open == verdict = "open"

CallsInit == call = "none" /\ user = NoAnswer /\ query = NoAnswer /\ verdict = "open"

Start(c) ==
    /\ call = "none"
    /\ call' = c
    /\ UNCHANGED <<user, query, verdict>>

(* The pull requests are only asked for once the user name is known; an    *)
(* error ends the validation.                                              *)
UserAnswered(a) ==
    /\ call = "validate" /\ user = NoAnswer
    /\ user' = a
    /\ verdict' = IF UsernameFromPat(a).ok THEN "open" ELSE PatVerdict(a, a)
    /\ UNCHANGED <<call, query>>

QueryAnswered(a) ==
    /\ Open /\ query = NoAnswer
    /\ call = "query" \/ (call = "validate" /\ user # NoAnswer)
    /\ query' = a
    /\ verdict' = IF call = "query" THEN LoopVerdict(a) ELSE PatVerdict(user, a)
    /\ UNCHANGED <<call, user>>

Finished == ~Open /\ UNCHANGED callVars

CallsNext ==
    \/ \E c \in {"query", "validate"} : Start(c)
    \/ \E a \in Answers : UserAnswered(a) \/ QueryAnswered(a)
    \/ Finished

CallsSpec == CallsInit /\ [][CallsNext]_callVars

----------------------------------------------------------------------------
(* GitHub answers 401 or 403, whatever else the answer says: the code      *)
(* looks no further, so that a rate limit or garbage that comes with a 403 *)
(* is taken for a refused PAT, which the comment at main.go:133 ("rate     *)
(* limit ... keep the PAT") does not expect.                               *)
Denied(a) == a.sent /\ a.status \in {401, 403}

(* A stored PAT is thrown away exactly when the user name was asked for    *)
(* with it and GitHub answered 401 or 403.  Nothing else clears it: not an *)
(* outage, not a timeout, not a rate limit told in a body of status 200 or *)
(* 404, and no answer at all to the query that follows.                    *)
OnlyDeniedIsCleared ==
    call = "validate" /\ ~Open => (verdict = "cleared" <=> Denied(user))

(* A rate limit that says when to come back is told from every other       *)
(* failure, whatever status the answer has, so that the loop backs off and *)
(* does not give up.                                                       *)
RateLimitIsRecognised ==
    call = "query" /\ query # NoAnswer =>
        (verdict = "rateLimited" <=> /\ query.sent
                                     /\ query.body # "garbage"
                                     /\ query.errors = "RATE_LIMITED"
                                     /\ query.retry)

----------------------------------------------------------------------------
(* What comments say, and the code does not do.                            *)

(* "ServerErrored handles a server error: 1.5x backoff".                   *)
ServerErrorsBackOff ==
    (call = "query" /\ query # NoAnswer) =>
        (query.sent /\ query.status >= 500 /\ query.errors # "RATE_LIMITED"
            => verdict = "serverErrored")
=============================================================================
