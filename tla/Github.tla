------------------------------- MODULE Github -------------------------------
(***************************************************************************)
(* What elly makes of an answer of GitHub: graphqlRequest, QueryGithub,    *)
(* UsernameFromPat and ValidatePAT of internal/github/github.go, and the   *)
(* verdicts startRefreshLoop and initPAT of main.go draw from them.        *)
(*                                                                         *)
(* An answer is reduced to what these functions branch on, an error to the *)
(* sentinel errors it wraps (errors.Is and errors.As find those) and the   *)
(* ones its text merely names (fmt.Errorf with %v instead of %w).          *)
(***************************************************************************)
EXTENDS Integers

Sentinels == {"ErrClient", "ErrGithubServer", "ErrInvalidToken", "ErrRateLimited"}

(* sent: an HTTP answer came within the minute.  errors: the "errors" of   *)
(* the GraphQL body; a misshapen one has readable errors, but not the data *)
(* asked for.  retry: a header says when to come back.                     *)
Answers ==
    [sent : BOOLEAN,
     status : {200, 401, 403, 404, 502},
     body : {"json", "misshapen", "garbage"},
     errors : {"none", "RATE_LIMITED", "other"},
     retry : BOOLEAN]

Ok == [ok |-> TRUE, wraps |-> {}, names |-> {}]
Wrapping(s) == [ok |-> FALSE, wraps |-> s, names |-> s]
Naming(s) == [ok |-> FALSE, wraps |-> {}, names |-> s]

Is(result, sentinel) == sentinel \in result.wraps

----------------------------------------------------------------------------
GraphqlRequestStatusFirst(a) ==
    CASE ~a.sent -> Naming({})
      [] a.sent /\ a.status >= 500 -> Naming({"ErrGithubServer"})
      [] a.sent /\ a.status \in 400..499 -> Naming({"ErrClient"})
      [] a.sent /\ a.status < 400 /\ a.body = "garbage" -> Naming({"ErrClient"})
      [] a.sent /\ a.status < 400 /\ a.body # "garbage" /\ a.errors = "RATE_LIMITED" ->
           IF a.retry THEN Wrapping({"ErrRateLimited"}) ELSE Naming({"ErrClient"})
      [] OTHER -> Ok

(* The body is looked at before the status.  GraphQL errors other than     *)
(* RATE_LIMITED are not looked at.                                         *)
GraphqlRequest(a) ==
    CASE ~a.sent -> Naming({})
      [] a.sent /\ a.body = "garbage" -> Naming({"ErrClient"})
      [] a.sent /\ a.body # "garbage" /\ a.errors = "RATE_LIMITED" ->
           IF a.retry THEN Wrapping({"ErrRateLimited"}) ELSE Naming({"ErrClient"})
      [] a.sent /\ a.body # "garbage" /\ a.errors # "RATE_LIMITED" /\ a.status >= 500 ->
           Naming({"ErrGithubServer"})
      [] a.sent /\ a.body # "garbage" /\ a.errors # "RATE_LIMITED"
            /\ a.status \in 400..499 -> Naming({"ErrClient"})
      [] OTHER -> Ok

(* queryGithub wraps the error it gets, then reads the data.               *)
QueryGithub(a) ==
    LET result == GraphqlRequest(a)
    IN  IF result.ok /\ a.body # "json" THEN Wrapping({}) ELSE result

(* The status is looked at before the body here, and every error wraps.    *)
UsernameFromPat(a) ==
    CASE ~a.sent -> Wrapping({})
      [] a.sent /\ a.status \in {401, 403} -> Wrapping({"ErrInvalidToken"})
      [] a.sent /\ a.status = 404 -> Wrapping({"ErrClient"})
      [] a.sent /\ a.status >= 500 -> Wrapping({"ErrGithubServer"})
      [] a.sent /\ a.status < 400 /\ a.body # "json" -> Wrapping({})
      [] a.sent /\ a.status < 400 /\ a.body = "json" /\ a.errors # "none" ->
           Wrapping({"ErrClient"})
      [] OTHER -> Ok

(* ValidatePAT asks for the user name and then for the pull requests.      *)
ValidatePATAnyClientError(a, b) ==
    LET user == UsernameFromPat(a)
        query == QueryGithub(b)
    IN  CASE ~user.ok -> user
          [] user.ok /\ ~query.ok -> Wrapping({"ErrInvalidToken"} \cup query.wraps)
          [] OTHER -> Ok

ValidatePAT(a, b) ==
    LET user == UsernameFromPat(a)
        query == QueryGithub(b)
    IN  CASE ~user.ok -> user
          [] user.ok /\ ~query.ok /\ Is(query, "ErrClient")
               /\ ~Is(query, "ErrRateLimited") ->
               Wrapping({"ErrInvalidToken"} \cup query.wraps)
          [] user.ok /\ ~query.ok /\ (\/ ~Is(query, "ErrClient")
                                      \/ Is(query, "ErrRateLimited")) -> query
          [] OTHER -> Ok

----------------------------------------------------------------------------
(* startRefreshLoop: what becomes of a query.                              *)
LoopVerdict(a) ==
    LET result == QueryGithub(a)
    IN  CASE result.ok -> "succeeded"
          [] ~result.ok /\ Is(result, "ErrRateLimited") -> "rateLimited"
          [] ~result.ok /\ ~Is(result, "ErrRateLimited") /\ Is(result, "ErrClient") ->
               "givingUp"
          [] ~result.ok /\ result.wraps \cap {"ErrRateLimited", "ErrClient"} = {}
               /\ Is(result, "ErrGithubServer") -> "serverErrored"
          [] OTHER -> "skipped"

(* initPAT: what becomes of the stored PAT.                                *)
PatVerdict(a, b) ==
    LET result == ValidatePAT(a, b)
    IN  CASE result.ok -> "valid"
          [] ~result.ok /\ Is(result, "ErrInvalidToken") -> "cleared"
          [] OTHER -> "assumed valid"
=============================================================================
