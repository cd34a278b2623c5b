------------------------------- MODULE Daemon -------------------------------
(***************************************************************************)
(* The elly process: startRefreshLoop and initPAT of main.go, the tracker  *)
(* (module Tracker), the answers of GitHub (module Github), what the       *)
(* database keeps across restarts, and the HTTP requests that change any   *)
(* of it (internal/server/server.go).                                      *)
(*                                                                         *)
(* The database is reduced to what the loop decides by: whether a PAT is   *)
(* active, how long a stored rate limit still runs, the age of             *)
(* last_fetched, and whether the list is whole (PrStore has the details).  *)
(*                                                                         *)
(* A tick of the clock is at least a second, the resolution of the times   *)
(* in the database.  Only a request to GitHub takes ticks.  When Prompt,   *)
(* the clock stands still while the program has anything else to do.       *)
(***************************************************************************)
EXTENDS Github

CONSTANTS
    BaseInterval, Unit,  \* of the tracker
    MaxDelay,            \* bound on the ticks GitHub takes, a minute in the code
    MaxLimit,            \* bound on how long a rate limit lasts, in ticks
    MaxFailures,         \* bound on crashes and failing statements
    Replies,             \* the answers GitHub gives
    HttpRequests,        \* the requests users make
    EnvPat,              \* whether GITHUB_PAT may be set when the process starts
    Prompt

ASSUME PaceAssumption == BaseInterval \in Nat \ {0} /\ Unit \in Nat /\ Unit >= 2
ASSUME DelayAssumption == MaxDelay \in Nat /\ MaxLimit \in Nat \ {0}
ASSUME FailuresAssumption == MaxFailures \in Nat
ASSUME RepliesAssumption == Replies \subseteq Answers
ASSUME RequestsAssumption == HttpRequests \subseteq {"refresh", "put", "delete"}
ASSUME SwitchesAssumption == EnvPat \subseteq BOOLEAN /\ Prompt \in BOOLEAN

VARIABLES
    multiplier, consecutiveOK, pc, timer, c, refresh, done,  \* the tracker
    proc,      \* the process: "down", in initPAT ("env", "stored"), or "up"
    loop,      \* what startRefreshLoop does next
    elapsed,   \* ticks since the request to GitHub was sent
    put, del,  \* the handlers of PUT and DELETE /api/v0/config/pat
    pat,       \* database: there is an active PAT
    limit,     \* database: ticks until rate_limit_until, 0 if none or passed
    age,       \* database: ticks since last_fetched, saturates at AgeCap
    whole,     \* database: table prs holds all of a list
    failures,  \* how many there were
    fresh,     \* history: a PAT was put that no query has used yet
    blind      \* history: the age gate was last passed without the age

Polling == INSTANCE Tracker

trackerVars == <<multiplier, consecutiveOK, pc, timer, c, refresh, done>>
database == <<pat, limit, age, whole>>
handlers == <<put, del>>
history == <<fresh, blind>>
daemonVars == <<trackerVars, proc, loop, elapsed, handlers, database, failures, history>>

AtMost(bound, n) == IF n > bound THEN bound ELSE n
AgeCap == 2 * BaseInterval + MaxDelay + 1

TypeOK ==
    /\ Polling!TypeOK
    /\ proc \in {"down", "env", "stored", "up"}
    /\ loop \in {"tick", "query", "limit", "store", "fill", "ended"}
    /\ elapsed \in 0..(2 * MaxDelay)
    /\ put \in {"none", "validating", "refreshing"}
    /\ del \in {"none", "stopping"}
    /\ pat \in BOOLEAN /\ whole \in BOOLEAN
    /\ fresh \in BOOLEAN /\ blind \in BOOLEAN
    /\ limit \in 0..MaxLimit
    /\ age \in 0..AgeCap
    /\ failures \in 0..MaxFailures

Init ==
    /\ Polling!Init
    /\ proc = "down" /\ loop = "tick" /\ elapsed = 0
    /\ put = "none" /\ del = "none"
    /\ pat = FALSE /\ limit = 0 /\ age = AgeCap /\ whole = TRUE
    /\ failures = 0
    /\ fresh = FALSE /\ blind = FALSE

MayFail == failures < MaxFailures
Fail == MayFail /\ failures' = failures + 1

----------------------------------------------------------------------------
(* main and initPAT.  Nothing else runs before initPAT has returned.       *)

Start(env) ==
    /\ proc = "down"
    /\ proc' = IF env THEN "env" ELSE "stored"
    /\ UNCHANGED <<trackerVars, loop, elapsed, handlers, database, failures, history>>

ValidateEnv(a, b) ==
    LET valid == PatVerdict(a, b) = "valid"
    IN  /\ proc = "env"
        /\ pat' = (pat \/ valid)
        /\ proc' = IF valid THEN "up" ELSE "stored"
        /\ elapsed' = 0
        /\ UNCHANGED <<trackerVars, loop, handlers, limit, age, whole, failures, history>>

(* Setup mode when there is none, or when it is cleared now.               *)
ValidateStored(a, b) ==
    /\ proc = "stored"
    /\ pat' = (pat /\ PatVerdict(a, b) # "cleared")
    /\ proc' = "up"
    /\ elapsed' = 0
    /\ UNCHANGED <<trackerVars, loop, handlers, limit, age, whole, failures, history>>

(* The PAT cannot be read or cleared: it stays.  When the one of the       *)
(* environment cannot be stored, the process exits.                        *)
InitFails ==
    /\ proc \in {"env", "stored"}
    /\ proc' = IF proc = "env" THEN "down" ELSE "up"
    /\ elapsed' = 0
    /\ Fail
    /\ UNCHANGED <<trackerVars, loop, handlers, database, history>>

(* What is not in the database is lost.                                    *)
Crash ==
    /\ proc # "down"
    /\ proc' = "down"
    /\ multiplier' = Unit /\ consecutiveOK' = 0
    /\ pc' = "first" /\ timer' = 0 /\ c' = 0 /\ refresh' = 0 /\ done' = FALSE
    /\ loop' = "tick" /\ elapsed' = 0 /\ put' = "none" /\ del' = "none"
    /\ fresh' = FALSE
    /\ Fail
    /\ UNCHANGED <<database, blind>>

----------------------------------------------------------------------------
(* startRefreshLoop.  The gates are read one after the other, but all they *)
(* read is written by the loop itself, except for the PAT, which is read   *)
(* first and kept.                                                         *)

(* The row is deleted once its time has passed, which limit = 0 covers.    *)
IsRateLimitActive == limit > 0

(* The zero time, which last_fetched is when it cannot be read, is older   *)
(* than any interval: the age holds the loop back only where it is known.  *)
GatesWithoutAge(known) == pat /\ ~IsRateLimitActive
GatesWithoutTime(known) == pat /\ ~IsRateLimitActive /\ age >= AgeCap
Gates(known) == pat /\ ~IsRateLimitActive /\ (known => age >= BaseInterval)

LoopTickEndsWhenLimited ==
    /\ proc = "up" /\ loop = "tick"
    /\ Polling!TickTrue
    /\ loop' = IF Gates(TRUE) THEN "query" ELSE IF limit > 0 THEN "ended" ELSE "tick"
    /\ fresh' = (fresh /\ ~Gates(TRUE))
    /\ blind' = (blind /\ ~Gates(TRUE))
    /\ elapsed' = 0
    /\ UNCHANGED <<proc, handlers, database, failures>>

LoopTick ==
    /\ proc = "up" /\ loop = "tick"
    /\ Polling!TickTrue
    /\ loop' = IF Gates(TRUE) THEN "query" ELSE "tick"
    /\ fresh' = (fresh /\ ~Gates(TRUE))
    /\ blind' = (blind /\ ~Gates(TRUE))
    /\ elapsed' = 0
    /\ UNCHANGED <<proc, handlers, database, failures>>

(* last_fetched cannot be read or parsed, which Prs() does not tell.       *)
LastFetchedUnread ==
    /\ proc = "up" /\ loop = "tick"
    /\ Polling!TickTrue
    /\ Gates(FALSE)
    /\ loop' = "query"
    /\ fresh' = FALSE /\ blind' = TRUE
    /\ elapsed' = 0
    /\ Fail
    /\ UNCHANGED <<proc, handlers, database>>

(* The PAT or the rate limit cannot be read: not found, assumed limited.   *)
LoopTickFails ==
    /\ proc = "up" /\ loop = "tick"
    /\ Polling!TickTrue
    /\ Fail
    /\ UNCHANGED <<proc, loop, elapsed, handlers, database, history>>

LoopEnds ==
    /\ proc = "up" /\ loop = "tick"
    /\ Polling!TickFalse
    /\ loop' = "ended"
    /\ UNCHANGED <<proc, elapsed, handlers, database, failures, history>>

Pace(verdict) ==
    CASE verdict = "succeeded" -> Polling!Succeeded
      [] verdict = "rateLimited" -> Polling!RateLimited
      [] verdict = "givingUp" -> Polling!Stop
      [] verdict = "serverErrored" -> Polling!ServerErrored
      [] verdict = "skipped" -> UNCHANGED trackerVars

QueryAnswered(a) ==
    LET verdict == LoopVerdict(a)
    IN  /\ proc = "up" /\ loop = "query"
        /\ Pace(verdict)
        /\ loop' = CASE verdict = "succeeded" -> "store"
                     [] verdict = "rateLimited" -> "limit"
                     [] verdict = "givingUp" -> "ended"
                     [] verdict \in {"serverErrored", "skipped"} -> "tick"
        /\ elapsed' = 0
        /\ UNCHANGED <<proc, handlers, database, failures, history>>

SetRateLimitUntil(ticks) ==
    /\ proc = "up" /\ loop = "limit"
    /\ limit' = ticks
    /\ loop' = "tick"
    /\ UNCHANGED <<trackerVars, proc, elapsed, handlers, pat, age, whole, failures,
                   history>>

(* StoreRepoPrs: DeletePrs, the inserts, StoreLastFetched.                 *)
StampFirst ==
    /\ proc = "up" /\ loop = "store"
    /\ whole' = FALSE
    /\ age' = 0
    /\ loop' = "fill"
    /\ UNCHANGED <<trackerVars, proc, elapsed, handlers, pat, limit, failures, history>>

DeletePrs ==
    /\ proc = "up" /\ loop = "store"
    /\ whole' = FALSE
    /\ loop' = "fill"
    /\ UNCHANGED <<trackerVars, proc, elapsed, handlers, pat, limit, age, failures,
                   history>>

FillAndStamp ==
    /\ proc = "up" /\ loop = "fill"
    /\ whole' = TRUE
    /\ age' = 0
    /\ loop' = "tick"
    /\ UNCHANGED <<trackerVars, proc, elapsed, handlers, pat, limit, failures, history>>

(* SetRateLimitUntil, DeletePrs or StoreLastFetched fails, and the loop    *)
(* goes on.  A failing insert is a Crash.                                  *)
StatementFails ==
    /\ proc = "up" /\ loop \in {"limit", "store", "fill"}
    /\ whole' = (whole \/ loop = "fill")
    /\ loop' = "tick"
    /\ Fail
    /\ UNCHANGED <<trackerVars, proc, elapsed, handlers, pat, limit, age, history>>

----------------------------------------------------------------------------
(* A step of the tracker's goroutine.                                      *)
RunStep(branch) ==
    /\ proc = "up"
    /\ branch
    /\ UNCHANGED <<proc, loop, elapsed, handlers, database, failures, history>>

(* HTTP requests; one PUT and one DELETE at a time.                        *)
Refresh ==
    /\ proc = "up" /\ "refresh" \in HttpRequests
    /\ Polling!RequestRefresh
    /\ UNCHANGED <<proc, loop, elapsed, handlers, database, failures, history>>

PutPat ==
    /\ proc = "up" /\ "put" \in HttpRequests
    /\ put = "none"
    /\ put' = "validating"
    /\ UNCHANGED <<trackerVars, proc, loop, elapsed, del, database, failures, history>>

PutValidated(a, b) ==
    LET valid == PatVerdict(a, b) = "valid"
    IN  /\ put = "validating"
        /\ put' = IF valid THEN "refreshing" ELSE "none"
        /\ pat' = (pat \/ valid)
        /\ fresh' = (fresh \/ valid)
        /\ UNCHANGED <<trackerVars, proc, loop, elapsed, del, limit, age, whole, failures,
                       blind>>

(* The valid PAT cannot be stored. *)
PutFails ==
    /\ put = "validating"
    /\ put' = "none"
    /\ Fail
    /\ UNCHANGED <<trackerVars, proc, loop, elapsed, del, database, history>>

PutRefreshes ==
    /\ put = "refreshing"
    /\ put' = "none"
    /\ Polling!RequestRefresh
    /\ UNCHANGED <<proc, loop, elapsed, del, database, failures, history>>

(* When the PAT cannot be cleared, nothing happens.                        *)
DeletePat ==
    /\ proc = "up" /\ "delete" \in HttpRequests
    /\ del = "none"
    /\ del' = "stopping"
    /\ pat' = FALSE
    /\ fresh' = FALSE
    /\ UNCHANGED <<trackerVars, proc, loop, elapsed, put, limit, age, whole, failures,
                   blind>>

DeleteStops ==
    /\ del = "stopping"
    /\ del' = "none"
    /\ Polling!Stop
    /\ UNCHANGED <<proc, loop, elapsed, put, database, failures, history>>

----------------------------------------------------------------------------
(* The clock. *)
Asking == loop = "query" \/ proc \in {"env", "stored"}

Busy ==
    \/ loop \in {"limit", "store", "fill"}
    \/ loop = "tick" /\ (c = 1 \/ pc = "exited")
    \/ proc = "up" /\ pc \in {"first", "arm"}
    \/ proc = "up" /\ pc = "select" /\ (timer = 0 \/ refresh = 1 \/ done)
    \/ put = "refreshing" \/ del = "stopping"

OutOfPatience == Asking /\ elapsed = IF loop = "query" THEN MaxDelay ELSE 2 * MaxDelay

ClockTicks ==
    /\ Prompt => ~Busy
    /\ ~OutOfPatience
    /\ Polling!Advance
    /\ elapsed' = IF Asking THEN elapsed + 1 ELSE 0
    /\ limit' = IF limit > 0 THEN limit - 1 ELSE 0
    /\ age' = AtMost(AgeCap, age + 1)
    /\ UNCHANGED <<proc, loop, handlers, pat, whole, failures, history>>

Steps ==
    \/ \E env \in EnvPat : Start(env)
    \/ \E a, b \in Replies :
          ValidateEnv(a, b) \/ ValidateStored(a, b) \/ PutValidated(a, b)
    \/ InitFails
    \/ Crash
    \/ LoopTick
    \/ LoopTickFails
    \/ LastFetchedUnread
    \/ LoopEnds
    \/ \E a \in Replies : QueryAnswered(a)
    \/ \E ticks \in 1..MaxLimit : SetRateLimitUntil(ticks)
    \/ DeletePrs
    \/ FillAndStamp
    \/ StatementFails
    \/ RunStep(Polling!FirstSignal)
    \/ RunStep(Polling!ArmTimer)
    \/ RunStep(Polling!OnTimer)
    \/ RunStep(Polling!OnRefresh)
    \/ RunStep(Polling!OnDone)
    \/ Refresh
    \/ PutPat
    \/ PutFails
    \/ PutRefreshes
    \/ DeletePat
    \/ DeleteStops

Next == Steps \/ ClockTicks

Spec == Init /\ [][Next]_daemonVars

(* A goroutine that can run does, a request to GitHub ends after a minute  *)
(* at the latest, systemd restarts the process, time passes; Go's select   *)
(* is random.  Users, failures and GitHub's answers owe nothing.           *)
Fairness ==
    /\ WF_daemonVars(\E env \in EnvPat : Start(env))
    /\ WF_daemonVars(\E a, b \in Replies : ValidateEnv(a, b) \/ ValidateStored(a, b))
    /\ WF_daemonVars(LoopTick)
    /\ WF_daemonVars(LoopEnds)
    /\ WF_daemonVars(\E a \in Replies : QueryAnswered(a))
    /\ WF_daemonVars(\E ticks \in 1..MaxLimit : SetRateLimitUntil(ticks))
    /\ WF_daemonVars(DeletePrs)
    /\ WF_daemonVars(FillAndStamp)
    /\ WF_daemonVars(PutRefreshes)
    /\ WF_daemonVars(DeleteStops)
    /\ WF_daemonVars(RunStep(Polling!FirstSignal))
    /\ WF_daemonVars(RunStep(Polling!ArmTimer))
    /\ SF_daemonVars(RunStep(Polling!OnTimer))
    /\ SF_daemonVars(RunStep(Polling!OnRefresh))
    /\ SF_daemonVars(RunStep(Polling!OnDone))
    /\ WF_daemonVars(ClockTicks)

(* An outage of GitHub ends at some time.                                  *)
GithubRecovers ==
    SF_daemonVars(\E a \in Replies : LoopVerdict(a) = "succeeded" /\ QueryAnswered(a))

FairSpec == Spec /\ Fairness

RecoveringSpec == FairSpec /\ GithubRecovers

----------------------------------------------------------------------------
(* A list left incomplete (the process died, or is still writing it) is    *)
(* never younger than the base interval, so that the age gate is open for  *)
(* it and the first poll of the next process replaces it; but for a list   *)
(* taken because last_fetched could not be read, which may be young.       *)
PartialListIsStale == ~whole /\ ~blind => age >= BaseInterval

(* Gates, answers, requests, failures and restarts around it leave to      *)
(* StoreRepoPrs the order PrStore shows it to have (module Renewal): only  *)
(* a list that is whole becomes young, whatever made the loop take it.     *)
Renewing == INSTANCE Renewal WITH
                at <- IF loop = "store" THEN "taken"
                      ELSE IF loop = "fill" THEN "filling" ELSE "idle"

RenewsInOrder == Renewing!Spec

(* While GitHub answers well, what is shown is never older than two base   *)
(* intervals and a request, whenever users ask for refreshes.              *)
StaleAtMost ==
    proc = "up" /\ consecutiveOK > 0 /\ loop \notin {"store", "fill"}
        => age <= 2 * BaseInterval + MaxDelay

(* As long as there is a PAT and nobody stopped the tracker, GitHub is     *)
(* asked again and again: gates, backoff, rate limits, refreshes and       *)
(* restarts never combine to stop the polling.                             *)
PollingGoesOn == <>[](pat /\ ~done) => []<>(loop = "query")

(* An incomplete list is replaced by a whole one, through crashes and      *)
(* failures, unless the PAT is taken away.                                 *)
PartialListHeals == ~whole ~> (whole \/ ~pat \/ done)

----------------------------------------------------------------------------
(* What the documentation and comments say, and the code does not do.      *)

(* "refresh PRs every N minutes" (main.go): after a first success the list *)
(* is not older than the interval and the request that renews it.          *)
RefreshedEveryInterval ==
    proc = "up" /\ consecutiveOK > 0 /\ loop \notin {"store", "fill"}
        => age <= BaseInterval + MaxDelay

(* "You will need to reconfigure it to use elly" (index.html): once        *)
(* configured again after a removal, a PAT is used.                        *)
ReconfiguringResumes == fresh ~> ~fresh
=============================================================================
