# A verification project for elly

elly polls GitHub for the pull requests a user is involved in, stores them in
SQLite, ranks them and shows them on a page and through a small API. This
directory holds TLA+ models of it, the TLC configurations that check them, and
proofs that TLAPS checks. Paths below are relative to the repository.

## 1. The system

| Part | State | Operations | Talks to |
| --- | --- | --- | --- |
| Tracker, `internal/backoff/backoff.go` | multiplier, success count, the channels `c`, `refresh` (capacity one) and `done`, a timer | `Tick`, `RequestRefresh`, `Stop`, `RateLimited`, `ServerErrored`, `Succeeded`, the goroutine `run` | called by the loop and by HTTP handlers |
| Refresh loop, `main.go` | where it is; the PAT it read | `startRefreshLoop` | tracker, storage, GitHub client |
| Process start, `main.go` | none | `initPAT`: take the PAT of the environment or check the stored one | storage, GitHub client |
| Pull request storage, `internal/storage/storage.go` | tables `prs`, `meta` | `StoreRepoPrs`, `Prs`, `Bury`, `Unbury` | SQLite; called by loop and handlers |
| Rate limit and PAT storage | tables `meta`, `pat` | `SetRateLimitUntil`, `IsRateLimitActive`, `StorePAT`, `GetPAT`, `ClearPAT` | the same |
| GitHub client, `internal/github/github.go` | none | `QueryGithub`, `UsernameFromPat`, `ValidatePAT` | GitHub's GraphQL API |
| Points, `internal/points/points.go` | none | `StandardPrPoints` | called by the handlers |
| HTTP handlers, `internal/server/server.go` | none | page, API list, bury, unbury, refresh, PUT and DELETE of the PAT | storage, tracker, GitHub client |
| Page, `internal/server/index.html` | what it was rendered with; `isRefreshing`, timers | refresh, automatic reload, bury | the handlers |

Three kinds of processes run at once: the goroutine of the tracker, the refresh
loop, and one goroutine per HTTP request. They share the tracker's channels and
the database, and there is a transaction only around `StorePAT`. What is hard:

- the tracker's `select` sees timer, request and stop in any order, and the
  loop takes signals late or not at all;
- `StoreRepoPrs` is a series of statements, each of which may fail, be the last
  one the process runs, or be followed by somebody else's `UPDATE`;
- age gate, rate limit, backoff and restart each skip polls for good reasons,
  and must not skip all of them together;
- success and failure of a query are told apart by layers of wrapped errors;
- whose turn it is in a review thread is told by rules that overlap, from the
  first comments GitHub is asked for;
- PATs are stored, cleared and read by several requests, the start and the loop;
- a page is made of several reads, and from then on nothing tells it of changes;
- the ranking rules add up, and one of them must beat all the others.

What makes each part correct:

- tracker: no request is lost, the timer neither stalls nor fires early, backoff
  is bounded and undone by successes, Stop ends the goroutine;
- storage: marks stay on the version they were set on and go for a reason only,
  rows of two fetches never mix, `last_fetched` vouches for a complete list;
- loop and start: polling goes on, the list does not get arbitrarily old, an
  incomplete list is replaced;
- GitHub client: a rate limit is recognised, a PAT is discarded only when
  GitHub answers 401 or 403, and whose turn it is in a thread is read rightly;
- PATs: one at most, replaced at once, and the list becomes its user's;
- points and ranking: the page is sorted, what is buried is at the bottom, and
  taking an action gives a pull request no more points, with two exceptions that are
  named (its date, which a comment renews, may move it up all the same);
- page: left open, it follows the list.

`PROJECT.json` lists all components, the ones left out too, and the hazards with
their lines and properties.

## 2. The modules

| Module | Models | Notes |
| --- | --- | --- |
| `Tracker` | `backoff.go` with the most general client | one action per method and per `select` branch |
| `TrackerHistory` | the same, with two history variables | `quiet`: ticks since the last signal; `okRun`: successes in a row |
| `PrStore` | `StoreRepoPrs`, bury and unbury | one action per statement and per failure of it |
| `PrList` | the abstract list `PrStore` implements | no statements, no failures |
| `Renewal` | the order in which a list is replaced, which `PrStore` and `Daemon` both implement | no rows, no requests, no clock |
| `PatStore` | `StorePAT`, `GetPAT`, `ClearPAT` and all who call them | one action per statement; transaction and write lock |
| `PatRegister` | the register `PatStore` implements | no rows, no transactions |
| `Github` | the client as functions of an answer, verdicts of loop and start | constant-level operators |
| `GithubCalls` | the one or two requests of a call against any answers | uses `Github` |
| `Points` | `StandardPrPoints`, the round trip through the table | constant-level operators |
| `Threads` | `actionableThreads` and how an answered pull request becomes a `ViewPr` | constant-level operators; uses `Points` |
| `Conversation` | what people do to a pull request between polls | external: the actions are GitHub's; uses `Threads` |
| `Turn` | the abstract thread: whose turn it is | told by what people do, not by the comments |
| `Ranking` | `GET /` and `GET /api/v0/prs` | uses `Points`; the insertion sort of `sort.Slice` step by step |
| `Pipeline` | one poll, from what people say to what is shown | composes `Conversation`, `GithubCalls`, `Ranking` |
| `Daemon` | the process: loop, start, tracker, database, handlers, clock, restarts | composes `Tracker` (instantiated) and `Github` |
| `Browser` | a tab with the page, beside the daemon | composes `Daemon` |
| `MCDaemon`, `MCBrowser`, `MCRanking`, `MCPipeline`, `SamplePrs` | values of constants for TLC | one answer per verdict; sample pull requests |
| `TrackerProofs`, `PrStoreProofs`, `PatStoreProofs`, `PipelineProofs`, `ConversationProofs`, `RankingProofs`, `DaemonProofs`, `BrowserProofs` | theorems | |

Definitions whose name ends in a description of a mistake (`OnRefreshSilently`,
`UnburiedNever`, ...) stand right before the definition they distort. No
specification uses them: they are there to show that the properties notice.

### Tracker

`pc` is where `run` stands: before the first signal (`first`), about to create or
reset the timer (`arm`), in the `select` (`select`), returned (`exited`). The
channels of capacity one are counters `c` and `refresh`; a signal to a full
channel is dropped, which `c' = 1` says. The multiplier is an integer in units of
`1/Unit`; with `Unit = 8` the values reached by a few steps of 2, 1.5 and 1/2 are
close to the ones of the float and rounding only goes down; the theorems hold for
every `Unit` from 2. The type of `timer` says that the program never sleeps longer than
four base intervals (`maxMultiplier`). The interval is read when the timer is rearmed, in an action
of its own, so that a `RateLimited` may come before or after it, as in the code.

### PrStore

A row is reduced to its url, its version (`last_updated`) and its mark. The loop
runs `ReadBuried`, `DeletePrs`, one `CreatePr` per pull request and
`StoreLastFetched`; each can fail in the way the code reacts to: no marks, return,
panic (`Crash`), return. `Bury` and `Unbury` are single `UPDATE`s that may
come between any two. History variables, read by no guard, record which fetch a
row came from (`origin`), which list the table is to hold (`target`) and at which
version the user buried a pull request (`buriedAt`, `Never` if not); `held` is the set of marks
that nothing has happened to which would explain their loss.

`Fetch` takes any of the pull requests, and of these any whose `updatedAt` can be
read; the others come with `ZeroTime`, as `queryGithub` makes them. That date is before
every other: a buried pull request stays buried through an answer with such a
date, is then stored at it, and loses its mark with the next date that can be read,
though nothing was updated. So the versions of a row need not grow from fetch to fetch.

`PrList` says what a reader may rely on: a list is cleared, filled, vouched for
when whole, and a mark is on the version it was put on or at a date that could not be read. The refinement maps
`whole` to "the table is the list it is to hold" and `vouched` to "the stamp is
of the fetch the table is from".

`Renewal` is the other half of the contract: a list is taken, the old one goes, the new one
grows, and only a whole one is stamped, which alone makes a list young. It does not say when
a list is taken: the age gate may be open by mistake, see `Daemon`. `PrStore` implements it
with the statements, telling age in fetches; `Daemon` with its four steps of the
loop, telling it in ticks. So what `Daemon` makes of `StoreRepoPrs` is what `PrStore` shows
it to do, as far as `Renewal` can tell.

### PatStore

A row is its token and its flag. `row` is the table as committed, `tx` as the open
transaction sees it, `writer` who has SQLite's write lock: `BeginTx` takes none, the
first `UPDATE` does, and readers go on reading what was committed. `pc` is where
each caller of `StorePAT` is: clients, and `initPAT`, which runs alone. A removal is
`ClearPAT` and then `Stop`; `initPAT` clears a PAT that GitHub refuses. Every
statement may fail; `Crash` rolls the transaction back. The loop is reduced to the
PAT it reads, queries with and stores a list for; `GET /` to its two reads of the
PAT. `seen` is a history variable: what users had set the PAT to while the page
was being made.

`PatRegister` says what callers may rely on: storing a PAT replaces the one before
at once or changes nothing, and it is cleared only when asked. The refinement maps
`current` to the active row and `answered` to "the transaction was committed".

### Github and GithubCalls

An answer is a record of what the functions branch on: whether it came, its
status, whether its body can be read (`json`), can be read but has other data
than asked for (`misshapen`) or not (`garbage`), its GraphQL errors, and whether a
header says when to come back. An error is the set of sentinels it wraps (`%w`)
and the set its text names (`%v`); `errors.Is` only sees the first. `Denied` is an
answer of status 401 or 403, whatever its body: `UsernameFromPat` looks no further.

### Points and Ranking

Points are modelled rule by rule; times are days. Ranking starts from a list as
GitHub answers it, stores it (with the join and split of the reviewers), filters it
for the API (`Kept`, the loop of `GetPrs` as a recursive function) and sorts it the way
`sort.Slice` does for up to 12 elements.

### Threads, Conversation, Turn

A pull request as GitHub has it is a record of its fields, its comments (by author)
and its threads; a comment is its author and who reacted, in order and once for each kind of
reaction. `AnsweredThreads` and
`AnsweredComments` are what the query text asks for: the first 15 threads, the first
30 comments of each, the first 7 reactions to each of those, the last 5 comments. `ThreadVerdict` is the rules of
`actionableThreads` in their order. `Conversation` lets people start threads, reply,
react, resolve and comment. `Turn` is what a reader of the page is promised, as a
machine with no comments in it: a comment by somebody else makes it the user's
turn on their own pull request and in the threads they started, and so on. Each
answered thread implements it, with the verdict as its `turn` when open. A thread
that is longer than what is asked for stands still at the last comment asked for, and so
does a comment with more reactions (`noticed`): somebody's eighth reaction acknowledges nothing.
A comment renews the date of the pull request (`updatedAt`), as GitHub does; whether a
reaction does too is left open, as no property depends on it once there is a comment.

### Pipeline

`Talk`, `Request`, `Read`, `ShowList` are the steps of one poll. `Read` stores the pull request
spoken about with the mark its row had before: none, or one set at any earlier date
(`CarriedOver`, the comparison of `StoreRepoPrs`); and it stores an empty list when the pull
request is behind the first 100 of the search. While nothing has been
said every answer and every list is tried; once somebody spoke, only good answers and
the one pull request spoken about, as the failures of GitHub do not depend on what was
said nor the order of a list on how its points came about.

### Daemon

`proc` and `loop` are where process and loop stand. The database is reduced to
what the loop decides by: `pat`, `limit` (ticks until `rate_limit_until`), `age`
(ticks since `last_fetched`) and `whole`. A tick is at least a second, since
both times are stored in whole seconds; what happens within the second is not
told apart. Only requests to GitHub take ticks, at most `MaxDelay` for each (a minute in the
code). With `Prompt` the clock waits for everything else the program could do at
once; without, it may overtake every process. A failing insert panics, which is a
`Crash`, and so does a failing read of the rows in `Prs`. A failing read of `last_fetched` is not told by `Prs`: the
time is then the zero time, and the age gate is open (`LastFetchedUnread`). `blind` is a history
variable: the gate was last passed that way. At most one PUT and one DELETE are in flight.

### Browser

`Load` is the first read of `GET /` (the rows), `ReadStamp` the second (`last_fetched`),
after which the page shows and its script starts anew. `UpdateTime` runs every
`CheckPeriod` and reloads a page whose stamp is too old, unless it has just been loaded;
a click on refresh asks the tracker (`Refresh` of `Daemon`) and sets a timer to reload.
The age of a page is compared
in whole minutes, rounded (`Minutes`): a page bears with half a minute more than the interval and three
minutes (`Bearable`). Of the rows only their presence is told apart: without any, the script ends in an
error before its timers are set. A tick is again the only thing that takes time.

## 3. The runs

All counts are of distinct states. Each passing run but `daemon_liveness` checks the type
invariant of its module too.

| Run | Checks | Bounds | States |
| --- | --- | --- | --- |
| `tracker` | `HTypeOK`, `FullIntervalAfterSignal`, `RecoversWithinSix`, `RefreshIsServed`, `SignalsKeepComing`, `StopEndsRun` | interval 3, unit 8 | 79,830 |
| `prstore_safety` | five invariants, `ImplementsList`, `RenewsInOrder` | 2 urls, 3 versions and the zero date, 3 fetches, any number of failures and crashes | 1,060,509 |
| `pipeline` | `PageIsRanked`, `BuriedAtTheBottom`, `BuriedIsNotCounted`, `ApiHasTheWorthy`, `OnlyDeniedIsCleared`, `RateLimitIsRecognised`, `FuzzedPromises`, `TurnReachesTheBar`, `ThreadsFollowTurns`, `ActingNeverRaises` | all answers; 20 samples, lists of up to 3; 4 pull requests, buried before or not, with 4 events each, 3 threads, 3 comments and 3 reactions where 2 are asked for | 292,425 |
| `pat_store` | `AtMostOneActive`, `PageKnowsItsUser`, `ImplementsRegister`, `NewPatTakesOver` | 2 PATs, 2 clients and the start, any number of failures and crashes | 719,799 |
| `daemon_safety` | `PartialListIsStale`, `RenewsInOrder` | interval 2, two failures or crashes, all answers, refresh and PUT requests, clock at any speed | 444,756 |
| `daemon_healthy` | `StaleAtMost`, `PageFollows` | interval 2 (a minute of 2 ticks), requests of up to 2 ticks, refreshes at any time; one tab, margin 3 minutes, quiet time 1, check every 2, reload after 2 | 368,110 |
| `daemon_liveness` | `PollingGoesOn`, `PartialListHeals` | interval 2, one failure or crash, refresh and DELETE requests | 201,655 |

Why these bounds are enough to be interesting: three fetches let a mark be set,
carried over and dropped, with a failure in any of them; three versions let a
pull request be updated before and after; two failures are enough for the age not to be
read and the process to die while it writes the list taken for that; an interval of 3 lies between the
multiples the multiplier takes; lists of three are the smallest on which an
insertion sort that compares the wrong elements goes wrong in the middle, and the
samples include the pull requests with the most and the least points there can
be, each buried and not. The limits a client may ask the API for include what one of the
samples has exactly, so that at least and more than are told apart. Four events are a thread with a reply, a reaction and an
answer, or two threads that disagree; three threads and comments go beyond the windows of two, so
that what is not asked for matters. Two clients are enough for two transactions to
meet, and with `initPAT` and a removal for each to be overtaken; two PATs for each
to be the one before. A quiet time shorter than the time between two checks, and a
reload that takes as long as a check, let the page's timers come in every order. The counters in `Daemon` and `Browser`
saturate where nothing looks any further (`AgeCap`, `ShownCap`). There is no symmetry reduction. `daemon_liveness` leaves
PUT out to stay small, and `daemon_safety` DELETE: without a PAT the loop takes no list. A PUT adds no behaviour as long as there is a PAT, beyond
the refresh it asks for.

Runs that show where code and documentation disagree; TLC finds each violated,
and `PROJECT.json` quotes both sides under "findings":

| Run | What is said | What happens |
| --- | --- | --- |
| `github_server_errors` | a server error backs off 1.5x | `%v` hides the sentinel; the query is skipped without backoff |
| `daemon_period` | renewed every N minutes | every second tick is discarded, so every 2N |
| `daemon_reconfigure` | reconfigure to use elly again | the loop has ended; nothing happens until a restart |
| `prstore_bury_race` | a bury pushes down | lost when it comes between two statements |
| `ranking_api_order` | the API is in prioritized order | `less` looks at another slice |

About `daemon_period`: a query that ends within the same second as the tick it
came with passes the gate, thanks to the truncation to whole seconds; the
run is about queries that cross a second.

The models show more places where a comment and the code differ; they have no
run of their own:

- `Tick` "returns false when Stop() has been called" (`backoff.go:63`): a buffered
  signal is delivered first (`TickTrue` asks nothing of `done`).
- A rate limit brings "2x backoff, timer reset" (`backoff.go:88`): the running timer
  keeps the old interval (`BackOff` leaves `timer` alone; the test at
  `backoff_test.go:169` describes that).
- "Client errors ... treat as invalid token" (`github.go:272`): a 4xx of the query is
  formatted with `%v` too, and the PAT is taken to be valid.
- "graphql returns 200 but still possibly errors, we need to check for those"
  (`github.go:191`): only `RATE_LIMITED` is checked; any other error is an empty list,
  which replaces the stored one.
- "Trigger a refresh so the new PAT is used immediately" (`server.go:278`): the age
  gate discards that refresh when the list is younger than the interval.
- "caller should skip querying" during a rate limit (`storage.go:39`): `initPAT`
  queries GitHub regardless.
- "don't hide them, just put them at the bottom" (`ADR-0006-hiding-prs.md:41`): the
  default limit of the API, -999, hides buried pull requests with few points.
- `ViewPr` holds all that is needed to order pull requests "since ViewPr is also what
  we store" (`types.go:10`): no reviewers come back as one without a name, so that the
  rule "You should add reviewers" never applies to a stored one (`Stored`).
- "refresh PRs every N minutes" and a page that reloads "3 minutes past the refresh
  interval" (`index.html:522`): with a period of 2N, a page left open reloads every ten
  seconds from N+3 minutes on (`UpdateTime`, `PageFollows` bounds it).
- "Transient error (rate limit, server error, network issue) — keep the PAT" (`main.go:133`): a
  rate limit that comes with status 403 is `ErrInvalidToken` (`github.go:326`), and the PAT is
  cleared. `OnlyDeniedIsCleared` says that 401 and 403 clear it and nothing else does.
- "just log it" of a date that cannot be read (`github.go:411`): a buried pull request whose date
  could not be read once is unburied by the next fetch, though it was not updated
  (`MarksSurvive` lists that reason).
- An error of reading `last_fetched` is dropped (`storage.go:120`), the age gate is open, and the
  process may die while it writes the list: an incomplete list with a young stamp stays until the
  stamp is old (`PartialListIsStale` excepts it by `blind`).
- A page without pull requests: `document.querySelector("a.bury")` is null
  (`index.html:491`), the script ends there, and the page never reloads by itself. For the
  same reason only the first bury link has a click handler.
- A page whose stamp is not set does not reload by itself either, though it says
  "fetching..." (`index.html:526`, `ReadStamp` with `stamped` false).
- "refreshing is async in the backend, this is more to prevent a double click"
  (`index.html:468`): when the request fails, `isRefreshing` stays set and every further
  click is ignored.
- "points for "unresponded comments" shouldn't have to compete with points for "short
  PRs"" (`points.go:101`): 80 for a thread to answer, less 10 for one that waits and 70 for an
  old draft, is 0, and the size is looked at. Answering the thread can then lift the pull
  request; `ActingNeverRaises` leaves out that sum (`SizeMeetsThreads`).
- "points" represents "actions to take" (`points.go`), but a comment of the user's own renews the date:
  someone else's old draft gets 60 points back (`Revives`), comes before others with as many
  points (`server.go:213`), and is no longer buried (`storage.go:147`). `ActingNeverRaises` is
  about points, with the first of these as its bound.
- Bots are ignored as last commenters (`github.go`, `ignoredLastPrCommenters`), but after
  the last five comments were asked for: five comments of bots hide everybody else's.
- The list of one user is ranked for the next, from the PUT of a PAT to the next fetch;
  `NewPatTakesOver` says that it ends.

Each property of the passing runs is also checked to fail under a plausible
mistake in the code (`PROJECT.json`, "mutants").

### Fairness

- A goroutine that can go on does (weak fairness per action): the Go scheduler is
  preemptive and none of them spins.
- Each branch of a `select` is taken if it is ready again and again (strong
  fairness): Go picks among ready branches at random.
- Time passes, and a request to GitHub ends within a minute (its context does).
- systemd starts the process again (`contrib/elly.service`, `Restart=on-failure`).
- In `pat_store` the loop is given what `daemon_liveness` shows of it: it ticks again and
  again (`WF` of `LoopTick`, from `PollingGoesOn`), and GitHub answers well again if asked
  again and again (`SF` of `StoreList`).
- Users, crashes, failing statements and GitHub's answers owe nothing, except that
  for `PartialListHeals` GitHub answers well again if asked again and again
  (`GithubRecovers`). `PollingGoesOn` is checked in the same run and needs no more
  than that.

`daemon_liveness` runs without `Prompt`: with it, users who refresh without pause
would stop the clock.

`PollingGoesOn` and `PartialListHeals` make an exception for a tracker that was
stopped: DELETE stops it for good, and so would a client error (it never does, as
the error is not wrapped). Both also assume a PAT.

## 4. The proofs

For every value of the constants that the named assumptions allow:

- `TrackerProofs`: `HistoryOnlyWatches` (so the rest is about `Tracker`), `TrackerTypeCorrect`, `TimerKeepsItsDistance`,
  `TrackerRecovers`. The strengthenings are `TimerCoversInterval` (what the timer
  has left and the quiet so far add up to the interval) and `CountFollowsRun` (the
  success count is the run of successes, less the three a halving consumed). They
  rest on facts about integer division: an interval is never shorter than the base nor
  longer than four of them, and backing off stays between 1.0 and 4.0. Assumed: the interval is
  positive, the unit at least 2.
- `PrStoreProofs`: `StoreInvariant` proves the conjunction `StoreInv` inductive. The
  properties need what surrounds them: the fetch numbers are in order at each
  statement (`NumbersInOrder`), a date that can be read is none older than the row's (`VersionsInOrder`), and marks
  are on their way from table to memory to table (`MarksCarried`). From it follow
  `StoreTypeCorrect`, `NeverBuriedUnasked`, `MarksAreNotForgotten`,
  `FetchesAreNotMixed`, `StampVouches` and, step by step, `StoreImplementsList`:
  `PrStore` implements `PrList` for any set of pull requests, any number of
  fetches, failures and crashes. `StoreRenewsInOrder` says the same of `Renewal`.
- `PatStoreProofs`: `PatInvariant` proves `PatInv` inductive: besides the properties, it
  has what an open transaction is about to commit (`TransactionInOrder`: none active
  after the first statement, the caller's own after the second), what has been seen at
  each step of a page (`PageInOrder`), and that nothing runs beside `initPAT`
  (`StartsAlone`). From it follow `PatTypeCorrect`, `OnePat`, `PagesKnowTheirUser` and, step
  by step, `StoreImplementsRegister`. Assumed: no PAT is the value for none.
- `ConversationProofs`: `RulesTellTheTurn`: every answered thread implements `Turn`, for any
  people, any windows of the query (of threads, comments and reactions) and threads of any length. A comment beyond the
  window changes nothing that is answered; within it, it changes the last comment and
  never the first, and the verdict depends on no other. `TalkInv` (what a conversation
  has in it) is inductive. From it follow `FuzzTestHolds`, what the fuzz test of
  `actionableThreads` asks of sampled threads, for all of them, and `ActingDoesNotRaise`: a
  comment or reaction of the user, or a comment of a bot, takes threads off their list or leaves
  them there, and puts none on it; with less to do and the same date the points do not go up
  (`LessToDo`), but where `SizeMeetsThreads`, and a new date adds nothing but the 60 of a revived
  draft.
- `RankingProofs`. About the points: `PointsAreBounded` (-180 to 211 points unless buried),
  `BuriedRanksBelow` (so a penalty of 1000 beats every combination of rules, which
  a TODO in `points.go` asks to be tested), `BetterIsStrictWeakOrder` (what
  `sort.Slice` requires of the comparison). About the handlers: `RankInv` is inductive,
  in two parts. `ListInv` says that the list in hand has every pull request as often as
  the stored one, or, for the API, as often as the filter keeps it: swaps do not change how
  often (`SwapKeepsTimes`). `PageInv` is the invariant of the insertion sort (all before `i` in
  order, but for the element at `j` on its way down). From it follow `RankingIsTyped`,
  `PageRanksTheList`, `BuriedStayAtTheBottom`, `BuriedAreNotCounted` and `ApiListsTheWorthy`.
  The loop of the filter is a recursive function; that it exists and what it keeps
  (`KeptIsALoop`, `KeptElements`, `KeptTimes`) is proved through the least number
  at which a claim fails (`NumbersFromZero`), since the library's induction takes the claim as an
  operator, which no prover here can instantiate. `RankStep` is a step of either
  handler from any stored list, so that the invariant serves `Pipeline` too.
- `PipelineProofs`, for any set of answers: `OutagesKeepThePat` (401 and 403 clear a PAT, nothing else does) and `RateLimitsAreRecognised`, by
  what each function wraps. `PipelineAsksGithub` and `PipelineListensToPeople`: `Pipeline`
  implements `GithubCalls` and `Conversation`. So what is proved of them
  holds of it (`PipelineKeepsThePromises`), and what is proved of `RankStep` too
  (`PipelineShowsRankedLists`), where the list is what people said. `TurnsReachTheBar`
  spans all parts: what somebody else said last in an open thread of the user's own
  pull request, unanswered and among what the query asks for, is in the answer, actionable, stored,
  not buried any more (its date is newer than any mark's, where it can be read), worth a point and on the list of those with at least one. It needs `SaidInv`: once somebody spoke, what
  is stored is what they said, and nobody speaks between the answer and the list.
- `DaemonProofs`: `DaemonDrivesTracker` (but for a crash, what the daemon does to the tracker
  is a step of the tracker's), and the inductive `DaemonInv`: the types, `PastTheGates`
  (a loop about to write has passed the age gate, or is `blind`) and `PartialListIsStale`. From it
  `DaemonTypeCorrect`, `PartialListsAreStale` and `DaemonRenewsInOrder` (`Daemon` implements
  `Renewal`), for any number of crashes and of the failures `Daemon` has: of the reads of the PAT, of the
  rate limit and of `last_fetched`, and of each statement that writes.
  `HealthyListIsFresh` is about a healthy daemon (`Healthy`: every answer succeeds, nothing
  fails, nobody removes the PAT, and the clock waits for what can be done at once). Its
  strengthening `SteadyInv` relates the age of the list to what the timer has left
  (`SteadyAge`), at each place of the loop.
- `BrowserProofs`: `TabOnlyWatches` (so all of the above holds beside a page),
  `BrowserTypeCorrect`, and `OpenPageFollows` under `Healthy`, by induction on what a page
  shows from `HealthyListIsFresh` at the moment it was loaded.

Only model-checked is liveness: `RefreshIsServed`, `SignalsKeepComing`, `StopEndsRun`,
`PollingGoesOn`, `PartialListHeals`, `NewPatTakesOver`. It rests on fairness and so on
ENABLED, which TLAPS does not handle.

## 5. Not modelled

- Which rows a page sees while the list is written: only whether there are any.
- Reactions are not taken back; comments are not deleted.
- The page's keyboard shortcuts, focus and dialogs, and the requests for status, metrics and
  health: they change nothing the program decides by.
- Demo data (always stamped with the current time), golden tests, metrics and packaging:
  fixed data or I/O. The generated database code is modelled where it is called.
- User names and expiry of PATs belong to the PAT; the user's list is told by it.

## 6. Plan

Done: the modules of section 2 and the proofs of section 4. Next, in this order:

1. The rows a page reads, by joining `Browser` and `PrStore`: that a page with rows of two
   fetches is replaced.
2. The range of the tracker's floats: how far `1/Unit` is from them.
