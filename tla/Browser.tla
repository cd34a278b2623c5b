------------------------------- MODULE Browser -------------------------------
(***************************************************************************)
(* A browser's tab with the page (the script of internal/server/           *)
(* index.html) beside the daemon that serves it (module Daemon).  Nothing  *)
(* tells the page of a new list: it reloads when what it shows is old, or  *)
(* some time after a click on refresh.                                     *)
(*                                                                         *)
(* GET / reads the rows and then last_fetched.  On a page without rows the *)
(* script ends at document.querySelector("a.bury"), before the timers of   *)
(* the automatic reload are set.                                           *)
(***************************************************************************)
EXTENDS Daemon

CONSTANTS
    Minute,                  \* the ticks of a minute
    RefreshIntervalMinutes,  \* the base interval as the page is told it
    MarginMinutes,           \* 3
    QuietTime,               \* 10 seconds: "Page just loaded"
    CheckPeriod,             \* 5 seconds, of updateTime
    RefreshDelay             \* 1.5 seconds, from a refresh to the reload

ASSUME MinutesAssumption ==
    /\ Minute \in Nat \ {0} /\ RefreshIntervalMinutes \in Nat /\ MarginMinutes \in Nat
    /\ BaseInterval = RefreshIntervalMinutes * Minute
ASSUME TimesAssumption ==
    QuietTime \in Nat /\ CheckPeriod \in Nat \ {0} /\ RefreshDelay \in Nat \ {0}

VARIABLES
    stamped,   \* database: last_fetched has been set
    listed,    \* database: the whole list has rows
    page,      \* "none", "rows" (read so far) or "shown"
    rows,      \* the page has rows
    shown,     \* ticks since the time the page was stamped with
    valid,     \* it was stamped: timestampValid
    pageAge,   \* ticks since it was loaded, saturates
    check,     \* ticks until updateTime runs
    reload,    \* until the reload after a refresh: 1 when it is due, 0 for none
    refreshing \* isRefreshing

tabVars == <<page, rows, shown, valid, pageAge, check, reload, refreshing>>
pageVars == <<stamped, listed, tabVars>>
browserVars == <<daemonVars, pageVars>>

(* The oldest a page may be that still rounds to the margin.               *)
Bearable == (RefreshIntervalMinutes + MarginMinutes) * Minute + Minute \div 2

ShownCap == 2 * BaseInterval + 2 * MaxDelay + Bearable

BrowserInit ==
    /\ Init
    /\ stamped = FALSE /\ listed = FALSE
    /\ page = "none" /\ rows = FALSE /\ shown = 0 /\ valid = FALSE
    /\ pageAge = 0 /\ check = 0 /\ reload = 0 /\ refreshing = FALSE

BrowserTypeOK ==
    /\ page \in {"none", "rows", "shown"}
    /\ shown \in 0..ShownCap /\ pageAge \in 0..(QuietTime + 1)
    /\ check \in 0..CheckPeriod /\ reload \in 0..RefreshDelay
    /\ {stamped, listed, rows, valid, refreshing} \subseteq BOOLEAN

----------------------------------------------------------------------------
(* An answer of GitHub may well be empty. *)
DaemonStep ==
    /\ Steps
    /\ stamped' = (stamped \/ FillAndStamp)
    /\ IF ~whole /\ whole' THEN listed' \in BOOLEAN ELSE listed' = listed
    /\ UNCHANGED tabVars

(* GET /: Prs reads the rows.  A list that is being written has any.  No   *)
(* page comes of rows that cannot be read (the handler panics).            *)
Load ==
    /\ page' \in (IF proc = "up" THEN {"rows"} ELSE {"none"})
                \cup (IF MayFail THEN {"none"} ELSE {})
    /\ rows' \in IF whole THEN {listed} ELSE BOOLEAN
    /\ UNCHANGED <<daemonVars, stamped, listed, shown, valid, pageAge, check, reload,
                   refreshing>>

OpenPage == page = "none" /\ proc = "up" /\ Load

(* Prs reads last_fetched, and the page is shown.  Its script starts anew. *)
(* The time of the page is the zero time where there is none to be read.   *)
ReadStamp ==
    /\ page = "rows"
    /\ page' = "shown"
    /\ shown' = age /\ valid' \in {stamped} \cup (IF MayFail THEN {FALSE} ELSE {})
    /\ pageAge' = 0 /\ check' = 0 /\ reload' = 0 /\ refreshing' = FALSE
    /\ UNCHANGED <<daemonVars, stamped, listed, rows>>

(* Math.round of a difference to the past: half a minute more is rounded   *)
(* down.                                                                   *)
Minutes(ticks) == (2 * ticks + Minute - 1) \div (2 * Minute)

TooOldWhenLoaded ==
    valid /\ pageAge = 0 /\ Minutes(shown) > RefreshIntervalMinutes + MarginMinutes

TooOld ==
    /\ valid /\ pageAge > QuietTime
    /\ Minutes(shown) > RefreshIntervalMinutes + MarginMinutes

UpdateTime ==
    /\ page = "shown" /\ rows /\ check = 0
    /\ \/ TooOld /\ Load
       \/ /\ ~TooOld
          /\ check' = CheckPeriod
          /\ UNCHANGED <<daemonVars, stamped, listed, page, rows, shown, valid, pageAge,
                         reload, refreshing>>

DueAfterAllClicks == reload + RefreshDelay

(* The first of several timers reloads the page. *)
Due == IF reload = 0 THEN RefreshDelay ELSE reload

(* The request fails when nobody listens; isRefreshing then stays set.     *)
ClickRefresh ==
    /\ page = "shown" /\ ~refreshing
    /\ IF proc = "up"
       THEN Refresh /\ reload' = Due /\ refreshing' = FALSE
       ELSE UNCHANGED <<daemonVars, reload>> /\ refreshing' = TRUE
    /\ UNCHANGED <<stamped, listed, page, rows, shown, valid, pageAge, check>>

ReloadAfterRefresh == page = "shown" /\ reload = 1 /\ Load

ClosePage ==
    /\ page = "shown"
    /\ page' = "none"
    /\ UNCHANGED <<daemonVars, stamped, listed, rows, shown, valid, pageAge, check,
                   reload, refreshing>>

(* The script of a page runs when its time comes. *)
TabBusy ==
    \/ page = "rows"
    \/ page = "shown" /\ (reload = 1 \/ (rows /\ check = 0))

OneLess(n, least) == IF n > least THEN n - 1 ELSE n

Clock ==
    /\ Prompt => ~TabBusy
    /\ ClockTicks
    /\ shown' = AtMost(ShownCap, shown + 1)
    /\ pageAge' = AtMost(QuietTime + 1, pageAge + 1)
    /\ check' = OneLess(check, 0)
    /\ reload' = OneLess(reload, 1)
    /\ UNCHANGED <<stamped, listed, page, rows, valid, refreshing>>

BrowserNext ==
    \/ DaemonStep
    \/ OpenPage
    \/ ReadStamp
    \/ UpdateTime
    \/ ClickRefresh
    \/ ReloadAfterRefresh
    \/ ClosePage
    \/ Clock

BrowserSpec == BrowserInit /\ [][BrowserNext]_browserVars

----------------------------------------------------------------------------
(* How old a page that was loaded from a healthy daemon may get in peace.  *)
OldestLoaded == 2 * BaseInterval + MaxDelay + QuietTime

(* A page with rows that is left open follows the list: while GitHub       *)
(* answers well, what it shows is at most one check of the time older than *)
(* what the daemon lets its list become (StaleAtMost) and the quiet time   *)
(* of a page just loaded, or than what the page bears with, in minutes.    *)
(* Neither the loads in the middle of a poll nor the refreshes, each of    *)
(* which reloads the old list, keep it from that.                          *)
PageFollows ==
    page = "shown" /\ rows /\ valid =>
        shown <= CheckPeriod + (IF OldestLoaded > Bearable THEN OldestLoaded
                                                           ELSE Bearable)
=============================================================================
