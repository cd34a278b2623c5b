------------------------------ MODULE Tracker ------------------------------
(***************************************************************************)
(* The polling timer with adaptive backoff: internal/backoff/backoff.go.   *)
(*                                                                         *)
(* One goroutine, run, turns a timer and manual refresh requests into      *)
(* "time to poll" signals on a channel of capacity one; Tick receives      *)
(* them.  RateLimited, ServerErrored and Succeeded move the multiplier of  *)
(* the interval.  The actions leave every variable that is not declared    *)
(* here alone, so that Daemon can instantiate this module; Spec composes   *)
(* run with the most general client, which calls any method at any time.   *)
(*                                                                         *)
(* Metrics and logging are left out.  Time is counted in ticks.            *)
(***************************************************************************)
EXTENDS Integers

CONSTANTS
    BaseInterval,   \* the configured interval, in ticks
    Unit            \* what multiplier 1.0 is counted as: fixed point of the float

ASSUME BaseIntervalAssumption == BaseInterval \in Nat \ {0}
ASSUME UnitAssumption == Unit \in Nat /\ Unit >= 2

VARIABLES
    multiplier,     \* in 1/Unit
    consecutiveOK,  \* saturates at CooldownThreshold: the code only asks >=
    pc,             \* where run is
    timer,          \* ticks left of the running timer, 0: timer.C is ready
    c,              \* signals buffered in the channel Tick receives from
    refresh,        \* manual refresh requests buffered
    done            \* the done channel is closed

runVars == <<pc, timer>>
paceVars == <<multiplier, consecutiveOK>>
trackerVars == <<multiplier, consecutiveOK, pc, timer, c, refresh, done>>

MaxMultiplier == 4 * Unit
CooldownThreshold == 3

AtMost(limit, n) == IF n > limit THEN limit ELSE n

CurrentInterval == (BaseInterval * multiplier) \div Unit

TypeOK ==
    /\ multiplier \in Unit..MaxMultiplier
    /\ consecutiveOK \in 0..CooldownThreshold
    /\ pc \in {"first", "arm", "select", "exited"}
    /\ timer \in 0..(4 * BaseInterval)
    /\ c \in 0..1
    /\ refresh \in 0..1
    /\ done \in BOOLEAN

Init ==
    /\ multiplier = Unit
    /\ consecutiveOK = 0
    /\ pc = "first"
    /\ timer = 0
    /\ c = 0
    /\ refresh = 0
    /\ done = FALSE

----------------------------------------------------------------------------
(* The goroutine run. *)

(* A send to a channel of capacity one that gives up when it is full. *)
Signal == c' = 1

FirstSignal ==
    /\ pc = "first"
    /\ c = 0
    /\ Signal
    /\ pc' = "arm"
    /\ UNCHANGED <<timer, refresh, done, paceVars>>

(* NewTimer or Reset.  The interval is read after the signal was sent, so  *)
(* a poll that is already over by then counts.                             *)
ArmTimer ==
    /\ pc = "arm"
    /\ timer' = CurrentInterval
    /\ pc' = "select"
    /\ UNCHANGED <<c, refresh, done, paceVars>>

OnTimer ==
    /\ pc = "select"
    /\ timer = 0
    /\ Signal
    /\ pc' = "arm"
    /\ UNCHANGED <<timer, refresh, done, paceVars>>

OnRefreshSilently ==
    /\ pc = "select"
    /\ refresh = 1
    /\ refresh' = 0
    /\ pc' = "arm"
    /\ UNCHANGED <<timer, c, done, paceVars>>

OnRefreshKeepsTimer ==
    /\ pc = "select"
    /\ refresh = 1
    /\ refresh' = 0
    /\ Signal
    /\ UNCHANGED <<runVars, done, paceVars>>

OnRefresh ==
    /\ pc = "select"
    /\ refresh = 1
    /\ refresh' = 0
    /\ Signal
    /\ pc' = "arm"
    /\ UNCHANGED <<timer, done, paceVars>>

OnDoneOnlyAtStart ==
    /\ pc = "first"
    /\ done
    /\ pc' = "exited"
    /\ UNCHANGED <<timer, c, refresh, done, paceVars>>

(* The done branch of either select; the deferred close(t.c) is Exited. *)
OnDone ==
    /\ pc \in {"first", "select"}
    /\ done
    /\ pc' = "exited"
    /\ UNCHANGED <<timer, c, refresh, done, paceVars>>

Exited == pc = "exited"

(* The clock.  Only an armed timer counts down; one that has expired stays *)
(* ready until run receives from it.                                       *)
Advance ==
    /\ timer' = IF pc = "select" /\ timer > 0 THEN timer - 1 ELSE timer
    /\ UNCHANGED <<pc, c, refresh, done, paceVars>>

----------------------------------------------------------------------------
(* The methods clients call. *)

(* Tick blocks until one of these is possible.  A closed channel still     *)
(* hands out what it has buffered.                                         *)
TickTrue ==
    /\ c = 1
    /\ c' = 0
    /\ UNCHANGED <<runVars, refresh, done, paceVars>>

TickFalse ==
    /\ c = 0
    /\ Exited
    /\ UNCHANGED trackerVars

RequestRefresh ==
    /\ refresh' = 1
    /\ UNCHANGED <<runVars, c, done, paceVars>>

Stop ==
    /\ done' = TRUE
    /\ UNCHANGED <<runVars, c, refresh, paceVars>>

BackOffUncapped(product) ==
    /\ multiplier' = product
    /\ consecutiveOK' = 0
    /\ UNCHANGED <<runVars, c, refresh, done>>

BackOff(product) ==
    /\ multiplier' = AtMost(MaxMultiplier, product)
    /\ consecutiveOK' = 0
    /\ UNCHANGED <<runVars, c, refresh, done>>

RateLimited == BackOff(2 * multiplier)

ServerErrored == BackOff((3 * multiplier) \div 2)

(* Halve, but never below 1.0. *)
Halved == IF multiplier \div 2 < Unit THEN Unit ELSE multiplier \div 2

SucceededOneTooMany ==
    LET enough == consecutiveOK >= CooldownThreshold /\ multiplier > Unit
    IN  /\ multiplier' = IF enough THEN Halved ELSE multiplier
        /\ consecutiveOK' = IF enough THEN 0
                            ELSE AtMost(CooldownThreshold, consecutiveOK + 1)
        /\ UNCHANGED <<runVars, c, refresh, done>>

Succeeded ==
    LET enough == consecutiveOK + 1 >= CooldownThreshold /\ multiplier > Unit
    IN  /\ multiplier' = IF enough THEN Halved ELSE multiplier
        /\ consecutiveOK' = IF enough THEN 0
                            ELSE AtMost(CooldownThreshold, consecutiveOK + 1)
        /\ UNCHANGED <<runVars, c, refresh, done>>

----------------------------------------------------------------------------
Run == FirstSignal \/ ArmTimer \/ OnTimer \/ OnRefresh \/ OnDone

Next ==
    \/ FirstSignal
    \/ ArmTimer
    \/ OnTimer
    \/ OnRefresh
    \/ OnDone
    \/ Advance
    \/ TickTrue
    \/ TickFalse
    \/ RequestRefresh
    \/ Stop
    \/ RateLimited
    \/ ServerErrored
    \/ Succeeded

(* Go's select picks among its ready branches at random, hence strong      *)
(* fairness for the branches; the scheduler runs a ready goroutine and     *)
(* time passes, hence weak fairness for the rest.  Clients owe nothing.    *)
RunFairness ==
    /\ WF_trackerVars(FirstSignal)
    /\ WF_trackerVars(ArmTimer)
    /\ SF_trackerVars(OnTimer)
    /\ SF_trackerVars(OnRefresh)
    /\ SF_trackerVars(OnDone)
    /\ WF_trackerVars(Advance)

Spec == Init /\ [][Next]_trackerVars

----------------------------------------------------------------------------
(* A manual refresh request (the GUI's "r", a new PAT) is answered by a    *)
(* signal, whatever the clients do meanwhile, unless the tracker stops:    *)
(* no order of timer, refresh and rearm in run loses the request.          *)
RefreshIsServed == refresh = 1 ~> (c = 1 /\ refresh = 0) \/ done

(* The polling timer never stalls: a signal is there again and again until *)
(* Stop, even when refreshes keep rearming the timer.                      *)
SignalsKeepComing == []<>(c = 1 \/ done)

(* Stop ends the goroutine, and so closes the channel Tick blocks on, from *)
(* every point of run at which Stop may come.                              *)
StopEndsRun == done ~> Exited
============================================================================
