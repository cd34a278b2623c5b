---------------------------- MODULE DaemonProofs ----------------------------
(***************************************************************************)
(* Proofs about Daemon, for every base interval, every bound and every set *)
(* of answers and requests, with crashes and failing statements.           *)
(***************************************************************************)
EXTENDS Daemon, TLAPS

----------------------------------------------------------------------------
(* The tracker inside the daemon. *)

(* No answer and no crash takes the multiplier out of 1.0..4.0. *)
LEMMA PaceInRange ==
    ASSUME multiplier \in Unit..(4 * Unit)
    PROVE  /\ Polling!AtMost(4 * Unit, 2 * multiplier) \in Unit..(4 * Unit)
           /\ Polling!AtMost(4 * Unit, (3 * multiplier) \div 2) \in Unit..(4 * Unit)
           /\ Polling!Halved \in Unit..(4 * Unit)
  BY PaceAssumption DEF Polling!AtMost, Polling!Halved

(* A multiplier of at most 4.0 never makes it longer than four times the  *)
(* base interval.                                                          *)
LEMMA IntervalIsBounded ==
    ASSUME NEW m \in Nat, m <= 4 * Unit
    PROVE  (BaseInterval * m) \div Unit \in 0..(4 * BaseInterval)
<1> DEFINE p == BaseInterval * m
<1>1. p \in Nat /\ p <= 4 * (BaseInterval * Unit)
  <2>1. PICK k \in Nat : 4 * Unit = m + k
    <3>1. 4 * Unit - m \in Nat /\ 4 * Unit = m + (4 * Unit - m)
      BY PaceAssumption
    <3> QED BY <3>1
  <2>2. BaseInterval * (4 * Unit) = BaseInterval * m + BaseInterval * k
    BY <2>1, PaceAssumption
  <2>3. BaseInterval * k \in Nat /\ BaseInterval * m \in Nat
    BY <2>1, PaceAssumption
  <2>4. BaseInterval * (4 * Unit) = 4 * (BaseInterval * Unit)
    BY PaceAssumption
  <2> QED BY <2>2, <2>3, <2>4
<1> DEFINE d == p \div Unit
<1>2. \A n \in Nat : n \div Unit \in Nat /\ Unit * (n \div Unit) <= n
  BY PaceAssumption
<1>3. d \in Nat /\ Unit * d <= p
  <2> HIDE DEF p
  <2> QED BY <1>1, <1>2
<1> HIDE DEF d, p
<1>4. ASSUME d > 4 * BaseInterval PROVE FALSE
  <2>1. PICK k \in Nat : d = 4 * BaseInterval + 1 + k
    <3>1. d - (4 * BaseInterval + 1) \in Nat
      BY <1>3, <1>4, PaceAssumption
    <3>2. d = 4 * BaseInterval + 1 + (d - (4 * BaseInterval + 1))
      BY <1>3, PaceAssumption
    <3> QED BY <3>1, <3>2
  <2>2. Unit * d = 4 * (BaseInterval * Unit) + Unit + k * Unit
    BY <2>1, PaceAssumption
  <2>3. k * Unit \in Nat /\ BaseInterval * Unit \in Nat
    BY <2>1, PaceAssumption
  <2> QED BY <1>1, <1>3, <2>2, <2>3, PaceAssumption
<1>5. d <= 4 * BaseInterval
  BY <1>3, <1>4, PaceAssumption
<1> QED BY <1>3, <1>5 DEF d, p

(* Scaling by 1.0 and truncating gives the base interval again. *)
LEMMA BaseIsUnscaled == (BaseInterval * Unit) \div Unit = BaseInterval
<1> DEFINE p == BaseInterval * Unit
           d == p \div Unit
<1>1. p \in Nat
  BY PaceAssumption
<1>2. \A n \in Nat : n \div Unit \in Nat /\ Unit * (n \div Unit) <= n
                                       /\ n < Unit * (n \div Unit) + Unit
  BY PaceAssumption
<1>3. d \in Nat /\ Unit * d <= p /\ p < Unit * d + Unit
  <2> HIDE DEF p
  <2> QED BY <1>1, <1>2
<1> HIDE DEF d
<1>4. ASSUME d < BaseInterval PROVE FALSE
  <2>1. PICK k \in Nat : BaseInterval = d + 1 + k
    <3>1. BaseInterval - (d + 1) \in Nat
      BY <1>3, <1>4, PaceAssumption
    <3>2. BaseInterval = d + 1 + (BaseInterval - (d + 1))
      BY <1>3, PaceAssumption
    <3> QED BY <3>1, <3>2
  <2>2. BaseInterval * Unit = Unit * d + Unit + k * Unit
    BY <1>3, <2>1, PaceAssumption
  <2>3. k * Unit \in Nat /\ Unit * d \in Nat
    BY <1>3, <2>1, PaceAssumption
  <2> QED BY <1>3, <2>2, <2>3, PaceAssumption
<1>5. ASSUME d > BaseInterval PROVE FALSE
  <2>1. PICK k \in Nat : d = BaseInterval + 1 + k
    <3>1. d - (BaseInterval + 1) \in Nat
      BY <1>3, <1>5, PaceAssumption
    <3>2. d = BaseInterval + 1 + (d - (BaseInterval + 1))
      BY <1>3, PaceAssumption
    <3> QED BY <3>1, <3>2
  <2>2. Unit * d = BaseInterval * Unit + Unit + k * Unit
    BY <2>1, PaceAssumption
  <2>3. k * Unit \in Nat /\ BaseInterval * Unit \in Nat
    BY <2>1, PaceAssumption
  <2> QED BY <1>3, <2>2, <2>3, PaceAssumption
<1>6. d = BaseInterval
  BY <1>3, <1>4, <1>5, PaceAssumption
<1> QED BY <1>6 DEF d

LEMMA PollingTypeStep ==
    Polling!TypeOK /\ [Polling!Next]_trackerVars => Polling!TypeOK'
<1> SUFFICES ASSUME Polling!TypeOK, [Polling!Next]_trackerVars
             PROVE  Polling!TypeOK'
  OBVIOUS
<1> USE PaceAssumption DEF Polling!TypeOK, Polling!MaxMultiplier, Polling!CooldownThreshold
<1>1. CASE Polling!RateLimited \/ Polling!ServerErrored
  <2>1. multiplier' \in Unit..(4 * Unit)
    BY <1>1, PaceInRange
    DEF Polling!RateLimited, Polling!ServerErrored, Polling!BackOff
  <2>2. done' = done
    BY <1>1, Zenon DEF Polling!RateLimited, Polling!ServerErrored, Polling!BackOff
  <2> QED BY <1>1, <2>1, <2>2
          DEF Polling!RateLimited, Polling!ServerErrored, Polling!BackOff,
              Polling!runVars
<1>2. CASE Polling!Succeeded
  <2>1. multiplier' \in Unit..(4 * Unit)
    BY <1>2, PaceInRange DEF Polling!Succeeded
  <2>2. consecutiveOK' \in 0..3
    BY <1>2 DEF Polling!Succeeded, Polling!AtMost
  <2> QED BY <1>2, <2>1, <2>2 DEF Polling!Succeeded, Polling!runVars
<1>3. CASE Polling!ArmTimer
  <2>1. timer' \in 0..(4 * BaseInterval)
    BY <1>3, IntervalIsBounded DEF Polling!ArmTimer, Polling!CurrentInterval
  <2> QED BY <1>3, <2>1 DEF Polling!ArmTimer, Polling!paceVars
<1>4. CASE Polling!FirstSignal \/ Polling!OnTimer \/ Polling!OnRefresh
  BY <1>4 DEF Polling!FirstSignal, Polling!OnTimer, Polling!OnRefresh, Polling!Signal,
              Polling!paceVars
<1>5. CASE Polling!Advance
  BY <1>5 DEF Polling!Advance, Polling!paceVars
<1>6. CASE Polling!OnDone \/ Polling!TickTrue \/ Polling!TickFalse
             \/ Polling!RequestRefresh \/ Polling!Stop
  <2>1. done' \in BOOLEAN
    BY <1>6, Zenon DEF Polling!OnDone, Polling!TickTrue, Polling!TickFalse,
                       Polling!RequestRefresh, Polling!Stop, Polling!trackerVars
  <2> QED BY <1>6, <2>1
          DEF Polling!OnDone, Polling!TickTrue, Polling!TickFalse,
              Polling!RequestRefresh, Polling!Stop, Polling!trackerVars,
              Polling!runVars, Polling!paceVars
<1>7. CASE UNCHANGED trackerVars
  BY <1>7 DEF trackerVars
<1> QED BY <1>1, <1>2, <1>3, <1>4, <1>5, <1>6, <1>7 DEF Polling!Next

LEMMA PollingTypeInit == Polling!Init => Polling!TypeOK
<1> SUFFICES ASSUME Polling!Init PROVE Polling!TypeOK
  OBVIOUS
<1>1. done \in BOOLEAN /\ pc \in {"first", "arm", "select", "exited"}
  BY Zenon DEF Polling!Init
<1> QED BY <1>1, PaceAssumption
        DEF Polling!Init, Polling!TypeOK, Polling!MaxMultiplier,
            Polling!CooldownThreshold

Verdicts == {"succeeded", "rateLimited", "givingUp", "serverErrored", "skipped"}

LEMMA LoopVerdictIsOne == \A a : LoopVerdict(a) \in Verdicts
<1> TAKE a
<1> DEFINE result == QueryGithub(a)
<1>1. LoopVerdict(a) =
        CASE result.ok -> "succeeded"
          [] ~result.ok /\ Is(result, "ErrRateLimited") -> "rateLimited"
          [] ~result.ok /\ ~Is(result, "ErrRateLimited") /\ Is(result, "ErrClient") ->
               "givingUp"
          [] ~result.ok /\ result.wraps \cap {"ErrRateLimited", "ErrClient"} = {}
               /\ Is(result, "ErrGithubServer") -> "serverErrored"
          [] OTHER -> "skipped"
  BY DEF LoopVerdict
<1> HIDE DEF result
<1> QED BY <1>1 DEF Verdicts

(* Whatever the daemon does is a step of the tracker's or leaves it alone, *)
(* but for a crash, which starts it anew.                                  *)
LEMMA DaemonDrivesTracker ==
    Next => [Polling!Next]_trackerVars \/ Polling!Init'
<1> SUFFICES ASSUME Next PROVE [Polling!Next]_trackerVars \/ Polling!Init'
  OBVIOUS
<1>1. CASE Crash
  BY <1>1 DEF Crash, Polling!Init
<1>2. CASE \E a \in Replies : QueryAnswered(a)
  <2>1. PICK a \in Replies : QueryAnswered(a)
    BY <1>2
  <2> DEFINE verdict == LoopVerdict(a)
  <2>2. Pace(verdict)
    BY <2>1 DEF QueryAnswered
  <2>3. verdict \in Verdicts
    BY LoopVerdictIsOne
  <2> HIDE DEF verdict
  <2> QED BY <2>2, <2>3 DEF Pace, Verdicts, Polling!Next
<1>3. CASE \/ RunStep(Polling!FirstSignal) \/ RunStep(Polling!ArmTimer)
           \/ RunStep(Polling!OnTimer) \/ RunStep(Polling!OnRefresh)
           \/ RunStep(Polling!OnDone)
  BY <1>3 DEF RunStep, Polling!Next
<1>4. CASE LoopTick \/ LoopTickFails \/ LastFetchedUnread \/ LoopEnds \/ Refresh
             \/ PutRefreshes \/ DeleteStops \/ ClockTicks
  BY <1>4 DEF LoopTick, LoopTickFails, LastFetchedUnread, LoopEnds, Refresh,
              PutRefreshes, DeleteStops, ClockTicks, Polling!Next
<1>5. CASE \/ \E env \in EnvPat : Start(env)
           \/ \E a, b \in Replies :
                 ValidateEnv(a, b) \/ ValidateStored(a, b) \/ PutValidated(a, b)
           \/ InitFails \/ PutPat \/ PutFails \/ DeletePat
  BY <1>5 DEF Start, ValidateEnv, ValidateStored, PutValidated, InitFails, PutPat,
              PutFails, DeletePat
<1>6. CASE \/ \E ticks \in 1..MaxLimit : SetRateLimitUntil(ticks)
           \/ DeletePrs \/ FillAndStamp \/ StatementFails
  BY <1>6 DEF SetRateLimitUntil, DeletePrs, FillAndStamp, StatementFails
<1> QED BY <1>1, <1>2, <1>3, <1>4, <1>5, <1>6 DEF Next, Steps

----------------------------------------------------------------------------
(* Past the gates the list is an interval old, until it is stamped anew,   *)
(* unless they were passed without its age; and the patience with one      *)
(* request is a minute, with two it is two.                                *)
PastTheGates ==
    /\ loop \in {"query", "limit", "store", "fill"} /\ ~blind => age >= BaseInterval
    /\ loop = "query" => elapsed <= MaxDelay

DaemonInv == TypeOK /\ PastTheGates /\ PartialListIsStale

LEMMA DaemonInit == Init => DaemonInv
<1> SUFFICES ASSUME Init PROVE DaemonInv
  OBVIOUS
<1> USE PaceAssumption, DelayAssumption, FailuresAssumption
<1>1. Polling!TypeOK
  BY PollingTypeInit DEF Init
<1>2. /\ pat \in BOOLEAN /\ whole \in BOOLEAN /\ fresh \in BOOLEAN
      /\ blind \in BOOLEAN
      /\ proc \in {"down", "env", "stored", "up"}
      /\ loop \in {"tick", "query", "limit", "store", "fill", "ended"}
      /\ put \in {"none", "validating", "refreshing"}
      /\ del \in {"none", "stopping"}
  BY Zenon DEF Init
<1>3. AgeCap \in Nat
  BY DEF AgeCap
<1>4. /\ elapsed \in 0..(2 * MaxDelay) /\ limit \in 0..MaxLimit
      /\ age \in 0..AgeCap /\ failures \in 0..MaxFailures
  BY <1>3 DEF Init
<1>5. TypeOK
  BY <1>1, <1>2, <1>4, Zenon DEF TypeOK
<1>6. PastTheGates /\ PartialListIsStale
  BY DEF Init, PastTheGates, PartialListIsStale
<1> QED BY <1>5, <1>6 DEF DaemonInv

(* An answer moves the loop on to one of the steps it has. *)
LEMMA AnswerMovesLoop ==
    ASSUME NEW a \in Replies, QueryAnswered(a)
    PROVE  /\ loop = "query" /\ proc' = proc /\ elapsed' = 0
           /\ loop' \in {"tick", "limit", "store", "ended"}
           /\ UNCHANGED <<put, del, pat, limit, age, whole, failures, fresh, blind>>
<1> DEFINE verdict == LoopVerdict(a)
<1>1. verdict \in Verdicts
  BY LoopVerdictIsOne
<1>2. loop' = CASE verdict = "succeeded" -> "store"
                [] verdict = "rateLimited" -> "limit"
                [] verdict = "givingUp" -> "ended"
                [] verdict \in {"serverErrored", "skipped"} -> "tick"
  BY DEF QueryAnswered
<1>3. /\ loop = "query" /\ proc' = proc /\ elapsed' = 0
      /\ UNCHANGED <<put, del, pat, limit, age, whole, failures, fresh, blind>>
  BY DEF QueryAnswered, handlers, database, history
<1> HIDE DEF verdict
<1> QED BY <1>1, <1>2, <1>3 DEF Verdicts

(* The strings and truth values of the daemon. *)
LEMMA StatesStep ==
    ASSUME TypeOK, [Next]_daemonVars
    PROVE  /\ proc' \in {"down", "env", "stored", "up"}
           /\ loop' \in {"tick", "query", "limit", "store", "fill", "ended"}
           /\ put' \in {"none", "validating", "refreshing"}
           /\ del' \in {"none", "stopping"}
           /\ pat' \in BOOLEAN /\ whole' \in BOOLEAN /\ fresh' \in BOOLEAN /\ blind' \in BOOLEAN
<1> USE DEF handlers, database, history, TypeOK
<1>1. CASE \E a \in Replies : QueryAnswered(a)
  BY <1>1, AnswerMovesLoop
<1>2. CASE \/ \E env \in EnvPat : Start(env)
           \/ InitFails \/ Crash \/ PutPat \/ PutFails
  BY <1>2, Zenon DEF Start, InitFails, Crash, PutPat, PutFails
<1>3. CASE \E a, b \in Replies :
              ValidateEnv(a, b) \/ ValidateStored(a, b) \/ PutValidated(a, b)
  <2>1. PICK a \in Replies, b \in Replies :
           ValidateEnv(a, b) \/ ValidateStored(a, b) \/ PutValidated(a, b)
    BY <1>3
  <2> DEFINE verdict == PatVerdict(a, b)
  <2>2. CASE ValidateEnv(a, b)
    BY <2>2 DEF ValidateEnv
  <2>3. CASE ValidateStored(a, b)
    BY <2>3 DEF ValidateStored
  <2>4. CASE PutValidated(a, b)
    BY <2>4 DEF PutValidated
  <2> QED BY <2>1, <2>2, <2>3, <2>4
<1>4. CASE LoopTick \/ LoopTickFails \/ LastFetchedUnread \/ LoopEnds
  BY <1>4, Zenon DEF LoopTick, LoopTickFails, LastFetchedUnread, LoopEnds
<1>5. CASE \/ \E ticks \in 1..MaxLimit : SetRateLimitUntil(ticks)
           \/ DeletePrs \/ FillAndStamp \/ StatementFails
  BY <1>5, Zenon DEF SetRateLimitUntil, DeletePrs, FillAndStamp, StatementFails
<1>6. CASE \/ RunStep(Polling!FirstSignal) \/ RunStep(Polling!ArmTimer)
           \/ RunStep(Polling!OnTimer) \/ RunStep(Polling!OnRefresh)
           \/ RunStep(Polling!OnDone)
  BY <1>6, Zenon DEF RunStep
<1>7. CASE Refresh \/ PutRefreshes \/ DeletePat \/ DeleteStops \/ ClockTicks
  BY <1>7, Zenon DEF Refresh, PutRefreshes, DeletePat, DeleteStops, ClockTicks
<1>8. CASE UNCHANGED daemonVars
  BY <1>8, Zenon DEF daemonVars
<1> QED BY <1>1, <1>2, <1>3, <1>4, <1>5, <1>6, <1>7, <1>8 DEF Next, Steps

(* The clock is the only one to count, and it stops at the patience.       *)
LEMMA ClockStep ==
    ASSUME DaemonInv, ClockTicks
    PROVE  /\ elapsed' \in 0..(2 * MaxDelay) /\ limit' \in 0..MaxLimit
           /\ age' \in 0..AgeCap /\ failures' \in 0..MaxFailures
           /\ PastTheGates' /\ PartialListIsStale'
<1> USE PaceAssumption, DelayAssumption, FailuresAssumption
<1>1. /\ elapsed \in 0..(2 * MaxDelay) /\ limit \in 0..MaxLimit
      /\ age \in 0..AgeCap /\ failures \in 0..MaxFailures
      /\ loop = "query" => elapsed <= MaxDelay
  BY DEF DaemonInv, TypeOK, PastTheGates
<1>2. elapsed' \in 0..(2 * MaxDelay) /\ (loop = "query" => elapsed' <= MaxDelay)
  BY <1>1 DEF ClockTicks, OutOfPatience, Asking
<1>3. limit' \in 0..MaxLimit /\ failures' = failures
  BY <1>1 DEF ClockTicks
<1>4. age' \in 0..AgeCap /\ (age >= BaseInterval => age' >= BaseInterval)
  BY <1>1 DEF ClockTicks, AtMost, AgeCap
<1>5. loop' = loop /\ whole' = whole /\ blind' = blind
  BY DEF ClockTicks, history
<1> QED BY <1>1, <1>2, <1>3, <1>4, <1>5, Zenon
        DEF DaemonInv, PastTheGates, PartialListIsStale

(* Everything else leaves the numbers alone or sets them. *)
LEMMA NumbersStep ==
    ASSUME TypeOK, Steps
    PROVE  /\ elapsed' \in {elapsed, 0} /\ limit' \in 0..MaxLimit
           /\ age' \in {age, 0} /\ failures' \in 0..MaxFailures
<1> USE DelayAssumption, FailuresAssumption
    DEF handlers, database, TypeOK, Fail, MayFail
<1>1. CASE \E a \in Replies : QueryAnswered(a)
  BY <1>1, AnswerMovesLoop
<1>2. CASE \E env \in EnvPat : Start(env)
  BY <1>2 DEF Start
<1>3. CASE \E a, b \in Replies :
              ValidateEnv(a, b) \/ ValidateStored(a, b) \/ PutValidated(a, b)
  BY <1>3 DEF ValidateEnv, ValidateStored, PutValidated
<1>4. CASE InitFails \/ Crash \/ LoopTickFails \/ StatementFails \/ PutFails
  BY <1>4 DEF InitFails, Crash, LoopTickFails, StatementFails, PutFails
<1>5. CASE \E ticks \in 1..MaxLimit : SetRateLimitUntil(ticks)
  BY <1>5 DEF SetRateLimitUntil
<1>6. CASE LoopTick \/ LoopEnds
  BY <1>6 DEF LoopTick, LoopEnds
<1>10. CASE LastFetchedUnread
  <2>1. elapsed' = 0 /\ limit' = limit /\ age' = age
    BY <1>10 DEF LastFetchedUnread
  <2>2. failures' \in 0..MaxFailures
    BY <1>10 DEF LastFetchedUnread
  <2> QED BY <2>1, <2>2
<1>9. CASE DeletePrs \/ FillAndStamp
  BY <1>9 DEF DeletePrs, FillAndStamp
<1>7. CASE \/ RunStep(Polling!FirstSignal) \/ RunStep(Polling!ArmTimer)
           \/ RunStep(Polling!OnTimer) \/ RunStep(Polling!OnRefresh)
           \/ RunStep(Polling!OnDone)
  BY <1>7 DEF RunStep
<1>8. CASE Refresh \/ PutPat \/ PutRefreshes \/ DeletePat \/ DeleteStops
  BY <1>8 DEF Refresh, PutPat, PutRefreshes, DeletePat, DeleteStops
<1> QED BY <1>1, <1>2, <1>3, <1>4, <1>5, <1>6, <1>7, <1>8, <1>9, <1>10
        DEF Steps

(* The gates open at an interval; the age and the patience start anew only *)
(* where the loop has left what depends on them.                           *)
LEMMA GatesStep ==
    ASSUME DaemonInv, Steps
    PROVE  PastTheGates' /\ PartialListIsStale'
<1> USE PaceAssumption, DelayAssumption
    DEF handlers, database, history, PastTheGates, PartialListIsStale
<1>1. PastTheGates /\ PartialListIsStale
  BY DEF DaemonInv
<1>2. CASE \E a \in Replies : QueryAnswered(a)
  BY <1>1, <1>2, AnswerMovesLoop
<1>3. CASE LoopTick
  <2>1. /\ loop' = IF Gates(TRUE) THEN "query" ELSE "tick"
        /\ elapsed' = 0 /\ age' = age /\ whole' = whole
    BY <1>3 DEF LoopTick
  <2>2. Gates(TRUE) => age >= BaseInterval
    BY DEF Gates
  <2>3. ~Gates(TRUE) /\ ~blind' => ~blind
    BY <1>3, Zenon DEF LoopTick
  <2>4. CASE Gates(TRUE)
    BY <2>1, <2>2, <2>4
  <2>5. CASE ~Gates(TRUE)
    BY <1>1, <2>1, <2>3, <2>5
  <2> QED BY <2>4, <2>5
<1>4. CASE DeletePrs
  BY <1>1, <1>4 DEF DeletePrs
<1>5. CASE FillAndStamp
  BY <1>5 DEF FillAndStamp
<1>6. CASE StatementFails
  BY <1>1, <1>6 DEF StatementFails
<1>7. CASE LoopTickFails \/ LoopEnds \/ Crash
  BY <1>1, <1>7 DEF LoopTickFails, LoopEnds, Crash
<1>8. CASE \/ \E env \in EnvPat : Start(env)
           \/ \E ticks \in 1..MaxLimit : SetRateLimitUntil(ticks)
           \/ InitFails
  BY <1>1, <1>8 DEF Start, SetRateLimitUntil, InitFails
<1>9. CASE \E a, b \in Replies :
              ValidateEnv(a, b) \/ ValidateStored(a, b) \/ PutValidated(a, b)
  BY <1>1, <1>9 DEF ValidateEnv, ValidateStored, PutValidated
<1>10. CASE \/ RunStep(Polling!FirstSignal) \/ RunStep(Polling!ArmTimer)
            \/ RunStep(Polling!OnTimer) \/ RunStep(Polling!OnRefresh)
            \/ RunStep(Polling!OnDone)
  BY <1>1, <1>10 DEF RunStep
<1>11. CASE Refresh \/ PutPat \/ PutFails \/ PutRefreshes \/ DeletePat \/ DeleteStops
  BY <1>1, <1>11 DEF Refresh, PutPat, PutFails, PutRefreshes, DeletePat, DeleteStops
<1>12. CASE LastFetchedUnread
  <2>1. blind' /\ elapsed' = 0
    BY <1>12 DEF LastFetchedUnread
  <2> QED BY <2>1
<1> QED BY <1>2, <1>3, <1>4, <1>5, <1>6, <1>7, <1>8, <1>9, <1>10, <1>11, <1>12 DEF Steps

LEMMA DaemonStepKeeps == DaemonInv /\ [Next]_daemonVars => DaemonInv'
<1> SUFFICES ASSUME DaemonInv, [Next]_daemonVars PROVE DaemonInv'
  OBVIOUS
<1>1. TypeOK /\ Polling!TypeOK
  BY DEF DaemonInv, TypeOK
<1>2. /\ proc' \in {"down", "env", "stored", "up"}
      /\ loop' \in {"tick", "query", "limit", "store", "fill", "ended"}
      /\ put' \in {"none", "validating", "refreshing"}
      /\ del' \in {"none", "stopping"}
      /\ pat' \in BOOLEAN /\ whole' \in BOOLEAN /\ fresh' \in BOOLEAN /\ blind' \in BOOLEAN
  BY <1>1, StatesStep
<1>3. Polling!TypeOK'
  <2>1. CASE Next
    <3>1. Polling!Init' => Polling!TypeOK'
      BY PollingTypeInit, PTL
    <3> QED BY <1>1, <2>1, <3>1, DaemonDrivesTracker, PollingTypeStep
  <2>2. CASE UNCHANGED daemonVars
    BY <1>1, <2>2, PollingTypeStep DEF daemonVars
  <2> QED BY <2>1, <2>2
<1>4. /\ elapsed' \in 0..(2 * MaxDelay) /\ limit' \in 0..MaxLimit
      /\ age' \in 0..AgeCap /\ failures' \in 0..MaxFailures
      /\ PastTheGates' /\ PartialListIsStale'
  <2>1. CASE ClockTicks
    BY <2>1, ClockStep
  <2>2. CASE Steps
    <3>1. /\ elapsed \in 0..(2 * MaxDelay) /\ age \in 0..AgeCap
          /\ 0 \in 0..(2 * MaxDelay) /\ 0 \in 0..AgeCap
      BY <1>1, PaceAssumption, DelayAssumption DEF TypeOK, AgeCap
    <3> QED BY <1>1, <2>2, <3>1, NumbersStep, GatesStep, Zenon
  <2>3. CASE UNCHANGED daemonVars
    BY <2>3 DEF daemonVars, database, history, DaemonInv, TypeOK, PastTheGates,
                PartialListIsStale
  <2> QED BY <2>1, <2>2, <2>3 DEF Next
<1>5. TypeOK'
  BY <1>2, <1>3, <1>4, Zenon DEF TypeOK
<1> QED BY <1>4, <1>5 DEF DaemonInv

(* What the loop remembers of its gates, of its patience and of the list   *)
(* holds of every step of the daemon.                                      *)
THEOREM DaemonInvariant == Spec => []DaemonInv
<1> QED BY DaemonInit, DaemonStepKeeps, PTL DEF Spec

(* The type invariant, for every base interval, with crashes, failing      *)
(* statements and every answer of GitHub.                                  *)
THEOREM DaemonTypeCorrect == Spec => []TypeOK
<1>1. DaemonInv => TypeOK
  BY DEF DaemonInv
<1> QED BY <1>1, DaemonInvariant, PTL

(* Wherever the process dies and whichever statements fail, a list that is *)
(* not whole is old enough for the age gate and the next poll replaces it, *)
(* unless it was taken because last_fetched could not be read.             *)
THEOREM PartialListsAreStale == Spec => []PartialListIsStale
<1>1. DaemonInv => PartialListIsStale
  BY DEF DaemonInv
<1> QED BY <1>1, DaemonInvariant, PTL

----------------------------------------------------------------------------
(* Refinement: the daemon renews the list as the statements of PrStore do. *)
LEMMA RenewalStep ==
    DaemonInv /\ [Next]_daemonVars => [Renewing!Next]_(Renewing!renewalVars)
<1> SUFFICES ASSUME DaemonInv, [Next]_daemonVars
             PROVE  Renewing!Next \/ UNCHANGED Renewing!renewalVars
  BY DEF Renewing!renewalVars
<1> USE PaceAssumption DEF handlers, database, Renewing!renewalVars
<1>1. age \in 0..AgeCap /\ AgeCap \in Nat
  BY DelayAssumption DEF DaemonInv, TypeOK, AgeCap
<1>2. CASE \E a \in Replies : QueryAnswered(a)
  <2>1. /\ loop = "query" /\ loop' \in {"tick", "limit", "store", "ended"}
        /\ age' = age /\ whole' = whole
    BY <1>2, AnswerMovesLoop
  <2>2. CASE loop' = "store"
    BY <1>1, <2>1, <2>2 DEF Renewing!Take, Renewing!Next
  <2>3. CASE loop' # "store"
    BY <2>1, <2>3
  <2> QED BY <2>2, <2>3
<1>3. CASE DeletePrs
  BY <1>3 DEF DeletePrs, Renewing!Empty, Renewing!Next
<1>4. CASE FillAndStamp
  BY <1>4 DEF FillAndStamp, Renewing!Stamp, Renewing!Next
<1>5. CASE StatementFails
  <2>1. /\ loop \in {"limit", "store", "fill"} /\ loop' = "tick" /\ age' = age
        /\ whole' = (whole \/ loop = "fill")
    BY <1>5 DEF StatementFails
  <2>2. whole' = whole \/ (loop = "fill" /\ whole' = TRUE)
    <3>1. whole \in BOOLEAN
      BY DEF DaemonInv, TypeOK
    <3>2. CASE loop = "fill"
      BY <2>1, <3>2, Zenon
    <3>3. CASE loop # "fill"
      BY <2>1, <3>1, <3>3, Zenon
    <3> QED BY <3>2, <3>3
  <2> QED BY <2>1, <2>2 DEF Renewing!GiveUp, Renewing!Next
<1>6. CASE Crash
  BY <1>6 DEF Crash, Renewing!GiveUp, Renewing!Next
<1>7. CASE ClockTicks
  <2>1. age' >= age
    BY <1>1, <1>7 DEF ClockTicks, AtMost
  <2> QED BY <1>7, <2>1 DEF ClockTicks, Renewing!GrowOld, Renewing!Next
<1>8. CASE LoopTick \/ LoopTickFails \/ LastFetchedUnread \/ LoopEnds
  BY <1>8 DEF LoopTick, LoopTickFails, LastFetchedUnread, LoopEnds
<1>9. CASE \/ \E env \in EnvPat : Start(env)
           \/ \E ticks \in 1..MaxLimit : SetRateLimitUntil(ticks)
           \/ \E a, b \in Replies :
                 ValidateEnv(a, b) \/ ValidateStored(a, b) \/ PutValidated(a, b)
           \/ InitFails
  BY <1>9 DEF Start, SetRateLimitUntil, ValidateEnv, ValidateStored, PutValidated,
              InitFails
<1>10. CASE \/ RunStep(Polling!FirstSignal) \/ RunStep(Polling!ArmTimer)
            \/ RunStep(Polling!OnTimer) \/ RunStep(Polling!OnRefresh)
            \/ RunStep(Polling!OnDone)
  BY <1>10 DEF RunStep
<1>11. CASE Refresh \/ PutPat \/ PutFails \/ PutRefreshes \/ DeletePat \/ DeleteStops
  BY <1>11 DEF Refresh, PutPat, PutFails, PutRefreshes, DeletePat, DeleteStops
<1>12. CASE UNCHANGED daemonVars
  BY <1>12 DEF daemonVars
<1> QED BY <1>2, <1>3, <1>4, <1>5, <1>6, <1>7, <1>8, <1>9, <1>10, <1>11, <1>12
     DEF Next, Steps

(* The loop, through restarts, requests, failures and answers, keeps the   *)
(* order of StoreRepoPrs: the old list goes, the new one is whole, and     *)
(* only then it is called up to date.                                      *)
THEOREM DaemonRenewsInOrder == Spec => RenewsInOrder
<1>1. Init => Renewing!Init
  BY PaceAssumption, DelayAssumption DEF Init, AgeCap, Renewing!Init
<1> QED BY <1>1, RenewalStep, DaemonInvariant, PTL
     DEF Spec, RenewsInOrder, Renewing!Spec

----------------------------------------------------------------------------
(* GitHub gives a list whenever it is asked, nothing fails, and users only *)
(* ask for refreshes or put a PAT.                                         *)
Healthy ==
    /\ Prompt /\ MaxFailures = 0
    /\ \A a \in Replies : LoopVerdict(a) = "succeeded"
    /\ HttpRequests \subseteq {"refresh", "put"}

(* The tracker keeps the base interval, and nothing has been polled before *)
(* the process is up and its tracker runs.                                 *)
SteadyPace ==
    /\ multiplier = Unit
    /\ timer \in 0..BaseInterval
    /\ ~done /\ pc # "exited" /\ del = "none" /\ failures = 0
    /\ proc # "up" => pc = "first"
    /\ pc = "first" => c = 0 /\ consecutiveOK = 0 /\ loop = "tick"

(* The loop never waits for a rate limit, and has a PAT once it asked.     *)
SteadyLoop ==
    /\ limit = 0
    /\ loop \in {"tick", "query", "store", "fill"}
    /\ loop # "tick" \/ consecutiveOK > 0 => pat

(* The age of the list and the time left on the timer: a poll that comes   *)
(* too early finds a list younger than an interval, so the next one comes  *)
(* before it is two intervals old.                                         *)
SteadyAge ==
    consecutiveOK > 0 =>
        /\ loop = "tick" => age <= 2 * BaseInterval
        /\ loop = "tick" /\ c = 0 /\ pc = "select" => age + timer <= 2 * BaseInterval
        /\ loop = "tick" /\ c = 0 /\ pc = "arm" => age < BaseInterval
        /\ loop = "query" => age <= 2 * BaseInterval + elapsed

SteadyInv == SteadyPace /\ SteadyLoop /\ SteadyAge

LEMMA SteadyInit == Init => SteadyInv
<1> SUFFICES ASSUME Init PROVE SteadyInv
  OBVIOUS
<1> USE PaceAssumption
<1>1. ~done
  BY Zenon DEF Init, Polling!Init
<1>2. SteadyPace
  BY <1>1 DEF Init, Polling!Init, SteadyPace
<1>3. SteadyLoop /\ SteadyAge
  BY DEF Init, Polling!Init, SteadyLoop, SteadyAge
<1> QED BY <1>2, <1>3 DEF SteadyInv

LEMMA SteadyClock ==
    ASSUME Healthy, DaemonInv, SteadyInv, ClockTicks
    PROVE  SteadyInv'
<1> USE PaceAssumption, DelayAssumption
<1>1. /\ timer \in 0..BaseInterval /\ age \in 0..AgeCap /\ elapsed \in Nat
      /\ limit = 0 /\ loop \in {"tick", "query", "store", "fill"}
  BY DEF DaemonInv, TypeOK, SteadyInv, SteadyPace, SteadyLoop
<1>2. ~Busy
  BY DEF ClockTicks, Healthy
<1>3. /\ UNCHANGED <<multiplier, consecutiveOK, pc, c, refresh, done, proc, loop, put,
                     del, pat, whole, failures, fresh, blind>>
      /\ timer' = IF pc = "select" /\ timer > 0 THEN timer - 1 ELSE timer
  BY DEF ClockTicks, Polling!Advance, Polling!paceVars, handlers, history
<1>4. limit' = 0 /\ age' <= age + 1 /\ age' \in Nat
  BY <1>1 DEF ClockTicks, AtMost, AgeCap
<1>5. loop = "query" => elapsed' = elapsed + 1
  BY DEF ClockTicks, Asking
<1>6. SteadyPace'
  BY <1>1, <1>3 DEF SteadyInv, SteadyPace
<1>7. SteadyLoop'
  BY <1>3, <1>4 DEF SteadyInv, SteadyLoop
<1>8. SteadyAge'
  <2> SUFFICES ASSUME consecutiveOK > 0 PROVE SteadyAge'
    BY <1>3 DEF SteadyAge
  <2>1. CASE loop = "tick"
    <3>1. c # 1 /\ pc # "first" /\ pc # "arm"
      BY <1>2, <2>1 DEF Busy, SteadyInv, SteadyPace
    <3>2. c = 0 /\ pc = "select" /\ timer > 0
      BY <1>1, <1>2, <3>1 DEF Busy, DaemonInv, TypeOK, Polling!TypeOK, SteadyInv,
                              SteadyPace
    <3>3. age + timer <= 2 * BaseInterval
      BY <2>1, <3>2 DEF SteadyInv, SteadyAge
    <3>4. timer' = timer - 1
      BY <1>3, <3>2
    <3>5. age' <= 2 * BaseInterval /\ age' + timer' <= 2 * BaseInterval
      <4>1. \A a, b, t, u, n \in Int :
               a + t <= n /\ b <= a + 1 /\ u = t - 1 /\ t > 0
                 => b <= n /\ b + u <= n
        OBVIOUS
      <4>2. /\ age \in Int /\ age' \in Int /\ timer \in Int /\ timer' \in Int
            /\ 2 * BaseInterval \in Int
        BY <1>1, <1>4, <3>4 DEF AgeCap
      <4> QED BY <1>4, <3>2, <3>3, <3>4, <4>1, <4>2, Zenon
    <3> QED BY <1>3, <2>1, <3>2, <3>5 DEF SteadyAge
  <2>2. CASE loop = "query"
    <3>1. age <= 2 * BaseInterval + elapsed
      BY <2>2 DEF SteadyInv, SteadyAge
    <3>2. age' <= 2 * BaseInterval + elapsed'
      BY <1>1, <1>4, <1>5, <2>2, <3>1
    <3> QED BY <1>3, <2>2, <3>2 DEF SteadyAge
  <2>3. CASE loop \in {"store", "fill"}
    BY <1>3, <2>3 DEF SteadyAge
  <2> QED BY <1>1, <2>1, <2>2, <2>3
<1> QED BY <1>6, <1>7, <1>8 DEF SteadyInv

(* What neither the tracker nor the loop looks at may change. *)
LEMMA SteadyWhileUntouched ==
    ASSUME SteadyInv,
           UNCHANGED <<trackerVars, proc, loop, elapsed, del, limit, age, failures>>,
           pat => pat'
    PROVE  SteadyInv'
  BY DEF SteadyInv, SteadyPace, SteadyLoop, SteadyAge, trackerVars

(* A success keeps the pace at the base interval. *)
LEMMA SteadyAnswer ==
    ASSUME Healthy, DaemonInv, SteadyInv, NEW a \in Replies, QueryAnswered(a)
    PROVE  SteadyInv'
<1> USE PaceAssumption
<1>1. LoopVerdict(a) = "succeeded"
  BY DEF Healthy
<1>2. /\ Polling!Succeeded /\ loop' = "store"
      /\ UNCHANGED <<proc, put, del, pat, limit, age, whole, failures, fresh, blind>>
      /\ loop = "query"
  BY <1>1 DEF QueryAnswered, Pace, handlers, database, history
<1>3. multiplier' = Unit /\ UNCHANGED <<pc, timer, c, refresh, done>>
  BY <1>2 DEF Polling!Succeeded, Polling!runVars, SteadyInv, SteadyPace
<1>4. pc # "first" /\ pat
  BY <1>2 DEF SteadyInv, SteadyPace, SteadyLoop
<1>5. SteadyPace'
  BY <1>2, <1>3, <1>4 DEF SteadyInv, SteadyPace
<1>6. SteadyLoop'
  BY <1>2, <1>4 DEF SteadyInv, SteadyLoop
<1>7. SteadyAge'
  BY <1>2 DEF SteadyAge
<1> QED BY <1>5, <1>6, <1>7 DEF SteadyInv

(* The loop takes the signal: it polls, or the list is still young.        *)
LEMMA SteadyTick ==
    ASSUME DaemonInv, SteadyInv, LoopTick
    PROVE  SteadyInv'
<1> USE PaceAssumption
<1>1. /\ c = 1 /\ c' = 0 /\ loop = "tick" /\ elapsed' = 0
      /\ loop' = IF Gates(TRUE) THEN "query" ELSE "tick"
      /\ UNCHANGED <<multiplier, consecutiveOK, pc, timer, refresh, done, proc, put, del,
                     pat, limit, age, whole, failures>>
  BY DEF LoopTick, Polling!TickTrue, Polling!runVars, Polling!paceVars, handlers,
         database
<1>2. pc # "first" /\ timer \in 0..BaseInterval /\ age \in Nat /\ limit = 0
  BY <1>1 DEF SteadyInv, SteadyPace, SteadyLoop, DaemonInv, TypeOK, AgeCap
<1>3. Gates(TRUE) <=> pat /\ age >= BaseInterval
  BY <1>2 DEF Gates, IsRateLimitActive
<1>4. SteadyPace'
  BY <1>1, <1>2 DEF SteadyInv, SteadyPace
<1>5. SteadyLoop'
  BY <1>1, <1>3 DEF SteadyInv, SteadyLoop
<1>6. SteadyAge'
  <2> SUFFICES ASSUME consecutiveOK > 0 PROVE SteadyAge'
    BY <1>1 DEF SteadyAge
  <2>1. pat /\ age <= 2 * BaseInterval
    BY <1>1 DEF SteadyInv, SteadyLoop, SteadyAge
  <2>2. CASE Gates(TRUE)
    BY <1>1, <1>2, <2>1, <2>2 DEF SteadyAge
  <2>3. CASE ~Gates(TRUE)
    <3>0. ~(age >= BaseInterval)
      BY <1>3, <2>1, <2>3, Zenon
    <3>1. age < BaseInterval
      BY <1>2, <3>0
    <3>2. age + timer <= 2 * BaseInterval /\ age <= 2 * BaseInterval
      BY <1>2, <3>1
    <3> QED BY <1>1, <2>3, <3>1, <3>2 DEF SteadyAge
  <2> QED BY <2>2, <2>3
<1> QED BY <1>4, <1>5, <1>6 DEF SteadyInv

(* The list is written, the clock standing still. *)
LEMMA SteadyStore ==
    ASSUME SteadyInv, DeletePrs \/ FillAndStamp
    PROVE  SteadyInv'
<1> USE PaceAssumption
<1>1. /\ UNCHANGED <<multiplier, consecutiveOK, pc, timer, c, refresh, done, proc,
                     elapsed, put, del, pat, limit, failures>>
      /\ loop \in {"store", "fill"}
      /\ loop' = "fill" \/ (loop' = "tick" /\ age' = 0)
  BY DEF DeletePrs, FillAndStamp, trackerVars, handlers
<1>2. SteadyPace'
  BY <1>1 DEF SteadyInv, SteadyPace
<1>3. SteadyLoop'
  BY <1>1 DEF SteadyInv, SteadyLoop
<1>4. SteadyAge'
  BY <1>1 DEF SteadyInv, SteadyPace, SteadyAge
<1> QED BY <1>2, <1>3, <1>4 DEF SteadyInv

(* The tracker's goroutine: it rearms the timer with the base interval.    *)
LEMMA SteadyRun ==
    ASSUME DaemonInv, SteadyInv,
           \/ RunStep(Polling!FirstSignal) \/ RunStep(Polling!ArmTimer)
           \/ RunStep(Polling!OnTimer) \/ RunStep(Polling!OnRefresh)
           \/ RunStep(Polling!OnDone)
    PROVE  SteadyInv'
<1> USE PaceAssumption
<1>1. /\ UNCHANGED <<multiplier, consecutiveOK, done, proc, loop, elapsed, put, del, pat,
                     limit, age, failures>>
      /\ proc = "up"
  BY DEF RunStep, Polling!FirstSignal, Polling!ArmTimer, Polling!OnTimer,
         Polling!OnRefresh, Polling!OnDone, Polling!paceVars, handlers, database
<1>2. SteadyLoop'
  BY <1>1 DEF SteadyInv, SteadyLoop
<1>3. CASE RunStep(Polling!FirstSignal) \/ RunStep(Polling!OnTimer)
             \/ RunStep(Polling!OnRefresh)
  <2>1. c' = 1 /\ pc' = "arm" /\ timer' = timer
    BY <1>3 DEF RunStep, Polling!FirstSignal, Polling!OnTimer, Polling!OnRefresh,
                Polling!Signal
  <2> QED BY <1>1, <1>2, <2>1 DEF SteadyInv, SteadyPace, SteadyAge
<1>4. CASE RunStep(Polling!ArmTimer)
  <2>1. /\ pc = "arm" /\ pc' = "select" /\ c' = c
        /\ timer' = (BaseInterval * Unit) \div Unit
    BY <1>4 DEF RunStep, Polling!ArmTimer, Polling!CurrentInterval, SteadyInv,
                SteadyPace
  <2>2. timer' = BaseInterval
    BY <2>1, BaseIsUnscaled
  <2>3. age \in Nat
    BY DEF DaemonInv, TypeOK, AgeCap
  <2> QED BY <1>1, <1>2, <2>1, <2>2, <2>3 DEF SteadyInv, SteadyPace, SteadyAge
<1>5. CASE RunStep(Polling!OnDone)
  BY <1>5 DEF RunStep, Polling!OnDone, SteadyInv, SteadyPace
<1> QED BY <1>3, <1>4, <1>5

LEMMA SteadyStep ==
    ASSUME Healthy, DaemonInv, SteadyInv, [Next]_daemonVars
    PROVE  SteadyInv'
<1> USE DEF handlers, database
<1>1. ~MayFail
  BY DEF MayFail, Healthy, SteadyInv, SteadyPace
<1>2. CASE ClockTicks
  BY <1>2, SteadyClock
<1>3. CASE \E a \in Replies : QueryAnswered(a)
  BY <1>3, SteadyAnswer
<1>4. CASE LoopTick
  BY <1>4, SteadyTick
<1>5. CASE DeletePrs \/ FillAndStamp
  BY <1>5, SteadyStore
<1>6. CASE \/ RunStep(Polling!FirstSignal) \/ RunStep(Polling!ArmTimer)
           \/ RunStep(Polling!OnTimer) \/ RunStep(Polling!OnRefresh)
           \/ RunStep(Polling!OnDone)
  BY <1>6, SteadyRun
<1>7. CASE InitFails \/ Crash \/ LoopTickFails \/ LastFetchedUnread \/ StatementFails
             \/ PutFails
  BY <1>1, <1>7 DEF InitFails, Crash, LoopTickFails, LastFetchedUnread, StatementFails,
                    PutFails, Fail
<1>8. CASE \/ LoopEnds \/ DeleteStops \/ DeletePat
           \/ \E ticks \in 1..MaxLimit : SetRateLimitUntil(ticks)
  BY <1>8 DEF LoopEnds, Polling!TickFalse, Polling!Exited, DeleteStops, DeletePat,
              SetRateLimitUntil, Healthy, SteadyInv, SteadyPace, SteadyLoop
<1>9. CASE Refresh \/ PutRefreshes
  BY <1>9 DEF Refresh, PutRefreshes, Polling!RequestRefresh, Polling!runVars,
              Polling!paceVars, SteadyInv, SteadyPace, SteadyLoop, SteadyAge
<1>10. CASE PutPat \/ \E a, b \in Replies : PutValidated(a, b)
  <2>1. UNCHANGED <<trackerVars, proc, loop, elapsed, del, limit, age, failures>>
    BY <1>10 DEF PutPat, PutValidated
  <2>2. pat => pat'
    BY <1>10, Zenon DEF PutPat, PutValidated
  <2> QED BY <2>1, <2>2, SteadyWhileUntouched
<1>11. CASE \/ \E env \in EnvPat : Start(env)
            \/ \E a, b \in Replies : ValidateEnv(a, b) \/ ValidateStored(a, b)
  <2>1. /\ UNCHANGED <<trackerVars, loop, del, limit, failures>> /\ proc # "up"
    BY <1>11 DEF Start, ValidateEnv, ValidateStored
  <2>2. pc = "first" /\ c = 0 /\ consecutiveOK = 0 /\ loop = "tick"
    BY <2>1 DEF SteadyInv, SteadyPace
  <2> QED BY <2>1, <2>2 DEF SteadyInv, SteadyPace, SteadyLoop, SteadyAge, trackerVars
<1>12. CASE UNCHANGED daemonVars
  BY <1>12, SteadyWhileUntouched DEF daemonVars
<1> QED BY <1>2, <1>3, <1>4, <1>5, <1>6, <1>7, <1>8, <1>9, <1>10, <1>11, <1>12
        DEF Next, Steps

(* While GitHub answers well, what is shown is never older than two base   *)
(* intervals and a request, for every interval and every delay, however    *)
(* the refreshes fall between the timer and the query.                     *)
THEOREM HealthyListIsFresh ==
    ASSUME Healthy
    PROVE  Spec => []StaleAtMost
<1>1. Init => SteadyInv
  BY SteadyInit
<1>2. DaemonInv /\ SteadyInv /\ [Next]_daemonVars => SteadyInv'
  BY SteadyStep
<1>3. DaemonInv /\ SteadyInv => StaleAtMost
  <2> SUFFICES ASSUME DaemonInv, SteadyInv, consecutiveOK > 0, loop \notin {"store", "fill"}
               PROVE  age <= 2 * BaseInterval + MaxDelay
    BY DEF StaleAtMost
  <2>1. /\ loop = "tick" => age <= 2 * BaseInterval
        /\ loop = "query" => age <= 2 * BaseInterval + elapsed /\ elapsed <= MaxDelay
        /\ loop \in {"tick", "query"}
    BY DEF SteadyInv, SteadyLoop, SteadyAge, DaemonInv, PastTheGates
  <2>2. age \in Int /\ elapsed \in Int
    BY DEF DaemonInv, TypeOK, AgeCap
  <2> QED BY <2>1, <2>2, PaceAssumption, DelayAssumption
<1> QED BY <1>1, <1>2, <1>3, DaemonInvariant, PTL DEF Spec
=============================================================================
