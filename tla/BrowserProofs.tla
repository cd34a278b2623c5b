---------------------------- MODULE BrowserProofs ----------------------------
(***************************************************************************)
(* Proofs about Browser, for every interval, delay and time of the page.   *)
(***************************************************************************)
EXTENDS Browser, DaemonProofs

LEMMA TabSteps == [BrowserNext]_browserVars => [Next]_daemonVars
<1> SUFFICES ASSUME [BrowserNext]_browserVars PROVE [Next]_daemonVars
  OBVIOUS
<1>1. CASE DaemonStep
  BY <1>1 DEF DaemonStep, Next
<1>2. CASE Clock
  BY <1>2 DEF Clock, Next
<1>3. CASE OpenPage \/ ReadStamp \/ UpdateTime \/ ReloadAfterRefresh \/ ClosePage
  BY <1>3 DEF OpenPage, Load, ReadStamp, UpdateTime, ReloadAfterRefresh, ClosePage
<1>4. CASE ClickRefresh
  BY <1>4 DEF ClickRefresh, Next, Steps
<1>5. CASE UNCHANGED browserVars
  BY <1>5 DEF browserVars
<1> QED BY <1>1, <1>2, <1>3, <1>4, <1>5 DEF BrowserNext

(* The tab only watches the daemon, and asks for refreshes: what is proved *)
(* of the daemon holds beside an open page.                                *)
THEOREM TabOnlyWatches == BrowserSpec => Spec
<1>1. BrowserInit => Init
  BY DEF BrowserInit
<1> QED BY <1>1, TabSteps, PTL DEF BrowserSpec, Spec

----------------------------------------------------------------------------
(* Half a minute is what the rounding adds to the margin of the page.      *)
LEMMA BearableType == Bearable \in Nat
<1>1. /\ Minute \div 2 \in Nat
      /\ (RefreshIntervalMinutes + MarginMinutes) * Minute \in Nat
  BY MinutesAssumption
<1> QED BY <1>1 DEF Bearable

LEMMA BearableIsMore == Bearable >= BaseInterval
<1> DEFINE m == MarginMinutes * Minute
<1>1. m \in Nat /\ Minute \div 2 \in Nat
  BY MinutesAssumption
<1>2. (RefreshIntervalMinutes + MarginMinutes) * Minute = BaseInterval + m
  BY MinutesAssumption
<1> HIDE DEF m
<1> QED BY <1>1, <1>2, PaceAssumption DEF Bearable

LEMMA CapIsEnough == ShownCap \in Nat /\ AgeCap \in Nat /\ AgeCap <= ShownCap
  BY BearableType, BearableIsMore, PaceAssumption, DelayAssumption DEF ShownCap, AgeCap

(* The page stays within half a minute of its margin, and does not reload  *)
(* before that.                                                            *)
LEMMA RoundedToMinutes ==
    ASSUME NEW t \in Nat, ~(Minutes(t) > RefreshIntervalMinutes + MarginMinutes)
    PROVE  t <= Bearable
<1> DEFINE n == RefreshIntervalMinutes + MarginMinutes
           w == 2 * Minute
           h == Minute \div 2
           q == (2 * t + Minute - 1) \div w
           a == n * Minute
<1>1. /\ n \in Nat /\ w \in Nat /\ w > 0 /\ h \in Nat /\ a \in Nat
      /\ Minute \in Nat /\ Minute > 0
      /\ 2 * h + 1 >= Minute
  BY MinutesAssumption
<1>2. \A x \in Nat : x \div w \in Nat /\ x < w * (x \div w) + w
  BY <1>1
<1>3. 2 * t + Minute - 1 \in Nat
  BY <1>1
<1>4. q \in Nat /\ 2 * t + Minute - 1 < w * q + w
  BY <1>2, <1>3
<1>5. q <= n
  BY <1>1, <1>4 DEF Minutes
<1>6. w * q <= 2 * a
  <2>1. PICK k \in Nat : n = q + k
    <3>1. n - q \in Nat /\ n = q + (n - q)
      BY <1>1, <1>4, <1>5
    <3> QED BY <3>1
  <2>2. 2 * a = w * q + w * k
    <3> HIDE DEF q
    <3>1. 2 * a = 2 * ((q + k) * Minute)
      BY <2>1
    <3> QED BY <3>1, <2>1, <1>1, <1>4
  <2>3. w * k \in Nat /\ w * q \in Nat
    BY <1>1, <1>4, <2>1
  <2> HIDE DEF w, q, a
  <2> QED BY <2>2, <2>3
<1>7. 2 * t < 2 * a + Minute + 1
  <2>1. w * q \in Nat
    BY <1>1, <1>4
  <2> HIDE DEF q, a, n, h
  <2>2. 2 * t + Minute - 1 < w * q + 2 * Minute
    BY <1>4
  <2> HIDE DEF w
  <2> QED BY <1>1, <1>6, <2>1, <2>2
<1>8. t <= a + h
  <2> HIDE DEF a, h
  <2> QED BY <1>1, <1>7
<1> QED BY <1>8 DEF Bearable

----------------------------------------------------------------------------
(* Ranges. *)
LEMMA BrowserTypeInit == BrowserInit => BrowserTypeOK
<1> SUFFICES ASSUME BrowserInit PROVE BrowserTypeOK
  OBVIOUS
<1> USE PaceAssumption, DelayAssumption, TimesAssumption
<1>1. ShownCap \in Nat
  BY CapIsEnough
<1>2. {stamped, listed, rows, valid, refreshing} \subseteq BOOLEAN
  BY Zenon DEF BrowserInit
<1>3. /\ page \in {"none", "rows", "shown"}
      /\ shown \in 0..ShownCap /\ pageAge \in 0..(QuietTime + 1)
      /\ check \in 0..CheckPeriod /\ reload \in 0..RefreshDelay
  BY <1>1 DEF BrowserInit
<1> QED BY <1>2, <1>3, Zenon DEF BrowserTypeOK

Truths == {stamped, listed, rows, valid, refreshing}

LEMMA TruthsStep ==
    ASSUME BrowserTypeOK, [BrowserNext]_browserVars
    PROVE  Truths' \subseteq BOOLEAN
<1>1. /\ stamped \in BOOLEAN /\ listed \in BOOLEAN /\ rows \in BOOLEAN
      /\ valid \in BOOLEAN /\ refreshing \in BOOLEAN
  BY Zenon DEF BrowserTypeOK
<1> SUFFICES /\ stamped' \in BOOLEAN /\ listed' \in BOOLEAN /\ rows' \in BOOLEAN
             /\ valid' \in BOOLEAN /\ refreshing' \in BOOLEAN
  BY Zenon DEF Truths
<1>2. CASE DaemonStep
  <2>1. stamped' \in BOOLEAN
    BY <1>2 DEF DaemonStep
  <2>2. listed' \in BOOLEAN
    BY <1>1, <1>2, Zenon DEF DaemonStep
  <2>3. UNCHANGED <<rows, valid, refreshing>>
    BY <1>2 DEF DaemonStep, tabVars
  <2> QED BY <1>1, <2>1, <2>2, <2>3
<1>3. ASSUME Load PROVE rows' \in BOOLEAN
  BY <1>1, <1>3 DEF Load
<1>4. CASE OpenPage \/ ReloadAfterRefresh \/ (UpdateTime /\ Load)
  <2>1. Load
    BY <1>4 DEF OpenPage, ReloadAfterRefresh
  <2>2. UNCHANGED <<stamped, listed, valid, refreshing>>
    BY <2>1 DEF Load
  <2> QED BY <1>1, <1>3, <2>1, <2>2
<1>5. CASE UpdateTime /\ ~Load
  BY <1>1, <1>5, Zenon DEF UpdateTime
<1>6. CASE ReadStamp \/ ClosePage \/ Clock
  BY <1>1, <1>6, Zenon DEF ReadStamp, ClosePage, Clock
<1>7. CASE ClickRefresh
  BY <1>1, <1>7, Zenon DEF ClickRefresh
<1>8. CASE UNCHANGED browserVars
  BY <1>1, <1>8 DEF browserVars, pageVars, tabVars
<1> QED BY <1>2, <1>4, <1>5, <1>6, <1>7, <1>8 DEF BrowserNext

LEMMA TimesStep ==
    ASSUME BrowserTypeOK, TypeOK, [BrowserNext]_browserVars
    PROVE  /\ page' \in {"none", "rows", "shown"}
           /\ shown' \in 0..ShownCap /\ pageAge' \in 0..(QuietTime + 1)
           /\ check' \in 0..CheckPeriod /\ reload' \in 0..RefreshDelay
<1> USE PaceAssumption, DelayAssumption, TimesAssumption
<1>1. /\ page \in {"none", "rows", "shown"}
      /\ shown \in 0..ShownCap /\ pageAge \in 0..(QuietTime + 1)
      /\ check \in 0..CheckPeriod /\ reload \in 0..RefreshDelay
  BY DEF BrowserTypeOK
<1>2. age \in 0..ShownCap
  BY CapIsEnough DEF TypeOK
<1>3. ASSUME Load
      PROVE  /\ page' \in {"none", "rows", "shown"}
             /\ UNCHANGED <<shown, pageAge, check, reload>>
  BY <1>3 DEF Load
<1>4. CASE OpenPage \/ ReloadAfterRefresh \/ (UpdateTime /\ Load)
  BY <1>1, <1>3, <1>4 DEF OpenPage, ReloadAfterRefresh
<1>5. CASE UpdateTime /\ ~Load
  <2>1. check' = CheckPeriod /\ UNCHANGED <<page, shown, pageAge, reload>>
    BY <1>5, Zenon DEF UpdateTime
  <2> QED BY <1>1, <2>1
<1>6. CASE ReadStamp
  BY <1>1, <1>2, <1>6 DEF ReadStamp
<1>7. CASE ClosePage
  BY <1>1, <1>7 DEF ClosePage
<1>8. CASE DaemonStep \/ UNCHANGED browserVars
  <2>1. UNCHANGED tabVars
    BY <1>8 DEF DaemonStep, browserVars, pageVars
  <2> QED BY <1>1, <2>1 DEF tabVars
<1>9. CASE ClickRefresh
  BY <1>1, <1>9 DEF ClickRefresh, Due
<1>10. CASE Clock
  <2>1. ShownCap \in Nat
    BY CapIsEnough
  <2>2. /\ page' = page
        /\ shown' = AtMost(ShownCap, shown + 1)
        /\ pageAge' = AtMost(QuietTime + 1, pageAge + 1)
        /\ check' = OneLess(check, 0) /\ reload' = OneLess(reload, 1)
    BY <1>10 DEF Clock
  <2> QED BY <1>1, <2>1, <2>2 DEF AtMost, OneLess
<1> QED BY <1>4, <1>5, <1>6, <1>7, <1>8, <1>9, <1>10 DEF BrowserNext

(* The times of the page stay within their bounds: the timer of a reload   *)
(* is never pushed off by further refreshes.                               *)
THEOREM BrowserTypeCorrect == BrowserSpec => []BrowserTypeOK
<1>1. BrowserTypeOK /\ TypeOK /\ [BrowserNext]_browserVars => BrowserTypeOK'
  <2> SUFFICES ASSUME BrowserTypeOK, TypeOK, [BrowserNext]_browserVars
               PROVE  BrowserTypeOK'
    OBVIOUS
  <2> QED BY TruthsStep, TimesStep DEF Truths, BrowserTypeOK
<1> QED BY <1>1, BrowserTypeInit, TabOnlyWatches, DaemonTypeCorrect, PTL
        DEF BrowserSpec

----------------------------------------------------------------------------
(* The longest a page is left as it is, until its time is checked.         *)
Longest == IF OldestLoaded > Bearable THEN OldestLoaded ELSE Bearable

LEMMA LongestCoversBoth ==
    /\ Longest \in Nat /\ OldestLoaded \in Nat /\ Bearable \in Nat
    /\ OldestLoaded <= Longest
    /\ Bearable <= Longest
  BY BearableType, PaceAssumption, DelayAssumption, TimesAssumption
  DEF Longest, OldestLoaded

(* A list with a time of its own is one of a query that succeeded, and is  *)
(* not older than such a list gets, even while it is being replaced.       *)
StampedInv ==
    /\ stamped \/ loop \in {"store", "fill"} => consecutiveOK > 0
    /\ stamped /\ loop \in {"store", "fill"} => age <= 2 * BaseInterval + MaxDelay

(* A page just loaded has aged no more than since then; one that may       *)
(* reload, and shows what is too old, has little time left to do so.       *)
ShownInv ==
    page = "shown" /\ rows /\ valid =>
        /\ pageAge <= QuietTime => shown <= 2 * BaseInterval + MaxDelay + pageAge
        /\ pageAge > QuietTime /\ shown > Bearable
             => shown + check <= Longest + CheckPeriod

PageInv == StampedInv /\ ShownInv

LEMMA StampedLists ==
    ASSUME DaemonInv, SteadyInv, StampedInv, stamped
    PROVE  age <= 2 * BaseInterval + MaxDelay
<1>1. /\ loop = "tick" => age <= 2 * BaseInterval
      /\ loop = "query" => age <= 2 * BaseInterval + elapsed /\ elapsed <= MaxDelay
      /\ loop \in {"store", "fill"} => age <= 2 * BaseInterval + MaxDelay
      /\ loop \in {"tick", "query", "store", "fill"}
  BY DEF StampedInv, SteadyInv, SteadyLoop, SteadyAge, DaemonInv, PastTheGates
<1>2. age \in Int /\ elapsed \in Int
  BY DEF DaemonInv, TypeOK, AgeCap
<1> QED BY <1>1, <1>2, PaceAssumption, DelayAssumption

(* The daemon's steps with a healthy GitHub. *)
LEMMA StampedDaemonStep ==
    ASSUME Healthy, DaemonInv, SteadyInv, StampedInv, Steps,
           stamped' = (stamped \/ FillAndStamp)
    PROVE  StampedInv'
<1> USE PaceAssumption, DelayAssumption DEF handlers, database
<1>1. ~MayFail
  BY DEF MayFail, Healthy, SteadyInv, SteadyPace
<1>2. CASE \E a \in Replies : QueryAnswered(a)
  <2>1. PICK a \in Replies : QueryAnswered(a)
    BY <1>2
  <2>2. /\ Polling!Succeeded /\ loop = "query" /\ loop' = "store" /\ age' = age
        /\ UNCHANGED <<proc, whole>>
    <3>1. LoopVerdict(a) = "succeeded"
      BY DEF Healthy
    <3> QED BY <2>1, <3>1 DEF QueryAnswered, Pace
  <2>3. consecutiveOK' > 0
    BY <2>2 DEF Polling!Succeeded, Polling!AtMost, Polling!CooldownThreshold, DaemonInv,
                TypeOK, Polling!TypeOK, SteadyInv, SteadyPace
  <2>4. ~FillAndStamp
    BY <2>2 DEF FillAndStamp
  <2>5. stamped' => stamped
    BY <2>4
  <2>6. stamped => age <= 2 * BaseInterval + MaxDelay
    <3>1. stamped => age <= 2 * BaseInterval + elapsed /\ elapsed <= MaxDelay
      BY <2>2 DEF StampedInv, SteadyInv, SteadyAge, DaemonInv, PastTheGates
    <3>2. age \in Int /\ elapsed \in Int
      BY DEF DaemonInv, TypeOK, AgeCap
    <3> QED BY <3>1, <3>2
  <2> QED BY <2>2, <2>3, <2>5, <2>6 DEF StampedInv
<1>3. CASE DeletePrs
  <2>1. ~FillAndStamp /\ UNCHANGED <<consecutiveOK, age>> /\ loop = "store"
    BY <1>3 DEF DeletePrs, FillAndStamp, trackerVars
  <2> QED BY <2>1 DEF StampedInv
<1>4. CASE FillAndStamp
  <2>1. consecutiveOK > 0 /\ consecutiveOK' = consecutiveOK /\ loop' = "tick"
    BY <1>4 DEF FillAndStamp, StampedInv, trackerVars
  <2> QED BY <2>1 DEF StampedInv
<1>5. CASE InitFails \/ Crash \/ LoopTickFails \/ LastFetchedUnread \/ StatementFails
             \/ PutFails
  BY <1>1, <1>5 DEF InitFails, Crash, LoopTickFails, LastFetchedUnread, StatementFails,
                    PutFails, Fail
<1>6. CASE LoopTick
  <2>1. /\ ~FillAndStamp /\ consecutiveOK' = consecutiveOK
        /\ loop' \notin {"store", "fill"}
    BY <1>6 DEF LoopTick, FillAndStamp, Polling!TickTrue, Polling!paceVars
  <2> QED BY <2>1 DEF StampedInv
<1>7. CASE \/ LoopEnds \/ DeleteStops \/ DeletePat
           \/ \E ticks \in 1..MaxLimit : SetRateLimitUntil(ticks)
  BY <1>7 DEF LoopEnds, Polling!TickFalse, Polling!Exited, DeleteStops, DeletePat,
              SetRateLimitUntil, Healthy, SteadyInv, SteadyPace, SteadyLoop
<1>8. CASE \/ \E env \in EnvPat : Start(env)
           \/ \E a, b \in Replies :
                 ValidateEnv(a, b) \/ ValidateStored(a, b) \/ PutValidated(a, b)
           \/ PutPat \/ Refresh \/ PutRefreshes
           \/ RunStep(Polling!FirstSignal) \/ RunStep(Polling!ArmTimer)
           \/ RunStep(Polling!OnTimer) \/ RunStep(Polling!OnRefresh)
           \/ RunStep(Polling!OnDone)
  <2>1. UNCHANGED <<consecutiveOK, loop, age>>
    <3>1. CASE Refresh \/ PutRefreshes
      BY <3>1 DEF Refresh, PutRefreshes, Polling!RequestRefresh, Polling!paceVars
    <3>2. CASE \/ RunStep(Polling!FirstSignal) \/ RunStep(Polling!ArmTimer)
               \/ RunStep(Polling!OnTimer) \/ RunStep(Polling!OnRefresh)
               \/ RunStep(Polling!OnDone)
      BY <3>2 DEF RunStep, Polling!FirstSignal, Polling!ArmTimer, Polling!OnTimer,
                  Polling!OnRefresh, Polling!OnDone, Polling!paceVars
    <3>3. CASE \/ \E env \in EnvPat : Start(env)
               \/ \E a, b \in Replies :
                     ValidateEnv(a, b) \/ ValidateStored(a, b) \/ PutValidated(a, b)
               \/ PutPat
      BY <3>3 DEF Start, ValidateEnv, ValidateStored, PutValidated, PutPat, trackerVars
    <3> QED BY <1>8, <3>1, <3>2, <3>3
  <2>2. FillAndStamp => loop' = "tick" /\ loop = "fill"
    BY DEF FillAndStamp
  <2>3. ~FillAndStamp
    BY <2>1, <2>2
  <2> QED BY <2>1, <2>3 DEF StampedInv
<1> QED BY <1>2, <1>3, <1>4, <1>5, <1>6, <1>7, <1>8 DEF Steps

LEMMA StampedStep ==
    ASSUME Healthy, DaemonInv, SteadyInv, StampedInv, [BrowserNext]_browserVars
    PROVE  StampedInv'
<1>1. CASE DaemonStep
  BY <1>1, StampedDaemonStep DEF DaemonStep
<1>2. CASE Clock
  <2>1. loop \notin {"store", "fill"}
    BY <1>2 DEF Clock, ClockTicks, Busy, Healthy
  <2>2. UNCHANGED <<stamped, loop, consecutiveOK>>
    BY <1>2 DEF Clock, ClockTicks, Polling!Advance, Polling!paceVars
  <2> QED BY <2>1, <2>2 DEF StampedInv
<1>3. CASE \/ OpenPage \/ ReadStamp \/ UpdateTime \/ ReloadAfterRefresh \/ ClosePage
           \/ ClickRefresh \/ UNCHANGED browserVars
  <2>1. UNCHANGED <<stamped, loop, consecutiveOK, age>>
    <3>1. CASE ClickRefresh
      BY <3>1 DEF ClickRefresh, Refresh, Polling!RequestRefresh, Polling!paceVars,
                  daemonVars, trackerVars, database
    <3>2. CASE \/ OpenPage \/ ReadStamp \/ UpdateTime \/ ReloadAfterRefresh
               \/ ClosePage \/ UNCHANGED browserVars
      <4>1. UNCHANGED <<daemonVars, stamped>>
        BY <3>2 DEF OpenPage, Load, ReadStamp, UpdateTime, ReloadAfterRefresh, ClosePage,
                    browserVars, pageVars
      <4> QED BY <4>1 DEF daemonVars, trackerVars, database
    <3> QED BY <1>3, <3>1, <3>2
  <2> QED BY <2>1 DEF StampedInv
<1> QED BY <1>1, <1>2, <1>3 DEF BrowserNext

(* A tick: the time of the page and the one until updateTime runs move     *)
(* together.                                                               *)
LEMMA ShownClock ==
    ASSUME Healthy, BrowserTypeOK, ShownInv, Clock
    PROVE  ShownInv'
<1> USE TimesAssumption
<1> SUFFICES ASSUME page = "shown", rows, valid PROVE ShownInv'
  BY DEF Clock, ShownInv
<1>1. /\ shown \in Nat /\ pageAge \in 0..(QuietTime + 1) /\ check \in 1..CheckPeriod
  <2>1. check # 0
    BY DEF Clock, TabBusy, Healthy
  <2> QED BY <2>1 DEF BrowserTypeOK
<1>2. /\ shown' <= shown + 1 /\ shown' \in Int /\ check' = check - 1
      /\ pageAge' = IF pageAge > QuietTime THEN pageAge ELSE pageAge + 1
  <2>1. ShownCap \in Nat
    BY CapIsEnough
  <2>2. /\ shown' = AtMost(ShownCap, shown + 1)
        /\ pageAge' = AtMost(QuietTime + 1, pageAge + 1) /\ check' = OneLess(check, 0)
    BY DEF Clock
  <2> QED BY <1>1, <2>1, <2>2 DEF AtMost, OneLess
<1>3. /\ pageAge <= QuietTime => shown <= 2 * BaseInterval + MaxDelay + pageAge
      /\ pageAge > QuietTime /\ shown > Bearable
           => shown + check <= Longest + CheckPeriod
  BY DEF ShownInv
<1>4. pageAge' <= QuietTime => shown' <= 2 * BaseInterval + MaxDelay + pageAge'
  BY <1>1, <1>2, <1>3, PaceAssumption, DelayAssumption
<1>5. ASSUME pageAge' > QuietTime, shown' > Bearable
      PROVE  shown' + check' <= Longest + CheckPeriod
  <2>1. /\ shown \in Int /\ shown' \in Int /\ check \in Int /\ check' \in Int
        /\ CheckPeriod \in Int /\ QuietTime \in Int /\ Longest \in Int
        /\ Bearable \in Int /\ check <= CheckPeriod
    BY <1>1, <1>2, LongestCoversBoth, PaceAssumption
  <2>2. CASE pageAge = QuietTime
    <3>1. \A s, t, k, u, p, l \in Int :
             s <= l /\ t <= s + 1 /\ u = k - 1 /\ k <= p => t + u <= l + p
      OBVIOUS
    <3>2. shown <= Longest
      BY <1>1, <1>3, <2>2, LongestCoversBoth, PaceAssumption, DelayAssumption
         DEF OldestLoaded
    <3> QED BY <1>2, <2>1, <3>1, <3>2, Zenon
  <2>3. CASE pageAge > QuietTime /\ shown > Bearable
    <3>1. \A s, t, k, u, n \in Int :
             s + k <= n /\ t <= s + 1 /\ u = k - 1 => t + u <= n
      OBVIOUS
    <3>2. Longest + CheckPeriod \in Int
      BY <2>1
    <3> QED BY <1>2, <1>3, <2>1, <2>3, <3>1, <3>2, Zenon
  <2>4. CASE pageAge > QuietTime /\ shown <= Bearable
    <3>1. \A s, t, k, u, p, m, l \in Int :
             s <= m /\ t <= s + 1 /\ u = k - 1 /\ k <= p /\ m <= l => t + u <= l + p
      OBVIOUS
    <3> QED BY <1>2, <2>1, <2>4, <3>1, LongestCoversBoth, Zenon
  <2>5. \/ pageAge = QuietTime
        \/ pageAge > QuietTime /\ shown > Bearable
        \/ pageAge > QuietTime /\ shown <= Bearable
    BY <1>1, <1>2, <1>5, <2>1
  <2> QED BY <2>2, <2>3, <2>4, <2>5
<1> QED BY <1>4, <1>5 DEF ShownInv

LEMMA ShownStep ==
    ASSUME Healthy, DaemonInv, SteadyInv, StampedInv, BrowserTypeOK, ShownInv,
           [BrowserNext]_browserVars
    PROVE  ShownInv'
<1>1. CASE DaemonStep \/ UNCHANGED browserVars
  <2>1. UNCHANGED tabVars
    BY <1>1 DEF DaemonStep, browserVars, pageVars
  <2> QED BY <2>1 DEF ShownInv, tabVars
<1>2. ASSUME Load PROVE ShownInv'
  BY <1>2 DEF Load, ShownInv
<1>3. CASE OpenPage \/ ReloadAfterRefresh \/ (UpdateTime /\ Load)
  BY <1>2, <1>3 DEF OpenPage, ReloadAfterRefresh
<1>4. CASE UpdateTime /\ ~Load
  <2>1. ~TooOld /\ UNCHANGED <<page, rows, shown, valid, pageAge>>
    BY <1>4, Zenon DEF UpdateTime
  <2>2. shown \in Nat /\ Bearable \in Nat
    BY CapIsEnough, BearableType DEF BrowserTypeOK
  <2>3. valid /\ pageAge > QuietTime => ~(shown > Bearable)
    BY <2>1, <2>2, RoundedToMinutes DEF TooOld
  <2> QED BY <2>1, <2>3 DEF ShownInv
<1>5. CASE ReadStamp
  <2>1. shown' = age /\ (valid' => stamped) /\ pageAge' = 0
    BY <1>5 DEF ReadStamp
  <2>2. valid' => age <= 2 * BaseInterval + MaxDelay
    BY <2>1, StampedLists
  <2>3. age \in Int /\ ~(0 > QuietTime)
    BY TimesAssumption DEF DaemonInv, TypeOK, AgeCap
  <2> QED BY <2>1, <2>2, <2>3, PaceAssumption, DelayAssumption DEF ShownInv
<1>6. CASE ClickRefresh
  <2>1. UNCHANGED <<page, rows, shown, valid, pageAge, check>>
    BY <1>6 DEF ClickRefresh
  <2> QED BY <2>1 DEF ShownInv
<1>7. CASE ClosePage
  BY <1>7 DEF ClosePage, ShownInv
<1>8. CASE Clock
  BY <1>8, ShownClock
<1> QED BY <1>1, <1>3, <1>4, <1>5, <1>6, <1>7, <1>8 DEF BrowserNext

(* A page with rows that is left open follows the list of a healthy daemon *)
(* for every interval, margin, quiet time and period of the script.        *)
THEOREM OpenPageFollows ==
    ASSUME Healthy
    PROVE  BrowserSpec => []PageFollows
<1>1. BrowserInit => SteadyInv /\ PageInv
  BY SteadyInit DEF BrowserInit, PageInv, StampedInv, ShownInv, Init
<1>2. [BrowserNext]_browserVars => [Next]_daemonVars
  BY TabSteps
<1>3. DaemonInv /\ SteadyInv /\ [Next]_daemonVars => SteadyInv'
  BY SteadyStep
<1>4. DaemonInv /\ SteadyInv /\ BrowserTypeOK /\ PageInv /\ [BrowserNext]_browserVars
        => PageInv'
  BY StampedStep, ShownStep DEF PageInv
<1>5. BrowserTypeOK /\ PageInv => PageFollows
  <2> SUFFICES ASSUME BrowserTypeOK, ShownInv, page = "shown", rows, valid
               PROVE  shown <= CheckPeriod + Longest
    BY DEF PageInv, PageFollows, Longest
  <2>1. shown \in Nat /\ pageAge \in Nat /\ check \in Nat
    BY TimesAssumption DEF BrowserTypeOK
  <2>2. /\ pageAge <= QuietTime => shown <= 2 * BaseInterval + MaxDelay + pageAge
        /\ pageAge > QuietTime /\ shown > Bearable
             => shown + check <= Longest + CheckPeriod
    BY DEF ShownInv
  <2>3. pageAge <= QuietTime => shown <= OldestLoaded
    BY <2>1, <2>2, PaceAssumption, DelayAssumption, TimesAssumption DEF OldestLoaded
  <2> QED BY <2>1, <2>2, <2>3, LongestCoversBoth, TimesAssumption
<1> QED BY <1>1, <1>2, <1>3, <1>4, <1>5, DaemonInvariant, TabOnlyWatches,
           BrowserTypeCorrect, PTL DEF BrowserSpec
=============================================================================
