--------------------------- MODULE TrackerProofs ---------------------------
(***************************************************************************)
(* Proofs about TrackerHistory, for every base interval and every          *)
(* resolution of the multiplier.                                           *)
(***************************************************************************)
EXTENDS TrackerHistory, TLAPS

(* The history variables only watch: what is proved about HSpec is true of *)
(* the tracker in backoff.go, whose steps are those of Spec.               *)
THEOREM HistoryOnlyWatches == HSpec => Spec
<1>1. HInit => Init
  BY DEF HInit
<1>2. [HNext]_historyVars => [Next]_trackerVars
  BY DEF HNext, HSignal, HAdvance, HFailure, HSuccess, HOther, Next,
         historyVars
<1> QED BY <1>1, <1>2, PTL DEF HSpec, Spec

(* A multiplier of at least 1.0 never shortens the interval, and the       *)
(* result is a number of ticks: what time.Duration(...) truncates is less  *)
(* than the excess.                                                        *)
LEMMA IntervalCoversBase ==
    ASSUME NEW m \in Nat, m >= Unit
    PROVE  /\ (BaseInterval * m) \div Unit \in Nat
           /\ (BaseInterval * m) \div Unit >= BaseInterval
<1> DEFINE p == BaseInterval * m
<1>1. p \in Nat /\ p >= BaseInterval * Unit
  <2>1. PICK k \in Nat : m = Unit + k
    BY UnitAssumption
  <2>2. BaseInterval * m = BaseInterval * Unit + BaseInterval * k
    BY <2>1, BaseIntervalAssumption, UnitAssumption
  <2>3. BaseInterval * k \in Nat /\ BaseInterval * Unit \in Nat
    BY <2>1, BaseIntervalAssumption, UnitAssumption
  <2> QED BY <2>2, <2>3
<1>2. ASSUME NEW q \in Nat, q >= BaseInterval * Unit
      PROVE  q \div Unit \in Nat /\ q \div Unit >= BaseInterval
  <2> DEFINE d == q \div Unit
  <2>1. d \in Nat
    BY UnitAssumption
  <2>2. q < Unit * d + Unit
    BY UnitAssumption
  <2>3. ASSUME d < BaseInterval PROVE FALSE
    <3> HIDE DEF d
    <3>1. PICK k \in Nat : BaseInterval = d + 1 + k
      <4>1. BaseInterval - (d + 1) \in Nat
        BY <2>1, <2>3, BaseIntervalAssumption
      <4>2. BaseInterval = d + 1 + (BaseInterval - (d + 1))
        BY <2>1, BaseIntervalAssumption
      <4> QED BY <4>1, <4>2
    <3>2. BaseInterval * Unit = Unit * d + Unit + k * Unit
      BY <2>1, <3>1, UnitAssumption
    <3>3. k * Unit \in Nat /\ Unit * d \in Nat
      BY <2>1, <3>1, UnitAssumption
    <3> QED BY <1>2, <2>2, <3>2, <3>3, UnitAssumption
  <2> QED BY <2>1, <2>3, BaseIntervalAssumption
<1> QED BY <1>1, <1>2

(* A multiplier of at most 4.0 never makes it longer than four times the  *)
(* base interval.                                                          *)
LEMMA IntervalIsBounded ==
    ASSUME NEW m \in Nat, m <= 4 * Unit
    PROVE  (BaseInterval * m) \div Unit \in 0..(4 * BaseInterval)
<1> DEFINE p == BaseInterval * m
<1>1. p \in Nat /\ p <= 4 * (BaseInterval * Unit)
  <2>1. PICK k \in Nat : 4 * Unit = m + k
    <3>1. 4 * Unit - m \in Nat /\ 4 * Unit = m + (4 * Unit - m)
      BY BaseIntervalAssumption, UnitAssumption
    <3> QED BY <3>1
  <2>2. BaseInterval * (4 * Unit) = BaseInterval * m + BaseInterval * k
    BY <2>1, BaseIntervalAssumption, UnitAssumption
  <2>3. BaseInterval * k \in Nat /\ BaseInterval * m \in Nat
    BY <2>1, BaseIntervalAssumption, UnitAssumption
  <2>4. BaseInterval * (4 * Unit) = 4 * (BaseInterval * Unit)
    BY BaseIntervalAssumption, UnitAssumption
  <2> QED BY <2>2, <2>3, <2>4
<1> DEFINE d == p \div Unit
<1>2. \A n \in Nat : n \div Unit \in Nat /\ Unit * (n \div Unit) <= n
  BY BaseIntervalAssumption, UnitAssumption
<1>3. d \in Nat /\ Unit * d <= p
  <2> HIDE DEF p
  <2> QED BY <1>1, <1>2
<1> HIDE DEF d, p
<1>4. ASSUME d > 4 * BaseInterval PROVE FALSE
  <2>1. PICK k \in Nat : d = 4 * BaseInterval + 1 + k
    <3>1. d - (4 * BaseInterval + 1) \in Nat
      BY <1>3, <1>4, BaseIntervalAssumption, UnitAssumption
    <3>2. d = 4 * BaseInterval + 1 + (d - (4 * BaseInterval + 1))
      BY <1>3, BaseIntervalAssumption, UnitAssumption
    <3> QED BY <3>1, <3>2
  <2>2. Unit * d = 4 * (BaseInterval * Unit) + Unit + k * Unit
    BY <2>1, BaseIntervalAssumption, UnitAssumption
  <2>3. k * Unit \in Nat /\ BaseInterval * Unit \in Nat
    BY <2>1, BaseIntervalAssumption, UnitAssumption
  <2> QED BY <1>1, <1>3, <2>2, <2>3, BaseIntervalAssumption, UnitAssumption
<1>5. d <= 4 * BaseInterval
  BY <1>3, <1>4, BaseIntervalAssumption, UnitAssumption
<1> QED BY <1>3, <1>5 DEF d, p

(* Backing off and halving stay within 1.0..4.0. *)
LEMMA PaceInRange ==
    ASSUME multiplier \in Unit..MaxMultiplier
    PROVE  /\ AtMost(MaxMultiplier, 2 * multiplier) \in Unit..MaxMultiplier
           /\ AtMost(MaxMultiplier, (3 * multiplier) \div 2)
                  \in Unit..MaxMultiplier
           /\ Halved \in Unit..(2 * Unit)
           /\ multiplier <= 2 * Unit => Halved = Unit
  BY UnitAssumption DEF AtMost, MaxMultiplier, Halved

----------------------------------------------------------------------------
LEMMA TypeInit == HInit => HTypeOK
<1> SUFFICES ASSUME HInit PROVE HTypeOK
  OBVIOUS
<1>1. multiplier \in Unit..MaxMultiplier
  BY UnitAssumption DEF HInit, Init, MaxMultiplier
<1>2. /\ consecutiveOK \in 0..CooldownThreshold
      /\ timer \in 0..(4 * BaseInterval) /\ c \in 0..1 /\ refresh \in 0..1
      /\ quiet \in 0..BaseInterval /\ okRun \in 0..Recovery
  BY BaseIntervalAssumption DEF HInit, Init, CooldownThreshold, Recovery
<1>3. pc \in {"first", "arm", "select", "exited"} /\ done \in BOOLEAN
  BY Zenon DEF HInit, Init
<1> QED BY <1>1, <1>2, <1>3, Zenon DEF HTypeOK, TypeOK

LEMMA TypeStep == HTypeOK /\ [HNext]_historyVars => HTypeOK'
<1> SUFFICES ASSUME HTypeOK, [HNext]_historyVars PROVE HTypeOK'
  OBVIOUS
<1> USE UnitAssumption, BaseIntervalAssumption
    DEF HTypeOK, TypeOK, CooldownThreshold, Recovery, AtMost
<1>1. CASE HSignal
  BY <1>1 DEF HSignal, FirstSignal, OnTimer, OnRefresh, Signal, runVars, paceVars
<1>2. CASE HAdvance
  BY <1>2 DEF HAdvance, Advance, paceVars
<1>3. CASE HFailure
  <2>1. multiplier' \in Unit..MaxMultiplier
    BY <1>3, PaceInRange DEF HFailure, RateLimited, ServerErrored, BackOff
  <2> QED BY <1>3, <2>1
          DEF HFailure, RateLimited, ServerErrored, BackOff, runVars, MaxMultiplier
<1>4. CASE HSuccess
  <2>1. multiplier' \in Unit..MaxMultiplier
    BY <1>4, PaceInRange DEF HSuccess, Succeeded, MaxMultiplier
  <2> QED BY <1>4, <2>1 DEF HSuccess, Succeeded, runVars, MaxMultiplier
<1>5. CASE HOther
  <2>1. CASE ArmTimer
    <3>1. timer' \in 0..(4 * BaseInterval)
      BY <2>1, IntervalIsBounded DEF ArmTimer, CurrentInterval, MaxMultiplier
    <3> QED BY <1>5, <2>1, <3>1 DEF HOther, ArmTimer, paceVars, MaxMultiplier
  <2>2. CASE OnDone \/ TickTrue \/ TickFalse \/ RequestRefresh \/ Stop
    <3>1. done' \in BOOLEAN
      BY <2>2, Zenon DEF OnDone, TickTrue, TickFalse, RequestRefresh, Stop,
                         trackerVars
    <3> QED BY <1>5, <2>2, <3>1
            DEF HOther, OnDone, TickTrue, TickFalse, RequestRefresh, Stop,
                runVars, paceVars, trackerVars, MaxMultiplier
  <2> QED BY <1>5, <2>1, <2>2 DEF HOther
<1>6. CASE UNCHANGED historyVars
  BY <1>6 DEF historyVars, trackerVars
<1> QED BY <1>1, <1>2, <1>3, <1>4, <1>5, <1>6 DEF HNext

(* The type invariant, for every base interval: in particular the          *)
(* multiplier never leaves 1.0..4.0 whatever GitHub answers, and the timer *)
(* is never set to more than four base intervals.                          *)
THEOREM TrackerTypeCorrect == HSpec => []HTypeOK
<1>1. HInit => HTypeOK
  BY TypeInit
<1>2. HTypeOK /\ [HNext]_historyVars => HTypeOK'
  BY TypeStep
<1> QED BY <1>1, <1>2, PTL DEF HSpec

----------------------------------------------------------------------------
(* The elapsed silence and the time left on the timer always add up to a   *)
(* base interval: arming the timer gives at least one, and the clock moves *)
(* both together.                                                          *)
LEMMA CoverStep ==
    HTypeOK /\ TimerCoversInterval /\ [HNext]_historyVars
        => TimerCoversInterval'
<1> SUFFICES ASSUME HTypeOK, TimerCoversInterval, [HNext]_historyVars
             PROVE  TimerCoversInterval'
  OBVIOUS
<1> USE UnitAssumption, BaseIntervalAssumption
    DEF HTypeOK, TypeOK, TimerCoversInterval
<1>1. CASE HSignal
  BY <1>1 DEF HSignal, FirstSignal, OnTimer, OnRefresh
<1>2. CASE HAdvance
  BY <1>2 DEF HAdvance, Advance, AtMost
<1>3. CASE HFailure
  BY <1>3 DEF HFailure, RateLimited, ServerErrored, BackOff, runVars
<1>4. CASE HSuccess
  BY <1>4 DEF HSuccess, Succeeded, runVars
<1>5. CASE HOther
  <2>1. CASE ArmTimer
    <3>1. timer' \in Nat /\ timer' >= BaseInterval
      BY <2>1, IntervalCoversBase DEF ArmTimer, CurrentInterval, MaxMultiplier
    <3>2. quiet' \in Nat
      BY <1>5 DEF HOther
    <3>3. \A t, q \in Nat : t >= BaseInterval => t + q >= BaseInterval
      BY BaseIntervalAssumption
    <3> QED BY <3>1, <3>2, <3>3, Zenon DEF TimerCoversInterval
  <2>2. CASE OnDone \/ TickTrue \/ TickFalse \/ RequestRefresh \/ Stop
    BY <1>5, <2>2 DEF HOther, OnDone, TickTrue, TickFalse, RequestRefresh, Stop,
                      runVars, trackerVars
  <2> QED BY <1>5, <2>1, <2>2 DEF HOther
<1>6. CASE UNCHANGED historyVars
  BY <1>6 DEF historyVars, trackerVars
<1> QED BY <1>1, <1>2, <1>3, <1>4, <1>5, <1>6 DEF HNext

(* A timed poll is never asked for sooner than one base interval after the *)
(* signal before it, for every interval and every interleaving.            *)
THEOREM TimerKeepsItsDistance == HSpec => []FullIntervalAfterSignal
<1>1. HInit => TimerCoversInterval
  BY DEF HInit, Init, TimerCoversInterval
<1>2. HTypeOK /\ TimerCoversInterval => FullIntervalAfterSignal
  BY BaseIntervalAssumption
  DEF HTypeOK, TypeOK, TimerCoversInterval, FullIntervalAfterSignal
<1> QED BY <1>1, <1>2, CoverStep, TrackerTypeCorrect, PTL DEF HSpec

----------------------------------------------------------------------------
(* While the multiplier is above 1.0, consecutiveOK is the number of       *)
(* successes since the last failure or since the halving after it.         *)
LEMMA CountStep ==
    HTypeOK /\ CountFollowsRun /\ [HNext]_historyVars => CountFollowsRun'
<1> SUFFICES ASSUME HTypeOK, CountFollowsRun, [HNext]_historyVars
             PROVE  CountFollowsRun'
  OBVIOUS
<1> USE UnitAssumption
    DEF HTypeOK, TypeOK, CountFollowsRun, CooldownThreshold, Recovery
<1>1. CASE HSignal
  BY <1>1 DEF HSignal, FirstSignal, OnTimer, OnRefresh, paceVars
<1>2. CASE HAdvance
  BY <1>2 DEF HAdvance, Advance, paceVars
<1>3. CASE HFailure
  BY <1>3 DEF HFailure, RateLimited, ServerErrored, BackOff
<1>4. CASE HSuccess
  <2>1. CASE consecutiveOK + 1 >= CooldownThreshold /\ multiplier > Unit
    <3>1. multiplier' = Halved /\ consecutiveOK' = 0
      BY <1>4, <2>1 DEF HSuccess, Succeeded
    <3>2. CASE okRun < CooldownThreshold
      <4>1. okRun' = CooldownThreshold
        BY <1>4, <2>1, <3>2 DEF HSuccess, AtMost
      <4> QED BY <3>1, <4>1, PaceInRange
    <3>3. CASE okRun >= CooldownThreshold
      BY <2>1, <3>1, <3>3, PaceInRange
    <3> QED BY <3>2, <3>3
  <2>2. CASE ~(consecutiveOK + 1 >= CooldownThreshold /\ multiplier > Unit)
    BY <1>4, <2>2 DEF HSuccess, Succeeded, AtMost
  <2> QED BY <2>1, <2>2
<1>5. CASE HOther
  BY <1>5 DEF HOther, ArmTimer, OnDone, TickTrue, TickFalse, RequestRefresh,
              Stop, paceVars, trackerVars
<1>6. CASE UNCHANGED historyVars
  BY <1>6 DEF historyVars, trackerVars
<1> QED BY <1>1, <1>2, <1>3, <1>4, <1>5, <1>6 DEF HNext

(* Three successes after any failure halve the backoff and six end it.     *)
THEOREM TrackerRecovers == HSpec => []RecoversWithinSix
<1>1. HInit => CountFollowsRun
  BY UnitAssumption DEF HInit, Init, CountFollowsRun
<1>2. HTypeOK /\ CountFollowsRun => RecoversWithinSix
  BY UnitAssumption
  DEF HTypeOK, TypeOK, CountFollowsRun, RecoversWithinSix, MaxMultiplier,
      CooldownThreshold, Recovery
<1> QED BY <1>1, <1>2, CountStep, TrackerTypeCorrect, PTL DEF HSpec
============================================================================
