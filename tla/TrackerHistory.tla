--------------------------- MODULE TrackerHistory ---------------------------
(***************************************************************************)
(* Tracker with two history variables, to say how far apart its signals    *)
(* are and how soon it recovers from a backoff.  They watch and never      *)
(* constrain: every step of Tracker is a step here.                        *)
(***************************************************************************)
EXTENDS Tracker

VARIABLES
    quiet,   \* ticks since run last signalled; saturates at BaseInterval
    okRun    \* successes since the last failure; saturates at Recovery

Recovery == 2 * CooldownThreshold

historyVars == <<trackerVars, quiet, okRun>>

HInit ==
    /\ Init
    /\ quiet = 0
    /\ okRun = 0

HSignal ==
    /\ FirstSignal \/ OnTimer \/ OnRefresh
    /\ quiet' = 0
    /\ UNCHANGED okRun

HAdvance ==
    /\ Advance
    /\ quiet' = AtMost(BaseInterval, quiet + 1)
    /\ UNCHANGED okRun

HFailure ==
    /\ RateLimited \/ ServerErrored
    /\ okRun' = 0
    /\ UNCHANGED quiet

HSuccess ==
    /\ Succeeded
    /\ okRun' = AtMost(Recovery, okRun + 1)
    /\ UNCHANGED quiet

HOther ==
    /\ ArmTimer \/ OnDone \/ TickTrue \/ TickFalse \/ RequestRefresh \/ Stop
    /\ UNCHANGED <<quiet, okRun>>

HNext == HSignal \/ HAdvance \/ HFailure \/ HSuccess \/ HOther

HSpec == HInit /\ [][HNext]_historyVars

HFairSpec == HSpec /\ RunFairness

----------------------------------------------------------------------------
HTypeOK ==
    /\ TypeOK
    /\ quiet \in 0..BaseInterval
    /\ okRun \in 0..Recovery

(* The timer never asks for a poll sooner than one base interval after the *)
(* last signal, timed or manual, in whatever order timer, refresh requests *)
(* and backoff calls fall: "the next tick is a full interval from now".    *)
FullIntervalAfterSignal ==
    pc = "select" /\ timer = 0 => quiet = BaseInterval

(* However long GitHub failed before, three successes in a row bring the   *)
(* multiplier to at most 2.0 and six bring it back to 1.0.                 *)
RecoversWithinSix ==
    /\ okRun >= CooldownThreshold => multiplier <= 2 * Unit
    /\ okRun = Recovery => multiplier = Unit

----------------------------------------------------------------------------
(* The parts that make the two inductive. *)

TimerCoversInterval == pc = "select" => timer + quiet >= BaseInterval

CountFollowsRun ==
    multiplier > Unit =>
        /\ okRun < CooldownThreshold => consecutiveOK = okRun
        /\ okRun >= CooldownThreshold =>
               consecutiveOK = okRun - CooldownThreshold
        /\ okRun >= CooldownThreshold => multiplier <= 2 * Unit
        /\ okRun < Recovery

TrackerInv ==
    /\ HTypeOK
    /\ TimerCoversInterval
    /\ CountFollowsRun
=============================================================================
