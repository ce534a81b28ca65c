--------------------------------- MODULE Risk ---------------------------------
(* The hourly risk of an entity: the cycle that scores alerts, awards bonuses   *)
(* and opens cases, and the models that judge what its logs show.              *)

CONSTANTS
    Models, Stages, ChainWindow, ConvergenceWindow, ScoreWindow, CaseCooldown,
    MinIndicators, CaseThreshold, LastHour, MaxAlert, Switches, MaxToggle,
    Partner, Machine, Week, Lookback, MinDays, MinBaseline, Multiplier, MaxRare, MinCalls,
    Cv, MaxDay, MaxCount, MaxCalls, MaxGap

VARIABLES
    cycleNow, cyclePc, cycleDue, cycleSettings, cycleToggles, cycleAlerts, cycleMark,
    cycleEvents, cycleCritical, cycleLastCase, cycleOpened,
    subject, pastDays, today, critical, ran, runsToday, gaps, foundToday, snapshot

Cycling == INSTANCE RiskCycle WITH
    Cooldown <- CaseCooldown, Threshold <- CaseThreshold, MaxNow <- LastHour,
    now <- cycleNow, pc <- cyclePc, due <- cycleDue, settings <- cycleSettings,
    toggles <- cycleToggles, alerts <- cycleAlerts, mark <- cycleMark,
    events <- cycleEvents, critical <- cycleCritical, lastCase <- cycleLastCase,
    opened <- cycleOpened
Judging == INSTANCE Baselines WITH days <- pastDays, found <- foundToday

HourlyBounds == Cycling!RiskCycleBounds /\ Judging!BaselineBounds
HourlyTypeOK == Cycling!TypeOK /\ Judging!TypeOK
HourlySpec == Cycling!Spec /\ Judging!Spec

\* Risk is earned: bonuses and cases do not stack within their windows, and what the code
\* calls noise hides nothing and makes nothing stand out: one spike in the past,
\* connections repeated within a second, what every host runs.
RiskEarned ==
    /\ Cycling!NeverStacked
    /\ Judging!SpikeForgiven /\ Judging!RetriesHideNothing /\ Judging!CommonIsNotRare
===============================================================================
