-------------------------- MODULE MCAlertLifecycle --------------------------
(***************************************************************************)
(* Instances of AlertLifecycle for TLC: the identifiers are strings, so    *)
(* that Nobody can be told from an analyst.                                *)
(***************************************************************************)
EXTENDS AlertLifecycle

OneAlert == {"a1"}
TwoAlerts == {"a1", "a2"}
OneScheduler == {"s1"}
TwoSchedulers == {"s1", "s2"}
OneAnalyst == {"ana"}
TwoAnalysts == {"ana", "bob"}

============================================================================
