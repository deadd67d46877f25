---------------------------- MODULE MCUsageRollup ----------------------------
(***************************************************************************)
(* The usage table for TLC: how rollups write it (UsageRollup, with one    *)
(* backfill over all the days), and the reports made of it (AdminUsage).   *)
(* A behaviour is one of either; the other stands still.                   *)
(***************************************************************************)
EXTENDS UsageRollup, AdminUsage

VARIABLE part

BackfillWindows == {<<0, Day(MaxTime)>>}

\* Two accounts with a token each, one of them a system token, and a test
\* account: over two days with rows of every kind.
TokenOwner == [k1 |-> 1, sys |-> 2]
UsageSlices == {<<0, 1, "k1">>, <<0, 2, "sys">>, <<1, 0, "">>, <<1, 1, "">>, <<1, 3, "">>}

UsageDbInit == part \in {"rollup", "reports"} /\ RollupInit /\ UsageInit

UsageDbNext ==
  /\ UNCHANGED part
  /\ \/ part = "rollup" /\ RollupNext /\ UNCHANGED usageVars
     \/ part = "reports" /\ UsageNext /\ UNCHANGED rollupVars

OfRollup(A) == part = "rollup" /\ A

\* RollupFairness, where the rollup is what moves.
UsageDbFairness ==
  /\ WF_rollupVars(OfRollup(RollupTick))
  /\ WF_rollupVars(OfRollup(CommitRollup("backfill") \/ RollbackRollup("backfill")))
  /\ SF_rollupVars(OfRollup(CommitRollup("timer")))

UsageDbSpec == UsageDbInit /\ [][UsageDbNext]_<<part, rollupVars, usageVars>> /\ UsageDbFairness
=============================================================================
