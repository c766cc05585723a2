----------------------------- MODULE MCMetering -----------------------------
(* Instances of Metering for TLC.                                           *)
EXTENDS Metering, TLC

CONSTANTS pro, honest, other

MCOwner == [j \in Jobs |-> pro]
\* One upload is what its client says, and gets as far as the queue; the other is longer than
\* what its client says each time.
MCDeclared == honest :> 2 @@ other :> 1
MCStored   == honest :> 2 @@ other :> 2
MCMeasured == honest :> 2 @@ other :> 3
MCMaxRuns  == honest :> 0 @@ other :> 2
MCTiers == {"FREE", "PRO"}
MCWritten == {[PaidSubscription EXCEPT !.status = "CANCELED", !.cancelAtPeriodEnd = TRUE],
              [PaidSubscription EXCEPT !.status = "PAST_DUE"]}
MCQuota == [t \in Tiers |-> IF t = "PRO" THEN 4 ELSE 2]
MCInitialTier == [u \in Users |-> "PRO"]
=============================================================================
