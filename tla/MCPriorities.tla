---------------------------- MODULE MCPriorities ----------------------------
(* Instances of Priorities for TLC.                                         *)
EXTENDS Priorities

CONSTANTS free, pro, f1, p1, p2

MCOwner == [j \in Jobs |-> IF j = f1 THEN free ELSE pro]
MCPlan == [j \in Jobs |-> IF j = f1 THEN "FREE" ELSE "PRO"]
\* The uploads of the paying user are interchangeable.
UploadSymmetry == Permutations({p1, p2})
=============================================================================
