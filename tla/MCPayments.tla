----------------------------- MODULE MCPayments -----------------------------
(* Instances of Payments for TLC.                                           *)
EXTENDS Payments, TLC

CONSTANTS u1, s1, s2, h1, h2

\* Every subscription belongs to one user.
OneOwner == [s \in Subs |-> u1]
\* The webhook requests are interchangeable.
HandlerSymmetry == Permutations({h1, h2})
\* SettledInSync is about orderly histories, and orderly never becomes true again.
OrderlySoFar == orderly
=============================================================================
