----------------------------- MODULE Entitlement -----------------------------
(***************************************************************************)
(* What the payments component owes: a user has a paid plan only if that    *)
(* plan was sold to the user, loses it only if a subscription of the user   *)
(* ended, and a payment is recorded only of an invoice that was collected,  *)
(* and once.  Nothing is promised to happen, nor in which order.            *)
(***************************************************************************)
EXTENDS Naturals

CONSTANTS Users, Tiers, Invoices, Free

VARIABLES
  sold,        \* <<user, tier>>: the plans sold
  ended,       \* the users a subscription of whom has ended
  collected,   \* the invoices paid
  plan,        \* the plan each user has
  payments     \* the invoices recorded as paid

market   == <<sold, ended, collected>>
accounts == <<plan, payments>>

Init ==
  /\ sold = {} /\ ended = {} /\ collected = {}
  /\ plan = [u \in Users |-> Free]
  /\ payments = {}

Trade ==
  /\ sold \subseteq sold' /\ ended \subseteq ended' /\ collected \subseteq collected'
  /\ UNCHANGED accounts

Grant(u, t) ==
  /\ <<u, t>> \in sold
  /\ plan' = [plan EXCEPT ![u] = t]
  /\ UNCHANGED <<market, payments>>

Revoke(u) ==
  /\ u \in ended
  /\ plan' = [plan EXCEPT ![u] = Free]
  /\ UNCHANGED <<market, payments>>

Record(i) ==
  /\ i \in collected \ payments
  /\ payments' = payments \cup {i}
  /\ UNCHANGED <<market, plan>>

Next ==
  \/ Trade
  \/ \E u \in Users : Revoke(u) \/ \E t \in Tiers : Grant(u, t)
  \/ \E i \in Invoices : Record(i)

Spec == Init /\ [][Next]_<<market, accounts>>
=============================================================================
