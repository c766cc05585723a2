------------------------------ MODULE Payments ------------------------------
(***************************************************************************)
(* Subscriptions: the Subscription and Payment rows and the user's plan,    *)
(* kept up to date from Stripe's webhook events, and the checkout that      *)
(* opens a subscription.                                                    *)
(*                                                                         *)
(* Stripe is external.  It is modelled by the statuses a subscription goes  *)
(* through and the events the webhook handles; an event may be delivered    *)
(* late, out of order, twice or, because the webhook answers before it      *)
(* handles it, lost.  A handler is interruptible at every await.            *)
(***************************************************************************)
EXTENDS Naturals, Sequences

CONSTANTS
  Users,
  Subs,           \* checkout calls, and the customers and subscriptions they lead to
  Owner,          \* [Subs -> Users]: metadata.userId
  Tiers,          \* the paid plans
  Handlers,       \* webhook requests that may be in flight at once
  NoSub,
  MaxEvents,      \* bound: events Stripe sends
  MaxDeliveries,  \* bound: webhook requests
  MaxFaults       \* bound: crashes and I/O errors

Free == "FREE"
Live == {"incomplete", "active", "past_due"}
Statuses == Live \cup {"canceled"}
Invoices == Subs \X (1..MaxEvents)

ASSUME PaymentsAssumption ==
  /\ Owner \in [Subs -> Users]
  /\ Free \notin Tiers
  /\ NoSub \notin Subs
  /\ MaxEvents \in Nat /\ MaxDeliveries \in Nat /\ MaxFaults \in Nat

VARIABLES
  \* Stripe.
  state,       \* status of each subscription, "none" before, "open" while the session waits
  tier,        \* its plan
  period,      \* the number of invoices paid
  sent,        \* the events, in the order of what they tell
  \* The database.
  rowSub,      \* stripeSubscriptionId of the user's Subscription row, or NoSub
  rowStatus,   \* its status
  plan,        \* User.planTier; monthlyQuota is set with it
  customer,    \* User.stripeCustomerId
  payments,    \* the stripeInvoiceIds of the Payment rows
  \* Calls in flight.
  checkout,    \* createCheckoutSession, one per subscription to be
  cust,        \* the customer the call read or created
  pc,          \* webhook handlers
  ev,          \* the event each handles
  snap,        \* the Stripe subscription it works with
  deliveries,
  faults,
  \* What happened so far; no code reads these.
  sold,        \* <<user, tier>>: the plans that were active at Stripe
  been,        \* the statuses each subscription has had
  downgraded,  \* the subscriptions whose end has taken the user's plan away
  overlap,     \* the users who had two live subscriptions at once
  orderly      \* have the events been handled one by one and in order?

stripeVars  == <<state, tier, period, sent, sold, been, overlap>>
rowVars     == <<rowSub, rowStatus>>
planVars    == <<plan, downgraded>>
callVars    == <<checkout, cust, customer>>
handlerVars == <<pc, ev, snap>>
vars == <<stripeVars, rowVars, planVars, payments, callVars, handlerVars, deliveries, faults, orderly>>

Event(kind, s, st, t, n) == [kind |-> kind, sub |-> s, state |-> st, tier |-> t, period |-> n]
Kinds == {"checkout", "updated", "deleted", "invoice", "failed"}
Events == [kind : Kinds, sub : Subs, state : Statuses, tier : Tiers, period : 0..MaxEvents]
NoEvent == [kind |-> "none"]
Snapshots == [state : Statuses, tier : Tiers]
NoSnap == [state |-> "none"]

TypeOK ==
  /\ state \in [Subs -> Statuses \cup {"none", "open"}]
  /\ tier \in [Subs -> Tiers \cup {Free}]
  /\ period \in [Subs -> 0..MaxEvents]
  /\ sent \in Seq(Events) /\ Len(sent) <= MaxEvents
  /\ rowSub \in [Users -> Subs \cup {NoSub}]
  /\ rowStatus \in [Users -> {"NONE", "INCOMPLETE", "ACTIVE", "PAST_DUE", "CANCELED"}]
  /\ plan \in [Users -> Tiers \cup {Free}]
  /\ customer \in [Users -> Subs \cup {NoSub}]
  /\ payments \subseteq Invoices
  /\ checkout \in [Subs -> {"new", "check", "customer", "save", "session", "done"}]
  /\ cust \in [Subs -> Subs \cup {NoSub}]
  /\ pc \in [Handlers -> {"idle", "fetch1", "upsert1", "plan1", "fetch", "upsert", "plan",
                          "row", "look", "create", "cancel", "downgrade", "pastdue"}]
  /\ ev \in [Handlers -> Events \cup {NoEvent}]
  /\ snap \in [Handlers -> Snapshots \cup {NoSnap}]
  /\ deliveries \in 0..MaxDeliveries
  /\ faults \in 0..MaxFaults
  /\ sold \subseteq Users \X Tiers
  /\ been \in [Subs -> SUBSET Statuses]
  /\ downgraded \subseteq Subs
  /\ overlap \subseteq Users
  /\ orderly \in BOOLEAN

Init ==
  /\ state = [s \in Subs |-> "none"]
  /\ tier = [s \in Subs |-> Free]
  /\ period = [s \in Subs |-> 0]
  /\ sent = <<>>
  /\ rowSub = [u \in Users |-> NoSub]
  /\ rowStatus = [u \in Users |-> "NONE"]
  /\ plan = [u \in Users |-> Free]
  /\ customer = [u \in Users |-> NoSub]
  /\ payments = {}
  /\ checkout = [s \in Subs |-> "new"]
  /\ cust = [s \in Subs |-> NoSub]
  /\ pc = [h \in Handlers |-> "idle"]
  /\ ev = [h \in Handlers |-> NoEvent]
  /\ snap = [h \in Handlers |-> NoSnap]
  /\ deliveries = 0
  /\ faults = 0
  /\ sold = {}
  /\ been = [s \in Subs |-> {}]
  /\ downgraded = {}
  /\ overlap = {}
  /\ orderly = TRUE

-----------------------------------------------------------------------------
(* POST /payments/checkout: PaymentsService.createCheckoutSession.          *)

CheckoutReadUser(s) ==
  /\ checkout[s] = "new"
  /\ cust' = [cust EXCEPT ![s] = customer[Owner[s]]]
  /\ checkout' = [checkout EXCEPT ![s] = "check"]
  /\ UNCHANGED <<stripeVars, rowVars, planVars, payments, customer, handlerVars, deliveries,
                 faults, orderly>>

Refused(u) == rowStatus[u] = "ACTIVE"

\* A refused call leaves nothing behind; the client may call again.
CheckoutCheckRow(s) ==
  /\ checkout[s] = "check"
  /\ checkout' = [checkout EXCEPT ![s] = IF Refused(Owner[s]) THEN "new"
                                         ELSE IF cust[s] = NoSub THEN "customer"
                                         ELSE "session"]
  /\ UNCHANGED <<stripeVars, rowVars, planVars, payments, cust, customer, handlerVars, deliveries,
                 faults, orderly>>

CheckoutCreateCustomer(s) ==
  /\ checkout[s] = "customer"
  /\ cust' = [cust EXCEPT ![s] = s]
  /\ checkout' = [checkout EXCEPT ![s] = "save"]
  /\ UNCHANGED <<stripeVars, rowVars, planVars, payments, customer, handlerVars, deliveries,
                 faults, orderly>>

CheckoutSaveCustomer(s) ==
  /\ checkout[s] = "save"
  /\ customer' = [customer EXCEPT ![Owner[s]] = cust[s]]
  /\ checkout' = [checkout EXCEPT ![s] = "session"]
  /\ UNCHANGED <<stripeVars, rowVars, planVars, payments, cust, handlerVars, deliveries, faults,
                 orderly>>

CheckoutCreateSession(s) ==
  /\ checkout[s] = "session"
  /\ state' = [state EXCEPT ![s] = "open"]
  /\ \E t \in Tiers : tier' = [tier EXCEPT ![s] = t]
  /\ checkout' = [checkout EXCEPT ![s] = "done"]
  /\ UNCHANGED <<period, sent, sold, been, overlap, rowVars, planVars, payments, cust, customer,
                 handlerVars, deliveries, faults, orderly>>

-----------------------------------------------------------------------------
(* Stripe and its customers.                                                *)

LiveSubs(u) == {s \in Subs : Owner[s] = u /\ state[s] \in Live}

\* Subscription s gets status st, plan t and n paid invoices, and Stripe sends the events es.
Moves(s, st, t, n, es) ==
  /\ Len(sent) + Len(es) <= MaxEvents
  /\ state' = [state EXCEPT ![s] = st]
  /\ tier' = [tier EXCEPT ![s] = t]
  /\ period' = [period EXCEPT ![s] = n]
  /\ sent' = sent \o es
  /\ sold' = IF st = "active" THEN sold \cup {<<Owner[s], t>>} ELSE sold
  /\ been' = [been EXCEPT ![s] = @ \cup {st}]
  /\ overlap' = IF st \in Live /\ LiveSubs(Owner[s]) \ {s} # {}
                THEN overlap \cup {Owner[s]} ELSE overlap
  /\ UNCHANGED <<rowVars, planVars, payments, callVars, handlerVars, deliveries, faults, orderly>>

Updated(s, st, t, n) == Event("updated", s, st, t, n)

StripeCheckoutPaid(s) ==
  /\ state[s] = "open"
  /\ Moves(s, "active", tier[s], 1,
           <<Event("invoice", s, "active", tier[s], 1), Updated(s, "active", tier[s], 1),
             Event("checkout", s, "active", tier[s], 1)>>)

\* A payment method that settles later: the session completes unpaid.
StripeCheckoutUnpaid(s) ==
  /\ state[s] = "open"
  /\ Moves(s, "incomplete", tier[s], 0, <<Event("checkout", s, "incomplete", tier[s], 0)>>)

StripeInvoicePaid(s) ==
  /\ state[s] \in Live
  /\ LET n == period[s] + 1 IN
     Moves(s, "active", tier[s], n,
           <<Event("invoice", s, "active", tier[s], n), Updated(s, "active", tier[s], n)>>)

StripeInvoiceFails(s) ==
  /\ state[s] \in {"active", "past_due"}
  /\ Moves(s, "past_due", tier[s], period[s],
           <<Event("failed", s, "past_due", tier[s], period[s]),
             Updated(s, "past_due", tier[s], period[s])>>)

\* The billing portal shows the subscriptions of the customer the user row names.
StripePlanChanges(s) ==
  /\ state[s] = "active"
  /\ cust[s] = customer[Owner[s]]
  /\ \E t \in Tiers \ {tier[s]} :
       Moves(s, "active", t, period[s], <<Updated(s, "active", t, period[s])>>)

\* Cancelled by the customer or given up by Stripe.
StripeEnds(s) ==
  /\ state[s] \in Live
  /\ Moves(s, "canceled", tier[s], period[s],
           <<Event("deleted", s, "canceled", tier[s], period[s])>>)

-----------------------------------------------------------------------------
(* POST /payments/webhook.                                                  *)

\* A mutant of Entry: the end of a subscription is handled like a failed payment.
EntryForgetsEnd(kind) ==
  CASE kind = "checkout" -> "fetch1"
    [] kind = "updated"  -> "upsert"
    [] kind = "invoice"  -> "fetch"
    [] kind \in {"failed", "deleted"} -> "pastdue"

\* Where the handling of each kind of event begins.
Entry(kind) ==
  CASE kind = "checkout" -> "fetch1"
    [] kind = "updated"  -> "upsert"
    [] kind = "deleted"  -> "cancel"
    [] kind = "invoice"  -> "fetch"
    [] kind = "failed"   -> "pastdue"

\* The 200 is sent here; whatever happens to the handler, Stripe will not send again.
Deliver(h, i) ==
  LET e == sent[i] IN
  /\ pc[h] = "idle"
  /\ deliveries < MaxDeliveries
  /\ deliveries' = deliveries + 1
  /\ orderly' = (orderly /\ i = deliveries + 1 /\ \A k \in Handlers : pc[k] = "idle")
  /\ pc' = [pc EXCEPT ![h] = Entry(e.kind)]
  /\ ev' = [ev EXCEPT ![h] = e]
  /\ snap' = [snap EXCEPT ![h] = IF e.kind = "updated"
                                 THEN [state |-> e.state, tier |-> e.tier] ELSE NoSnap]
  /\ UNCHANGED <<stripeVars, rowVars, planVars, payments, callVars, faults>>

Goto(h, label) ==
  /\ pc' = [pc EXCEPT ![h] = label]
  /\ UNCHANGED <<ev, snap>>

Returns(h) ==
  /\ pc' = [pc EXCEPT ![h] = "idle"]
  /\ ev' = [ev EXCEPT ![h] = NoEvent]
  /\ snap' = [snap EXCEPT ![h] = NoSnap]

SubOf(h)  == ev[h].sub
UserOf(h) == Owner[SubOf(h)]
InvoiceOf(h) == <<SubOf(h), ev[h].period>>

\* subscriptions.retrieve: the subscription as it is now.
Fetch(h) ==
  /\ pc[h] \in {"fetch1", "fetch"}
  /\ snap' = [snap EXCEPT ![h] = [state |-> state[SubOf(h)], tier |-> tier[SubOf(h)]]]
  /\ pc' = [pc EXCEPT ![h] = IF pc[h] = "fetch1" THEN "upsert1" ELSE "upsert"]
  /\ UNCHANGED <<stripeVars, rowVars, planVars, payments, callVars, ev, deliveries, faults, orderly>>

\* A mutant of AfterSync: after an error the next statement runs.
AfterSyncCarriesOn(h) ==
  CASE pc[h] = "upsert1" -> Goto(h, "plan1")
    [] pc[h] = "upsert"  -> Goto(h, "plan")
    [] pc[h] = "plan1"   -> Goto(h, "fetch")
    [] pc[h] = "plan"    -> Returns(h)

\* What follows _syncSubscription, which swallows its errors.  A completed checkout runs
\* two handlers, the second only if the session is paid.
AfterSync(h) ==
  CASE pc[h] \in {"upsert1", "plan1"} ->
         IF ev[h].period > 0 THEN Goto(h, "fetch") ELSE Returns(h)
    [] pc[h] \in {"upsert", "plan"} ->
         IF ev[h].kind = "updated" THEN Returns(h) ELSE Goto(h, "row")

\* A mutant of toSubscriptionStatus: Stripe's word is stored.
toSubscriptionStatusRaw(st) == st

toSubscriptionStatus(st) ==
  CASE st = "incomplete" -> "INCOMPLETE"
    [] st = "active"     -> "ACTIVE"
    [] st = "past_due"   -> "PAST_DUE"
    [] st = "canceled"   -> "CANCELED"

\* A mutant of Billable: any subscription grants its plan.
BillableAlways(status) == TRUE

\* The third literal is the source's and is no SubscriptionStatus.
Billable(status) == status \in {"ACTIVE", "TRIALING", "CANCELLED"}

Upsert(h) ==
  LET status == toSubscriptionStatus(snap[h].state) IN
  /\ pc[h] \in {"upsert1", "upsert"}
  /\ rowSub' = [rowSub EXCEPT ![UserOf(h)] = SubOf(h)]
  /\ rowStatus' = [rowStatus EXCEPT ![UserOf(h)] = status]
  /\ IF Billable(status) THEN Goto(h, IF pc[h] = "upsert1" THEN "plan1" ELSE "plan")
                         ELSE AfterSync(h)
  /\ UNCHANGED <<stripeVars, planVars, payments, callVars, deliveries, faults, orderly>>

UpdatePlan(h) ==
  /\ pc[h] \in {"plan1", "plan"}
  /\ plan' = [plan EXCEPT ![UserOf(h)] = snap[h].tier]
  /\ AfterSync(h)
  /\ UNCHANGED <<stripeVars, rowVars, downgraded, payments, callVars, deliveries, faults, orderly>>

FindRow(h) ==
  /\ pc[h] = "row"
  /\ IF rowSub[UserOf(h)] = SubOf(h) THEN Goto(h, "look") ELSE Returns(h)
  /\ UNCHANGED <<stripeVars, rowVars, planVars, payments, callVars, deliveries, faults, orderly>>

FindPayment(h) ==
  /\ pc[h] = "look"
  /\ IF InvoiceOf(h) \in payments THEN Returns(h) ELSE Goto(h, "create")
  /\ UNCHANGED <<stripeVars, rowVars, planVars, payments, callVars, deliveries, faults, orderly>>

\* stripeInvoiceId is unique: a second insert throws.
CreatePayment(h) ==
  /\ pc[h] = "create"
  /\ payments' = payments \cup {InvoiceOf(h)}
  /\ Returns(h)
  /\ UNCHANGED <<stripeVars, rowVars, planVars, callVars, deliveries, faults, orderly>>

\* A mutant of NamesSub: the row is found by the user, not by the subscription.
NamesSubAny(h) == rowSub[UserOf(h)] # NoSub

\* updateSubscriptionStatus finds the row by stripeSubscriptionId, and throws without one.
NamesSub(h) == rowSub[UserOf(h)] = SubOf(h)

Cancel(h) ==
  /\ pc[h] = "cancel"
  /\ \/ /\ NamesSub(h)
        /\ rowStatus' = [rowStatus EXCEPT ![UserOf(h)] = "CANCELED"]
        /\ Goto(h, "downgrade")
     \/ /\ ~NamesSub(h)
        /\ Returns(h)
        /\ UNCHANGED rowStatus
  /\ UNCHANGED <<stripeVars, rowSub, planVars, payments, callVars, deliveries, faults, orderly>>

Downgrade(h) ==
  /\ pc[h] = "downgrade"
  /\ plan' = [plan EXCEPT ![UserOf(h)] = Free]
  /\ downgraded' = downgraded \cup {SubOf(h)}
  /\ Returns(h)
  /\ UNCHANGED <<stripeVars, rowVars, payments, callVars, deliveries, faults, orderly>>

MarkPastDue(h) ==
  /\ pc[h] = "pastdue"
  /\ rowStatus' = IF NamesSub(h) THEN [rowStatus EXCEPT ![UserOf(h)] = "PAST_DUE"] ELSE rowStatus
  /\ Returns(h)
  /\ UNCHANGED <<stripeVars, rowSub, planVars, payments, callVars, deliveries, faults, orderly>>

-----------------------------------------------------------------------------
(* Faults.                                                                  *)

\* An await of a handler rejects.  _syncSubscription swallows its own errors.
HandlerFails(h) ==
  /\ faults < MaxFaults
  /\ faults' = faults + 1
  /\ pc[h] # "idle"
  /\ IF pc[h] \in {"upsert1", "plan1", "upsert", "plan"} THEN AfterSync(h) ELSE Returns(h)
  /\ UNCHANGED <<stripeVars, rowVars, planVars, payments, callVars, deliveries, orderly>>

CheckoutFails(s) ==
  /\ faults < MaxFaults
  /\ faults' = faults + 1
  /\ checkout[s] \notin {"new", "done"}
  /\ checkout' = [checkout EXCEPT ![s] = "new"]
  /\ UNCHANGED <<stripeVars, rowVars, planVars, payments, cust, customer, handlerVars, deliveries,
                 orderly>>

\* The process exits: every call in flight is gone, acknowledged events included.
Crash ==
  /\ faults < MaxFaults
  /\ faults' = faults + 1
  /\ pc' = [h \in Handlers |-> "idle"]
  /\ ev' = [h \in Handlers |-> NoEvent]
  /\ snap' = [h \in Handlers |-> NoSnap]
  /\ checkout' = [s \in Subs |-> IF checkout[s] = "done" THEN "done" ELSE "new"]
  /\ UNCHANGED <<stripeVars, rowVars, planVars, payments, cust, customer, deliveries, orderly>>

-----------------------------------------------------------------------------
CheckoutStep(s) ==
  \/ CheckoutReadUser(s) \/ CheckoutCheckRow(s) \/ CheckoutCreateCustomer(s)
  \/ CheckoutSaveCustomer(s) \/ CheckoutCreateSession(s)

StripeStep(s) ==
  \/ StripeCheckoutPaid(s) \/ StripeCheckoutUnpaid(s) \/ StripeInvoicePaid(s)
  \/ StripeInvoiceFails(s) \/ StripePlanChanges(s) \/ StripeEnds(s)

HandlerStep(h) ==
  \/ Fetch(h) \/ Upsert(h) \/ UpdatePlan(h) \/ FindRow(h) \/ FindPayment(h) \/ CreatePayment(h)
  \/ Cancel(h) \/ Downgrade(h) \/ MarkPastDue(h)

Next ==
  \/ \E s \in Subs : CheckoutStep(s) \/ StripeStep(s) \/ CheckoutFails(s)
  \/ \E h \in Handlers :
       (\E i \in 1..Len(sent) : Deliver(h, i)) \/ HandlerStep(h) \/ HandlerFails(h)
  \/ Crash

Spec == Init /\ [][Next]_vars

-----------------------------------------------------------------------------
\* The component implements Entitlement: whatever is duplicated, lost or reordered, a plan was
\* sold to the user who has it and goes only when a subscription of the user has ended, and a
\* payment recorded was collected.
Promise == INSTANCE Entitlement WITH
  ended     <- {Owner[s] : s \in {s \in Subs : state[s] = "canceled"}},
  collected <- {i \in Invoices : i[2] <= period[i[1]]}
EntitlementSpec == Promise!Spec

\* The quota gate takes a paid plan without a Subscription row for an anomaly
\* (checkTranscriptionQuota.ts:103): no crash or swallowed error between the two writes makes one.
PaidPlanHasSubscription == \A u \in Users : plan[u] # Free => rowSub[u] # NoSub

\* What a row says of its subscription was true at Stripe at some time: the late end or failed
\* payment of an earlier subscription of the user is never written over a newer one.
RowWasTrue ==
  \A u \in Users : rowSub[u] # NoSub =>
    /\ Owner[rowSub[u]] = u
    /\ \E st \in been[rowSub[u]] : rowStatus[u] = toSubscriptionStatus(st)

\* What Stripe has active for the user is what the user has; without anything live it is FREE.
InSync(u) ==
  /\ \A s \in Subs : Owner[s] = u /\ state[s] = "active" =>
       plan[u] = tier[s] /\ rowSub[u] = s /\ rowStatus[u] = "ACTIVE"
  /\ LiveSubs(u) = {} => plan[u] = Free

\* Once every event has been handled, one at a time, in order and without a fault, the user has
\* what Stripe sold, provided the user never had two subscriptions at once.  It needs all of that.
SettledInSync ==
  orderly /\ deliveries = Len(sent) /\ faults = 0 /\ (\A h \in Handlers : pc[h] = "idle") =>
    \A u \in Users \ overlap : InSync(u)

-----------------------------------------------------------------------------
\* payments.service.ts:74 tells a user "You already have an active subscription": nobody gets two.
OneActiveSubscription == overlap = {}

\* payments.service.ts:251 logs "Subscription deleted - user downgraded to FREE": a user whose
\* every subscription has been handled so is not given a plan back.
DowngradedStaysFree ==
  [][\A u \in Users :
       plan[u] = Free /\ (\A s \in Subs : Owner[s] = u => s \in downgraded)
         => plan'[u] = Free]_vars
=============================================================================
