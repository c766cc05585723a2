--------------------------- MODULE PaymentsProofs ---------------------------
(***************************************************************************)
(* Theorems about Payments, for every set of users, subscriptions, plans   *)
(* and webhook requests and for every bound.                               *)
(***************************************************************************)
EXTENDS Payments, SequenceTheorems, TLAPS

-----------------------------------------------------------------------------
(* The inductive invariant: what Stripe's own state says (StripeOK), what   *)
(* is true of an event from the moment it is sent (Told), what a handler    *)
(* knows at each of its steps (Knows), and what follows for the rows.       *)

StripeOK ==
  \A s \in Subs :
    /\ checkout[s] = "done" <=> state[s] # "none"
    /\ state[s] # "none" => tier[s] \in Tiers
    /\ state[s] \in {"none", "open"} => period[s] = 0
    /\ state[s] \in Statuses => state[s] \in been[s]
    /\ state[s] = "active" => <<Owner[s], tier[s]>> \in sold
    /\ period[s] <= Len(sent)

Told(e) ==
  /\ state[e.sub] \in Statuses
  /\ e.state \in been[e.sub]
  /\ e.state = "active" => <<Owner[e.sub], e.tier>> \in sold
  /\ e.period <= period[e.sub]
  /\ e.kind = "invoice" => e.period > 0
  /\ e.kind = "deleted" => e.state = "canceled" /\ state[e.sub] = "canceled"
  /\ e.kind = "failed" => e.state = "past_due"

MailOK == \A i \in 1..Len(sent) : Told(sent[i])

SnapTold(h) ==
  /\ snap[h] \in Snapshots
  /\ snap[h].state \in been[SubOf(h)]
  /\ snap[h].state = "active" => <<UserOf(h), snap[h].tier>> \in sold

Knows(h, label) ==
  /\ label \in {"fetch", "row", "look", "create"} => ev[h].period > 0
  /\ label \in {"upsert", "plan"} /\ ev[h].kind # "updated" => ev[h].period > 0
  /\ label \in {"upsert1", "upsert", "plan1", "plan"} => SnapTold(h)
  /\ label \in {"plan1", "plan"} => snap[h].state = "active"
  /\ label \in {"cancel", "downgrade"} => ev[h].kind = "deleted"
  /\ label = "pastdue" => ev[h].kind = "failed"

HandlersOK ==
  \A h \in Handlers : pc[h] # "idle" =>
    /\ ev[h] \in Events
    /\ Told(ev[h])
    /\ Knows(h, pc[h])

\* A plan is written only behind a row.
GrantHasRow == \A h \in Handlers : pc[h] \in {"plan1", "plan"} => rowSub[UserOf(h)] # NoSub

RowsOK == RowWasTrue /\ PaidPlanHasSubscription /\ GrantHasRow

IInv == TypeOK /\ StripeOK /\ MailOK /\ HandlersOK /\ RowsOK

LEMMA IInit == Init => IInv
<1> SUFFICES ASSUME Init PROVE IInv
  OBVIOUS
<1> USE PaymentsAssumption DEF Init
<1>1. TypeOK
  BY DEF TypeOK, Statuses, Live, Events, Invoices
<1>2. StripeOK
  BY DEF StripeOK, Statuses, Live
<1>3. MailOK
  BY DEF MailOK
<1>4. HandlersOK
  BY DEF HandlersOK
<1>5. RowsOK
  BY DEF RowsOK, RowWasTrue, PaidPlanHasSubscription, GrantHasRow
<1> QED BY <1>1, <1>2, <1>3, <1>4, <1>5 DEF IInv

-----------------------------------------------------------------------------
(* Steps that leave the rows and the handlers alone.                        *)

\* Nothing a row, an event or a handler relies on is taken back by Stripe: what Stripe's
\* variables gain keeps Told and SnapTold.
Forward ==
  /\ sold \subseteq sold'
  /\ \A s \in Subs :
       /\ state[s] \in Statuses => state'[s] \in Statuses
       /\ state[s] = "canceled" => state'[s] = "canceled"
       /\ period[s] <= period'[s]
       /\ been[s] \subseteq been'[s]

LEMMA ForwardKeepsTold ==
  ASSUME TypeOK, TypeOK', Forward, NEW e \in Events, Told(e)
  PROVE  Told(e)'
<1>1. e.sub \in Subs /\ e.period \in Nat
  BY PaymentsAssumption DEF Events
<1>2. period[e.sub] \in Nat /\ period'[e.sub] \in Nat
  BY <1>1, PaymentsAssumption DEF TypeOK
<1> QED BY <1>1, <1>2 DEF Told, Forward

LEMMA ForwardKeepsHandlers ==
  ASSUME TypeOK, TypeOK', Forward, HandlersOK, UNCHANGED handlerVars
  PROVE  HandlersOK'
<1> SUFFICES ASSUME NEW h \in Handlers, pc'[h] # "idle"
             PROVE  (ev[h] \in Events)' /\ Told(ev[h])' /\ Knows(h, pc[h])'
  BY DEF HandlersOK
<1>1. ev' = ev /\ snap' = snap /\ pc' = pc
  BY DEF handlerVars
<1>2. ev[h] \in Events /\ Told(ev[h]) /\ Knows(h, pc[h])
  BY <1>1 DEF HandlersOK
<1>3. Told(ev[h])'
  <2>1. \A e \in Events : Told(e) => Told(e)'
    BY ForwardKeepsTold
  <2> QED BY <1>1, <1>2, <2>1 DEF Told
<1>4. SnapTold(h) => SnapTold(h)'
  BY <1>1, <1>2 DEF SnapTold, Forward, SubOf, UserOf, Events
<1> QED BY <1>1, <1>2, <1>3, <1>4 DEF Knows

LEMMA ForwardKeepsRows ==
  ASSUME TypeOK, RowsOK, Forward, UNCHANGED <<rowVars, plan, handlerVars>>
  PROVE  RowsOK'
<1>1. rowSub' = rowSub /\ rowStatus' = rowStatus /\ plan' = plan /\ pc' = pc /\ ev' = ev
  BY DEF rowVars, handlerVars
<1>2. RowWasTrue'
  <2> SUFFICES ASSUME NEW u \in Users, rowSub[u] # NoSub
               PROVE  /\ Owner[rowSub[u]] = u
                      /\ \E st \in been'[rowSub[u]] : rowStatus[u] = toSubscriptionStatus(st)
    BY <1>1 DEF RowWasTrue
  <2>1. rowSub[u] \in Subs
    BY DEF TypeOK
  <2>2. Owner[rowSub[u]] = u /\ \E st \in been[rowSub[u]] : rowStatus[u] = toSubscriptionStatus(st)
    BY DEF RowsOK, RowWasTrue
  <2> QED BY <2>1, <2>2 DEF Forward
<1>3. PaidPlanHasSubscription' /\ GrantHasRow'
  BY <1>1 DEF RowsOK, PaidPlanHasSubscription, GrantHasRow, UserOf, SubOf
<1> QED BY <1>2, <1>3 DEF RowsOK

LEMMA CheckoutKeeps ==
  ASSUME IInv, NEW s \in Subs, CheckoutStep(s) \/ CheckoutFails(s)
  PROVE  IInv' /\ Forward
<1> USE PaymentsAssumption DEF stripeVars, rowVars, planVars, callVars, handlerVars
<1>0. TypeOK /\ StripeOK
  BY DEF IInv
<1>1. /\ checkout' \in [Subs -> {"new", "check", "customer", "save", "session", "done"}]
      /\ cust' \in [Subs -> Subs \cup {NoSub}]
      /\ customer' \in [Users -> Subs \cup {NoSub}]
      /\ faults' \in 0..MaxFaults
  <2>1. CASE CheckoutStep(s)
    <3>1. Owner[s] \in Users /\ customer[Owner[s]] \in Subs \cup {NoSub}
      BY <1>0 DEF TypeOK
    <3>2. CASE CheckoutReadUser(s)
      BY <1>0, <3>1, <3>2 DEF TypeOK, CheckoutReadUser
    <3>3. CASE CheckoutCheckRow(s)
      BY <1>0, <3>3 DEF TypeOK, CheckoutCheckRow
    <3>4. CASE CheckoutCreateCustomer(s)
      BY <1>0, <3>4 DEF TypeOK, CheckoutCreateCustomer
    <3>5. CASE CheckoutSaveCustomer(s)
      BY <1>0, <3>1, <3>5 DEF TypeOK, CheckoutSaveCustomer
    <3>6. CASE CheckoutCreateSession(s)
      BY <1>0, <3>6 DEF TypeOK, CheckoutCreateSession
    <3> QED BY <2>1, <3>2, <3>3, <3>4, <3>5, <3>6 DEF CheckoutStep
  <2>2. CASE CheckoutFails(s)
    BY <1>0, <2>2 DEF TypeOK, CheckoutFails
  <2> QED BY <2>1, <2>2
<1>2. UNCHANGED <<rowVars, planVars, payments, handlerVars, deliveries, orderly,
                  period, sent, sold, been, overlap>>
  BY DEF CheckoutStep, CheckoutReadUser, CheckoutCheckRow, CheckoutCreateCustomer,
         CheckoutSaveCustomer, CheckoutCreateSession, CheckoutFails
<1>3. CASE CheckoutCreateSession(s)
  <2>1. TypeOK'
    BY <1>0, <1>1, <1>2, <1>3 DEF TypeOK, CheckoutCreateSession
  <2>2. StripeOK'
    BY <1>0, <1>2, <1>3 DEF StripeOK, TypeOK, CheckoutCreateSession, Statuses, Live
  <2>3. state[s] = "none"
    BY <1>0, <1>3 DEF StripeOK, CheckoutCreateSession
  <2>4. Forward
    BY <1>0, <1>2, <1>3, <2>3 DEF Forward, TypeOK, CheckoutCreateSession, Statuses, Live
  <2>5. MailOK'
    <3> SUFFICES ASSUME NEW i \in 1..Len(sent) PROVE Told(sent[i])'
      BY <1>2 DEF MailOK
    <3>1. sent[i] \in Events /\ Told(sent[i])
      BY <1>0 DEF IInv, MailOK, TypeOK
    <3>2. \A e \in Events : Told(e) => Told(e)'
      BY <1>0, <2>1, <2>4, ForwardKeepsTold
    <3> QED BY <1>2, <3>1, <3>2 DEF Told
  <2>6. HandlersOK'
    BY <1>0, <1>2, <2>1, <2>4, ForwardKeepsHandlers DEF IInv
  <2>7. RowsOK'
    BY <1>0, <1>2, <2>4, ForwardKeepsRows DEF IInv
  <2> QED BY <2>1, <2>2, <2>4, <2>5, <2>6, <2>7 DEF IInv
<1>4. CASE ~CheckoutCreateSession(s)
  <2>1. UNCHANGED stripeVars
    BY <1>4 DEF CheckoutStep, CheckoutReadUser, CheckoutCheckRow, CheckoutCreateCustomer,
         CheckoutSaveCustomer, CheckoutFails
  <2>2. TypeOK'
    BY <1>0, <1>1, <1>2, <2>1 DEF TypeOK
  <2>3. \A x \in Subs : checkout'[x] = "done" <=> checkout[x] = "done"
    BY <1>0, <1>4 DEF CheckoutStep, CheckoutReadUser, CheckoutCheckRow, CheckoutCreateCustomer,
         CheckoutSaveCustomer, CheckoutFails, TypeOK
  <2>4. StripeOK'
    BY <1>0, <2>1, <2>3 DEF StripeOK
  <2>5. MailOK' /\ HandlersOK' /\ RowsOK'
    <3>1. MailOK'
      BY <1>2, <2>1 DEF IInv, MailOK, Told, SubOf, UserOf
    <3>2. HandlersOK'
      BY <1>2, <2>1 DEF IInv, HandlersOK, Told, Knows, SnapTold, SubOf, UserOf
    <3>3. RowsOK'
      BY <1>2, <2>1 DEF IInv, RowsOK, RowWasTrue, PaidPlanHasSubscription, GrantHasRow, SubOf,
         UserOf
    <3> QED BY <3>1, <3>2, <3>3
  <2>6. Forward
    BY <1>0, <2>1 DEF Forward, TypeOK
  <2> QED BY <2>2, <2>4, <2>5, <2>6 DEF IInv
<1> QED BY <1>3, <1>4

\* What Stripe sends with a step of subscription s: each event tells the new status, plan and
\* invoice count, and its kind fits them.
Announces(es, s, st, t, n) ==
  /\ es \in Seq(Events)
  /\ n <= period[s] + Len(es)
  /\ \A i \in 1..Len(es) :
       /\ es[i].sub = s /\ es[i].state = st /\ es[i].tier = t /\ es[i].period = n
       /\ es[i].kind = "invoice" => n > 0
       /\ es[i].kind = "deleted" => st = "canceled"
       /\ es[i].kind = "failed" => st = "past_due"

LEMMA MovesKeeps ==
  ASSUME IInv, NEW s \in Subs, NEW st \in Statuses, NEW t \in Tiers, NEW n \in Nat, NEW es,
         Moves(s, st, t, n, es), Announces(es, s, st, t, n),
         state[s] \in Live \cup {"open"}, period[s] <= n
  PROVE  IInv' /\ Forward
<1> USE PaymentsAssumption DEF rowVars, planVars, callVars, handlerVars
<1>0. TypeOK /\ StripeOK /\ MailOK
  BY DEF IInv
<1>p. \A x \in Subs : period[x] \in Nat
  BY <1>0 DEF TypeOK
<1>1. /\ state' = [state EXCEPT ![s] = st] /\ tier' = [tier EXCEPT ![s] = t]
      /\ period' = [period EXCEPT ![s] = n] /\ sent' = sent \o es
      /\ sold' = IF st = "active" THEN sold \cup {<<Owner[s], t>>} ELSE sold
      /\ been' = [been EXCEPT ![s] = @ \cup {st}]
      /\ overlap' = IF st \in Live /\ LiveSubs(Owner[s]) \ {s} # {}
                    THEN overlap \cup {Owner[s]} ELSE overlap
      /\ Len(sent) + Len(es) <= MaxEvents
      /\ UNCHANGED <<rowVars, planVars, payments, callVars, handlerVars, deliveries, faults, orderly>>
  BY DEF Moves
<1>2. /\ es \in Seq(Events) /\ sent \in Seq(Events)
      /\ Len(es) \in Nat /\ Len(sent) \in Nat
      /\ sent' \in Seq(Events) /\ Len(sent') = Len(sent) + Len(es)
      /\ \A i \in 1..Len(sent') :
           \/ i \in 1..Len(sent) /\ sent'[i] = sent[i]
           \/ \E k \in 1..Len(es) : sent'[i] = es[k]
  <2>1. es \in Seq(Events) /\ sent \in Seq(Events)
    BY <1>0 DEF Announces, TypeOK
  <2>2. Len(es) \in Nat /\ Len(sent) \in Nat
    BY <2>1
  <2>3. /\ sent' \in Seq(Events) /\ Len(sent') = Len(sent) + Len(es)
        /\ \A i \in 1..Len(sent) + Len(es) :
             sent'[i] = IF i <= Len(sent) THEN sent[i] ELSE es[i - Len(sent)]
    BY <1>1, <2>1, ConcatProperties
  <2>4. ASSUME NEW i \in 1..Len(sent')
        PROVE  \/ i \in 1..Len(sent) /\ sent'[i] = sent[i]
               \/ \E k \in 1..Len(es) : sent'[i] = es[k]
    <3>1. CASE i <= Len(sent)
      BY <2>2, <2>3, <2>4, <3>1
    <3>2. CASE ~(i <= Len(sent))
      <4>1. i - Len(sent) \in 1..Len(es)
        BY <2>2, <2>3, <2>4, <3>2
      <4> QED BY <2>3, <2>4, <3>2, <4>1
    <3> QED BY <3>1, <3>2
  <2> QED BY <2>1, <2>2, <2>3, <2>4
<1>3. n \in 0..MaxEvents
  <2>1. period[s] <= Len(sent)
    BY <1>0 DEF StripeOK
  <2>2. period[s] \in 0..MaxEvents
    BY <1>0 DEF TypeOK
  <2>3. n <= period[s] + Len(es)
    BY DEF Announces
  <2> QED BY <1>1, <1>2, <2>1, <2>2, <2>3
<1>4. TypeOK'
  <2>1. /\ state' \in [Subs -> Statuses \cup {"none", "open"}]
        /\ tier' \in [Subs -> Tiers \cup {Free}]
        /\ period' \in [Subs -> 0..MaxEvents]
        /\ been' \in [Subs -> SUBSET Statuses]
    BY <1>0, <1>1, <1>3 DEF TypeOK
  <2>2. sold' \subseteq Users \X Tiers /\ overlap' \subseteq Users
    BY <1>0, <1>1 DEF TypeOK
  <2>3. Len(sent') <= MaxEvents
    BY <1>1, <1>2
  <2> QED BY <1>0, <1>1, <1>2, <2>1, <2>2, <2>3 DEF TypeOK
<1>5. Forward
  BY <1>0, <1>1 DEF Forward, TypeOK, StripeOK, Live, Statuses
<1>6. StripeOK'
  <2> SUFFICES ASSUME NEW x \in Subs
               PROVE  /\ checkout[x] = "done" <=> state'[x] # "none"
                      /\ state'[x] # "none" => tier'[x] \in Tiers
                      /\ state'[x] \in {"none", "open"} => period'[x] = 0
                      /\ state'[x] \in Statuses => state'[x] \in been'[x]
                      /\ state'[x] = "active" => <<Owner[x], tier'[x]>> \in sold'
                      /\ period'[x] <= Len(sent')
    BY <1>1 DEF StripeOK
  <2>1. CASE x = s
    <3>1. checkout[s] = "done"
      BY <1>0 DEF StripeOK, Live
    <3>2. n <= Len(sent')
      <4>1. period[s] <= Len(sent) /\ period[s] \in Nat
        BY <1>0, <1>p DEF StripeOK
      <4>2. n <= period[s] + Len(es)
        BY DEF Announces
      <4> QED BY <1>2, <4>1, <4>2
    <3>3. state'[s] = st /\ tier'[s] = t /\ period'[s] = n /\ st \in been'[s]
      BY <1>0, <1>1 DEF TypeOK
    <3> QED BY <1>1, <2>1, <3>1, <3>2, <3>3 DEF Statuses, Live
  <2>2. CASE x # s
    <3>1. state'[x] = state[x] /\ tier'[x] = tier[x] /\ period'[x] = period[x] /\ been'[x] = been[x]
      BY <1>0, <1>1, <2>2 DEF TypeOK
    <3>2. sold \subseteq sold'
      BY <1>5 DEF Forward
    <3>3. period[x] <= Len(sent) /\ period[x] \in Nat
      BY <1>0, <1>p DEF StripeOK
    <3> QED BY <1>0, <1>2, <3>1, <3>2, <3>3 DEF StripeOK
  <2> QED BY <2>1, <2>2
<1>7. MailOK'
  <2> SUFFICES ASSUME NEW i \in 1..Len(sent') PROVE Told(sent[i])'
    BY DEF MailOK
  <2>1. CASE i \in 1..Len(sent) /\ sent'[i] = sent[i]
    <3>1. sent[i] \in Events /\ Told(sent[i])
      BY <1>0, <2>1 DEF MailOK, TypeOK
    <3>2. \A e \in Events : Told(e) => Told(e)'
      BY <1>0, <1>4, <1>5, ForwardKeepsTold
    <3> QED BY <2>1, <3>1, <3>2 DEF Told
  <2>2. ASSUME NEW k \in 1..Len(es), sent'[i] = es[k]
        PROVE  Told(sent[i])'
    <3>1. /\ es[k].sub = s /\ es[k].state = st /\ es[k].tier = t /\ es[k].period = n
          /\ es[k].kind = "invoice" => n > 0
          /\ es[k].kind = "deleted" => st = "canceled"
          /\ es[k].kind = "failed" => st = "past_due"
      BY DEF Announces
    <3>2. state'[s] = st /\ period'[s] = n /\ st \in been'[s]
      BY <1>0, <1>1 DEF TypeOK
    <3> QED BY <1>1, <2>2, <3>1, <3>2 DEF Told
  <2> QED BY <1>2, <2>1, <2>2
<1>8. HandlersOK'
  BY <1>0, <1>1, <1>4, <1>5, ForwardKeepsHandlers DEF IInv
<1>9. RowsOK'
  BY <1>0, <1>1, <1>5, ForwardKeepsRows DEF IInv
<1> QED BY <1>4, <1>5, <1>6, <1>7, <1>8, <1>9 DEF IInv

\* The three lengths of what Stripe sends at once.
LEMMA AnnouncedOne ==
  ASSUME NEW s \in Subs, NEW st, NEW t, NEW n \in Nat, period[s] \in Nat, n <= period[s] + 1,
         NEW k, Event(k, s, st, t, n) \in Events,
         k = "invoice" => n > 0, k = "deleted" => st = "canceled", k = "failed" => st = "past_due"
  PROVE  Announces(<<Event(k, s, st, t, n)>>, s, st, t, n)
BY DEF Announces, Event

LEMMA AnnouncedTwo ==
  ASSUME NEW s \in Subs, NEW st, NEW t, NEW n \in Nat, period[s] \in Nat, n <= period[s] + 1,
         NEW k, Event(k, s, st, t, n) \in Events,
         NEW k2, Event(k2, s, st, t, n) \in Events,
         \A x \in {k, k2} : /\ x = "invoice" => n > 0
                            /\ x = "deleted" => st = "canceled"
                            /\ x = "failed" => st = "past_due"
  PROVE  Announces(<<Event(k, s, st, t, n), Event(k2, s, st, t, n)>>, s, st, t, n)
<1> DEFINE es == <<Event(k, s, st, t, n), Event(k2, s, st, t, n)>>
<1>1. es \in Seq(Events) /\ Len(es) = 2
  OBVIOUS
<1>2. \A i \in 1..2 : es[i] = Event(k, s, st, t, n) \/ es[i] = Event(k2, s, st, t, n)
  OBVIOUS
<1> QED BY <1>1, <1>2 DEF Announces, Event

LEMMA AnnouncedThree ==
  ASSUME NEW s \in Subs, NEW st, NEW t, NEW n \in Nat, period[s] \in Nat, n <= period[s] + 1,
         NEW k, Event(k, s, st, t, n) \in Events,
         NEW k2, Event(k2, s, st, t, n) \in Events,
         NEW k3, Event(k3, s, st, t, n) \in Events,
         \A x \in {k, k2, k3} : /\ x = "invoice" => n > 0
                                /\ x = "deleted" => st = "canceled"
                                /\ x = "failed" => st = "past_due"
  PROVE  Announces(<<Event(k, s, st, t, n), Event(k2, s, st, t, n), Event(k3, s, st, t, n)>>,
                   s, st, t, n)
<1> DEFINE es == <<Event(k, s, st, t, n), Event(k2, s, st, t, n), Event(k3, s, st, t, n)>>
<1>1. es \in Seq(Events) /\ Len(es) = 3
  OBVIOUS
<1>2. \A i \in 1..3 : \E x \in {k, k2, k3} : es[i] = Event(x, s, st, t, n)
  OBVIOUS
<1> QED BY <1>1, <1>2 DEF Announces, Event

LEMMA StripeKeeps ==
  ASSUME IInv, NEW s \in Subs, StripeStep(s)
  PROVE  IInv' /\ Forward
<1> USE PaymentsAssumption
<1>0. TypeOK /\ StripeOK
  BY DEF IInv
<1>p. period[s] \in 0..MaxEvents /\ period[s] \in Nat /\ Len(sent) \in Nat /\ period[s] <= Len(sent)
  <2>1. period[s] \in 0..MaxEvents /\ sent \in Seq(Events)
    BY <1>0 DEF TypeOK
  <2>2. period[s] <= Len(sent)
    BY <1>0 DEF StripeOK
  <2>3. Len(sent) \in Nat
    BY <2>1
  <2> QED BY <2>1, <2>2, <2>3
<1>e. \A k \in Kinds, st \in Statuses, t \in Tiers, n \in 0..MaxEvents :
        Event(k, s, st, t, n) \in Events
  BY DEF Event, Events
<1> USE DEF Updated
<1>1. CASE StripeCheckoutPaid(s)
  <2>1. tier[s] \in Tiers /\ period[s] = 0 /\ state[s] = "open"
    BY <1>0, <1>1 DEF StripeCheckoutPaid, StripeOK
  <2>2. 1 \in 0..MaxEvents
    BY <1>1, <1>p DEF StripeCheckoutPaid, Moves
  <2>3. \A k \in Kinds : Event(k, s, "active", tier[s], 1) \in Events
    BY <1>e, <2>1, <2>2 DEF Statuses, Live
  <2>4. Announces(<<Event("invoice", s, "active", tier[s], 1), Updated(s, "active", tier[s], 1),
                    Event("checkout", s, "active", tier[s], 1)>>, s, "active", tier[s], 1)
    BY <2>1, <2>3, AnnouncedThree DEF Kinds
  <2> QED BY <1>1, <2>1, <2>4, MovesKeeps DEF StripeCheckoutPaid, Statuses, Live
<1>2. CASE StripeCheckoutUnpaid(s)
  <2>1. tier[s] \in Tiers /\ period[s] = 0 /\ state[s] = "open"
    BY <1>0, <1>2 DEF StripeCheckoutUnpaid, StripeOK
  <2>2. Event("checkout", s, "incomplete", tier[s], 0) \in Events
    BY <1>e, <2>1 DEF Kinds, Statuses, Live
  <2>3. Announces(<<Event("checkout", s, "incomplete", tier[s], 0)>>, s, "incomplete", tier[s], 0)
    BY <2>1, <2>2, AnnouncedOne
  <2> QED BY <1>2, <2>1, <2>3, MovesKeeps DEF StripeCheckoutUnpaid, Statuses, Live
<1>3. CASE StripeInvoicePaid(s)
  <2> DEFINE n == period[s] + 1
  <2>1. tier[s] \in Tiers /\ state[s] \in Live
    BY <1>0, <1>3 DEF StripeInvoicePaid, StripeOK, Live
  <2>2. n \in 0..MaxEvents
    BY <1>3, <1>p DEF StripeInvoicePaid, Moves
  <2>3. \A k \in Kinds : Event(k, s, "active", tier[s], n) \in Events
    BY <1>e, <2>1, <2>2 DEF Statuses, Live
  <2>4. n \in Nat /\ period[s] \in Nat /\ n > 0 /\ period[s] <= n
    BY <1>p
  <2>5. Announces(<<Event("invoice", s, "active", tier[s], n), Updated(s, "active", tier[s], n)>>,
                  s, "active", tier[s], n)
    <3> HIDE DEF n
    <3> QED BY <2>3, <2>4, AnnouncedTwo DEF Kinds, n
  <2>6. Moves(s, "active", tier[s], n, <<Event("invoice", s, "active", tier[s], n),
                                        Updated(s, "active", tier[s], n)>>)
    BY <1>3 DEF StripeInvoicePaid
  <2> HIDE DEF n
  <2> QED BY <2>1, <2>4, <2>5, <2>6, MovesKeeps DEF Statuses, Live
<1>4. CASE StripeInvoiceFails(s)
  <2>1. tier[s] \in Tiers /\ state[s] \in Live
    BY <1>0, <1>4 DEF StripeInvoiceFails, StripeOK, Live
  <2>2. \A k \in Kinds : Event(k, s, "past_due", tier[s], period[s]) \in Events
    BY <1>e, <1>p, <2>1 DEF Statuses, Live
  <2>3. Announces(<<Event("failed", s, "past_due", tier[s], period[s]),
                    Updated(s, "past_due", tier[s], period[s])>>, s, "past_due", tier[s], period[s])
    BY <1>p, <2>1, <2>2, AnnouncedTwo DEF Kinds
  <2> QED BY <1>4, <1>p, <2>1, <2>3, MovesKeeps DEF StripeInvoiceFails, Statuses, Live
<1>5. CASE StripePlanChanges(s)
  <2>1. state[s] \in Live /\ period[s] \in Nat
    BY <1>5, <1>p DEF StripePlanChanges, Live
  <2>2. PICK t \in Tiers \ {tier[s]} :
          Moves(s, "active", t, period[s], <<Updated(s, "active", t, period[s])>>)
    BY <1>5 DEF StripePlanChanges
  <2>3. Updated(s, "active", t, period[s]) \in Events
    BY <1>e, <1>p DEF Kinds, Statuses, Live
  <2>4. Announces(<<Updated(s, "active", t, period[s])>>, s, "active", t, period[s])
    BY <2>1, <2>3, AnnouncedOne
  <2> QED BY <2>1, <2>2, <2>4, MovesKeeps DEF Statuses, Live
<1>6. CASE StripeEnds(s)
  <2>1. tier[s] \in Tiers /\ state[s] \in Live
    BY <1>0, <1>6 DEF StripeEnds, StripeOK, Live
  <2>2. Event("deleted", s, "canceled", tier[s], period[s]) \in Events
    BY <1>e, <1>p, <2>1 DEF Kinds, Statuses
  <2>3. Announces(<<Event("deleted", s, "canceled", tier[s], period[s])>>,
                  s, "canceled", tier[s], period[s])
    BY <1>p, <2>1, <2>2, AnnouncedOne
  <2> QED BY <1>6, <1>p, <2>1, <2>3, MovesKeeps DEF StripeEnds, Statuses, Live
<1> QED BY <1>1, <1>2, <1>3, <1>4, <1>5, <1>6 DEF StripeStep

-----------------------------------------------------------------------------
(* Steps of the webhook.  How a handler goes on: to another step (Goto),    *)
(* to its end (Returns), or past _syncSubscription (AfterSync).             *)

Steps == {"fetch1", "upsert1", "plan1", "fetch", "upsert", "plan", "row", "look", "create",
          "cancel", "downgrade", "pastdue"}

HandlerTypes ==
  /\ pc \in [Handlers -> Steps \cup {"idle"}]
  /\ ev \in [Handlers -> Events \cup {NoEvent}]
  /\ snap \in [Handlers -> Snapshots \cup {NoSnap}]

\* Nobody comes to a step that writes a plan.
NoNewGrant ==
  \A g \in Handlers : pc'[g] \in {"plan1", "plan"} => pc[g] \in {"plan1", "plan"} /\ ev'[g] = ev[g]

LEMMA TypeOKHandlers == TypeOK => HandlerTypes
BY DEF TypeOK, HandlerTypes, Steps

LEMMA GoesOn ==
  ASSUME HandlerTypes, HandlersOK, UNCHANGED stripeVars, NEW h \in Handlers, pc[h] # "idle",
         NEW label \in Steps, Goto(h, label), Knows(h, label)
  PROVE  HandlerTypes' /\ HandlersOK' /\ (label \notin {"plan1", "plan"} => NoNewGrant)
<1>1. HandlerTypes'
  BY DEF HandlerTypes, Goto
<1>2. HandlersOK'
  <2> SUFFICES ASSUME NEW g \in Handlers, pc'[g] # "idle"
               PROVE  (ev[g] \in Events)' /\ Told(ev[g])' /\ Knows(g, pc[g])'
    BY DEF HandlersOK
  <2>1. pc[g] # "idle" /\ pc'[g] = (IF g = h THEN label ELSE pc[g]) /\ ev' = ev /\ snap' = snap
    BY DEF Goto, HandlerTypes
  <2>2. ev[g] \in Events /\ Told(ev[g]) /\ Knows(g, pc'[g])
    BY <2>1 DEF HandlersOK
  <2> QED BY <2>1, <2>2 DEF stripeVars, Told, Knows, SnapTold, SubOf, UserOf
<1>3. label \notin {"plan1", "plan"} => NoNewGrant
  BY DEF NoNewGrant, Goto, HandlerTypes
<1> QED BY <1>1, <1>2, <1>3

LEMMA ReturnsKeeps ==
  ASSUME HandlerTypes, HandlersOK, UNCHANGED stripeVars, NEW h \in Handlers, Returns(h)
  PROVE  HandlerTypes' /\ HandlersOK' /\ NoNewGrant
<1>1. HandlerTypes'
  BY DEF HandlerTypes, Returns
<1>2. HandlersOK'
  <2> SUFFICES ASSUME NEW g \in Handlers, pc'[g] # "idle"
               PROVE  (ev[g] \in Events)' /\ Told(ev[g])' /\ Knows(g, pc[g])'
    BY DEF HandlersOK
  <2>1. pc[g] # "idle" /\ pc'[g] = pc[g] /\ ev'[g] = ev[g] /\ snap'[g] = snap[g]
    BY DEF Returns, HandlerTypes
  <2>2. ev[g] \in Events /\ Told(ev[g]) /\ Knows(g, pc[g])
    BY <2>1 DEF HandlersOK
  <2> QED BY <2>1, <2>2 DEF stripeVars, Told, Knows, SnapTold, SubOf, UserOf
<1>3. NoNewGrant
  BY DEF NoNewGrant, Returns, HandlerTypes
<1> QED BY <1>1, <1>2, <1>3

LEMMA AfterSyncKeeps ==
  ASSUME HandlerTypes, HandlersOK, UNCHANGED stripeVars, NEW h \in Handlers,
         pc[h] \in {"upsert1", "plan1", "upsert", "plan"}, AfterSync(h)
  PROVE  HandlerTypes' /\ HandlersOK' /\ NoNewGrant
<1>1. Knows(h, pc[h])
  BY DEF HandlersOK
<1>2. \/ Returns(h)
      \/ Goto(h, "fetch") /\ ev[h].period > 0
      \/ Goto(h, "row") /\ ev[h].period > 0
  BY <1>1 DEF AfterSync, Knows
<1>3. ev[h].period > 0 => Knows(h, "fetch") /\ Knows(h, "row")
  BY DEF Knows
<1> QED BY <1>2, <1>3, GoesOn, ReturnsKeeps DEF Steps

\* What remains of the invariant when neither Stripe nor a checkout moves.
LEMMA HandlerRest ==
  ASSUME IInv, HandlerTypes', HandlersOK', RowsOK',
         UNCHANGED <<stripeVars, callVars>>,
         rowSub' \in [Users -> Subs \cup {NoSub}],
         rowStatus' \in [Users -> {"NONE", "INCOMPLETE", "ACTIVE", "PAST_DUE", "CANCELED"}],
         plan' \in [Users -> Tiers \cup {Free}],
         payments' \subseteq Invoices, downgraded' \subseteq Subs,
         deliveries' \in 0..MaxDeliveries, faults' \in 0..MaxFaults, orderly' \in BOOLEAN
  PROVE  IInv'
<1> USE DEF stripeVars, callVars
<1>1. TypeOK'
  BY DEF IInv, TypeOK, HandlerTypes, Steps
<1>2. StripeOK' /\ MailOK'
  BY DEF IInv, StripeOK, MailOK, Told
<1> QED BY <1>1, <1>2 DEF IInv

\* The rows stay as they are while nobody comes to a step that writes a plan.
LEMMA RowsStay ==
  ASSUME RowsOK, UNCHANGED <<stripeVars, rowVars>>, NoNewGrant,
         \A u \in Users : plan'[u] # Free => rowSub[u] # NoSub
  PROVE  RowsOK'
BY DEF RowsOK, RowWasTrue, PaidPlanHasSubscription, GrantHasRow, NoNewGrant, stripeVars, rowVars,
   UserOf, SubOf

\* The statuses of Stripe that a row can show, and the one that grants a plan.
LEMMA StatusTranslated ==
  ASSUME NEW st \in Statuses
  PROVE  /\ toSubscriptionStatus(st) \in {"NONE", "INCOMPLETE", "ACTIVE", "PAST_DUE", "CANCELED"}
         /\ Billable(toSubscriptionStatus(st)) => st = "active"
BY DEF Statuses, Live, toSubscriptionStatus, Billable

LEMMA DeliverKeeps ==
  ASSUME IInv, NEW h \in Handlers, NEW i \in 1..Len(sent), Deliver(h, i)
  PROVE  IInv'
<1> DEFINE e == sent[i]
<1> USE PaymentsAssumption DEF planVars
<1>1. TypeOK /\ HandlerTypes /\ HandlersOK /\ RowsOK
  BY TypeOKHandlers DEF IInv
<1>2. e \in Events /\ Told(e)
  BY <1>1 DEF IInv, MailOK, TypeOK
<1>3. /\ pc' = [pc EXCEPT ![h] = Entry(e.kind)]
      /\ ev' = [ev EXCEPT ![h] = e]
      /\ snap' = [snap EXCEPT ![h] = IF e.kind = "updated"
                                     THEN [state |-> e.state, tier |-> e.tier] ELSE NoSnap]
      /\ UNCHANGED <<stripeVars, rowVars, planVars, payments, callVars, faults>>
      /\ deliveries' \in 0..MaxDeliveries /\ orderly' \in BOOLEAN
  <2>1. deliveries' \in 0..MaxDeliveries /\ orderly' \in BOOLEAN
    BY <1>1 DEF Deliver, TypeOK
  <2> QED BY <2>1 DEF Deliver
<1>4. /\ e.kind \in Kinds
      /\ Entry(e.kind) \in Steps \ {"plan1", "plan"}
      /\ Entry(e.kind) = "upsert" => e.kind = "updated"
      /\ Entry(e.kind) = "fetch" => e.kind = "invoice"
      /\ Entry(e.kind) = "cancel" => e.kind = "deleted"
      /\ Entry(e.kind) = "pastdue" => e.kind = "failed"
      /\ Entry(e.kind) \notin {"row", "look", "create", "upsert1", "downgrade"}
  BY <1>2 DEF Events, Kinds, Entry, Steps
<1>5. e.kind = "updated" => [state |-> e.state, tier |-> e.tier] \in Snapshots
  BY <1>2 DEF Events, Snapshots
<1> HIDE DEF e
<1>6. HandlerTypes'
  BY <1>1, <1>2, <1>3, <1>4, <1>5 DEF HandlerTypes
<1>7. HandlersOK'
  <2> SUFFICES ASSUME NEW g \in Handlers, pc'[g] # "idle"
               PROVE  (ev[g] \in Events)' /\ Told(ev[g])' /\ Knows(g, pc[g])'
    BY DEF HandlersOK
  <2>1. CASE g = h
    <3>1. /\ ev'[h] = e /\ pc'[h] = Entry(e.kind)
          /\ e.kind = "updated" => snap'[h] = [state |-> e.state, tier |-> e.tier]
      BY <1>1, <1>3 DEF HandlerTypes
    <3>2. (ev[h] \in Events)' /\ Told(ev[h])'
      BY <1>2, <1>3, <3>1 DEF Told, stripeVars
    <3>3. e.kind = "updated" => SnapTold(h)'
      BY <1>2, <1>3, <1>5, <3>1 DEF Told, SnapTold, SubOf, UserOf, stripeVars
    <3>4. Knows(h, pc[h])'
      BY <1>2, <1>4, <3>1, <3>3 DEF Knows, Told
    <3> QED BY <2>1, <3>2, <3>4
  <2>2. CASE g # h
    <3>1. pc'[g] = pc[g] /\ ev'[g] = ev[g] /\ snap'[g] = snap[g]
      BY <1>1, <1>3, <2>2 DEF HandlerTypes
    <3>2. ev[g] \in Events /\ Told(ev[g]) /\ Knows(g, pc[g])
      BY <1>1, <3>1 DEF HandlersOK
    <3> QED BY <1>3, <3>1, <3>2, SMTT(30) DEF stripeVars, Told, Knows, SnapTold, SubOf, UserOf
  <2> QED BY <2>1, <2>2
<1>8. NoNewGrant
  BY <1>1, <1>3, <1>4 DEF NoNewGrant, HandlerTypes
<1>9. RowsOK'
  BY <1>1, <1>3, <1>8, RowsStay DEF RowsOK, PaidPlanHasSubscription
<1> QED BY <1>1, <1>3, <1>6, <1>7, <1>9, HandlerRest DEF TypeOK, rowVars

\* Subscription s has had a status that a row shows as w.
Had(s, w) == \E st \in been[s] : w = toSubscriptionStatus(st)

\* A status written to the row that names the subscription is one the subscription had.
LEMMA StatusKeepsRows ==
  ASSUME TypeOK, RowsOK, UNCHANGED <<stripeVars, rowSub, plan>>, NoNewGrant, NEW h \in Handlers,
         NEW w, Had(SubOf(h), w),
         \A u \in Users : \/ rowStatus'[u] = rowStatus[u]
                          \/ NamesSub(h) /\ u = UserOf(h) /\ rowStatus'[u] = w
  PROVE  RowsOK'
<1>1. RowWasTrue'
  <2> SUFFICES ASSUME NEW u \in Users, rowSub[u] # NoSub
               PROVE  /\ Owner[rowSub[u]] = u
                      /\ \E x \in been[rowSub[u]] : rowStatus'[u] = toSubscriptionStatus(x)
    BY DEF RowWasTrue, stripeVars
  <2>1. Owner[rowSub[u]] = u /\ \E x \in been[rowSub[u]] : rowStatus[u] = toSubscriptionStatus(x)
    BY DEF RowsOK, RowWasTrue
  <2>2. CASE rowStatus'[u] = rowStatus[u]
    BY <2>1, <2>2
  <2>3. CASE rowStatus'[u] # rowStatus[u]
    <3>1. NamesSub(h) /\ u = UserOf(h) /\ rowStatus'[u] = w
      BY <2>3
    <3> QED BY <2>1, <3>1 DEF NamesSub, Had
  <2> QED BY <2>2, <2>3
<1>2. PaidPlanHasSubscription' /\ GrantHasRow'
  BY DEF RowsOK, PaidPlanHasSubscription, GrantHasRow, NoNewGrant, UserOf, SubOf
<1> QED BY <1>1, <1>2 DEF RowsOK

LEMMA HandlerKeeps ==
  ASSUME IInv, NEW h \in Handlers, HandlerStep(h)
  PROVE  IInv'
<1> USE PaymentsAssumption DEF planVars
<1>1. TypeOK /\ HandlerTypes /\ HandlersOK /\ RowsOK
  BY TypeOKHandlers DEF IInv
<1>2. /\ pc[h] # "idle"
      /\ UNCHANGED <<stripeVars, callVars, deliveries, faults, orderly>>
  BY DEF HandlerStep, Fetch, Upsert, UpdatePlan, FindRow, FindPayment, CreatePayment, Cancel,
     Downgrade, MarkPastDue
<1>3. /\ ev[h] \in Events /\ Told(ev[h]) /\ Knows(h, pc[h])
      /\ SubOf(h) \in Subs /\ UserOf(h) \in Users
      /\ state[SubOf(h)] \in Statuses /\ state[SubOf(h)] \in been[SubOf(h)]
      /\ tier[SubOf(h)] \in Tiers
      /\ state[SubOf(h)] = "active" => <<UserOf(h), tier[SubOf(h)]>> \in sold
  <2>1. ev[h] \in Events /\ Told(ev[h]) /\ Knows(h, pc[h])
    BY <1>1, <1>2 DEF HandlersOK
  <2>2. SubOf(h) \in Subs /\ UserOf(h) \in Users
    BY <2>1 DEF Events, SubOf, UserOf
  <2>3. state[SubOf(h)] \in Statuses
    BY <2>1 DEF Told, SubOf
  <2> QED BY <2>1, <2>2, <2>3 DEF IInv, StripeOK, UserOf, Statuses, Live
<1>4. /\ deliveries' \in 0..MaxDeliveries /\ faults' \in 0..MaxFaults /\ orderly' \in BOOLEAN
      /\ downgraded' \subseteq Subs
  <2>1. downgraded' \subseteq downgraded \cup {SubOf(h)}
    BY DEF HandlerStep, Fetch, Upsert, UpdatePlan, FindRow, FindPayment, CreatePayment, Cancel,
       Downgrade, MarkPastDue
  <2> QED BY <1>1, <1>2, <1>3, <2>1 DEF TypeOK
<1>5. /\ rowSub \in [Users -> Subs \cup {NoSub}]
      /\ rowStatus \in [Users -> {"NONE", "INCOMPLETE", "ACTIVE", "PAST_DUE", "CANCELED"}]
      /\ plan \in [Users -> Tiers \cup {Free}]
      /\ payments \subseteq Invoices
  BY <1>1 DEF TypeOK
\* A step that leaves rows, plan and payments alone needs only where the handler goes.
<1>q. ASSUME HandlerTypes' /\ HandlersOK' /\ NoNewGrant, UNCHANGED <<rowVars, plan>>,
             payments' \subseteq Invoices
      PROVE  IInv'
  <2>1. RowsOK'
    BY <1>1, <1>2, <1>q, RowsStay DEF RowsOK, PaidPlanHasSubscription
  <2> QED BY <1>1, <1>2, <1>4, <1>5, <1>q, <2>1, HandlerRest DEF rowVars
<1>6. CASE Fetch(h)
  <2> DEFINE next == IF pc[h] = "fetch1" THEN "upsert1" ELSE "upsert"
  <2>1. /\ snap' = [snap EXCEPT ![h] = [state |-> state[SubOf(h)], tier |-> tier[SubOf(h)]]]
        /\ pc' = [pc EXCEPT ![h] = next] /\ ev' = ev /\ UNCHANGED <<rowVars, plan, payments>>
        /\ pc[h] \in {"fetch1", "fetch"}
    BY <1>6 DEF Fetch
  <2>2. [state |-> state[SubOf(h)], tier |-> tier[SubOf(h)]] \in Snapshots
    BY <1>3 DEF Snapshots
  <2>3. HandlerTypes'
    BY <1>1, <2>1, <2>2 DEF HandlerTypes, Steps
  <2>4. HandlersOK'
    <3> SUFFICES ASSUME NEW g \in Handlers, pc'[g] # "idle"
                 PROVE  (ev[g] \in Events)' /\ Told(ev[g])' /\ Knows(g, pc[g])'
      BY DEF HandlersOK
    <3>1. CASE g = h
      <4>1. pc'[h] = next /\ snap'[h] = [state |-> state[SubOf(h)], tier |-> tier[SubOf(h)]]
        BY <1>1, <2>1 DEF HandlerTypes
      <4>2. (ev[h] \in Events)' /\ Told(ev[h])'
        BY <1>2, <1>3, <2>1 DEF Told, stripeVars
      <4>3. SnapTold(h)'
        BY <1>2, <1>3, <2>1, <2>2, <4>1 DEF SnapTold, SubOf, UserOf, stripeVars
      <4>4. pc[h] = "fetch" => ev[h].period > 0
        BY <1>3 DEF Knows
      <4>5. Knows(h, pc[h])'
        BY <2>1, <4>1, <4>3, <4>4 DEF Knows
      <4> QED BY <3>1, <4>2, <4>5
    <3>2. CASE g # h
      <4>1. pc'[g] = pc[g] /\ ev'[g] = ev[g] /\ snap'[g] = snap[g]
        BY <1>1, <2>1, <3>2 DEF HandlerTypes
      <4>2. ev[g] \in Events /\ Told(ev[g]) /\ Knows(g, pc[g])
        BY <1>1, <4>1 DEF HandlersOK
      <4> QED BY <1>2, <4>1, <4>2 DEF stripeVars, Told, Knows, SnapTold, SubOf, UserOf
    <3> QED BY <3>1, <3>2
  <2>5. NoNewGrant
    BY <1>1, <2>1 DEF NoNewGrant, HandlerTypes
  <2> QED BY <1>5, <1>q, <2>1, <2>3, <2>4, <2>5
<1>7. CASE Upsert(h)
  <2> DEFINE status == toSubscriptionStatus(snap[h].state)
  <2>1. /\ pc[h] \in {"upsert1", "upsert"}
        /\ rowSub' = [rowSub EXCEPT ![UserOf(h)] = SubOf(h)]
        /\ rowStatus' = [rowStatus EXCEPT ![UserOf(h)] = status]
        /\ UNCHANGED <<plan, payments>>
        /\ \/ Billable(status) /\ Goto(h, IF pc[h] = "upsert1" THEN "plan1" ELSE "plan")
           \/ AfterSync(h)
    BY <1>7 DEF Upsert
  <2>2. SnapTold(h)
    BY <1>3, <2>1 DEF Knows
  <2>3. /\ status \in {"NONE", "INCOMPLETE", "ACTIVE", "PAST_DUE", "CANCELED"}
        /\ Billable(status) => snap[h].state = "active"
    BY <2>2, StatusTranslated DEF SnapTold, Snapshots
  <2> HIDE DEF status
  <2>4. /\ HandlerTypes' /\ HandlersOK'
        /\ \A g \in Handlers : pc'[g] \in {"plan1", "plan"} =>
             ev'[g] = ev[g] /\ (g = h \/ pc[g] \in {"plan1", "plan"})
    <3>1. CASE Billable(status) /\ Goto(h, IF pc[h] = "upsert1" THEN "plan1" ELSE "plan")
      <4>1. Knows(h, IF pc[h] = "upsert1" THEN "plan1" ELSE "plan")
        BY <1>3, <2>1, <2>2, <2>3, <3>1 DEF Knows
      <4>2. HandlerTypes' /\ HandlersOK'
        BY <1>1, <1>2, <3>1, <4>1, GoesOn DEF Steps
      <4> QED BY <1>1, <3>1, <4>2 DEF Goto, HandlerTypes
    <3>2. CASE AfterSync(h)
      BY <1>1, <1>2, <2>1, <3>2, AfterSyncKeeps DEF NoNewGrant
    <3> QED BY <2>1, <3>1, <3>2
  <2>5. \A u \in Users : rowSub[u] # NoSub \/ u = UserOf(h) => rowSub'[u] # NoSub
    BY <1>3, <1>5, <2>1
  <2>6. GrantHasRow'
    <3> SUFFICES ASSUME NEW g \in Handlers, pc'[g] \in {"plan1", "plan"}
                 PROVE  rowSub'[Owner[ev'[g].sub]] # NoSub
      BY DEF GrantHasRow, UserOf, SubOf
    <3>1. ev'[g] = ev[g] /\ (g = h \/ pc[g] \in {"plan1", "plan"})
      BY <2>4
    <3>2. CASE g = h
      BY <1>3, <2>5, <3>1, <3>2 DEF UserOf, SubOf
    <3>3. CASE pc[g] \in {"plan1", "plan"}
      <4>1. ev[g] \in Events
        BY <1>1, <3>3 DEF HandlersOK
      <4>2. UserOf(g) \in Users /\ rowSub[UserOf(g)] # NoSub
        BY <1>1, <3>3, <4>1 DEF RowsOK, GrantHasRow, UserOf, SubOf, Events
      <4> QED BY <2>5, <3>1, <4>2 DEF UserOf, SubOf
    <3> QED BY <3>1, <3>2, <3>3
  <2>7. RowWasTrue'
    <3> SUFFICES ASSUME NEW u \in Users, rowSub'[u] # NoSub
                 PROVE  /\ Owner[rowSub'[u]] = u
                        /\ \E st \in been[rowSub'[u]] : rowStatus'[u] = toSubscriptionStatus(st)
      BY <1>2 DEF RowWasTrue, stripeVars
    <3>1. CASE u = UserOf(h)
      <4>1. rowSub'[u] = SubOf(h) /\ rowStatus'[u] = status
        BY <1>3, <1>5, <2>1, <3>1
      <4>2. snap[h].state \in been[SubOf(h)] /\ Owner[SubOf(h)] = u
        BY <2>2, <3>1 DEF SnapTold, UserOf
      <4> QED BY <4>1, <4>2 DEF status
    <3>2. CASE u # UserOf(h)
      <4>1. rowSub'[u] = rowSub[u] /\ rowStatus'[u] = rowStatus[u]
        BY <1>5, <2>1, <3>2
      <4> QED BY <1>1, <4>1 DEF RowsOK, RowWasTrue
    <3> QED BY <3>1, <3>2
  <2>8. PaidPlanHasSubscription'
    BY <1>1, <2>1, <2>5 DEF RowsOK, PaidPlanHasSubscription
  <2>9. rowSub' \in [Users -> Subs \cup {NoSub}]
        /\ rowStatus' \in [Users -> {"NONE", "INCOMPLETE", "ACTIVE", "PAST_DUE", "CANCELED"}]
    BY <1>3, <1>5, <2>1, <2>3
  <2> QED BY <1>2, <1>4, <1>5, <2>1, <2>4, <2>6, <2>7, <2>8, <2>9, HandlerRest DEF RowsOK
<1>8. CASE UpdatePlan(h)
  <2>1. /\ pc[h] \in {"plan1", "plan"} /\ AfterSync(h)
        /\ plan' = [plan EXCEPT ![UserOf(h)] = snap[h].tier]
        /\ UNCHANGED <<rowVars, payments>>
    BY <1>8 DEF UpdatePlan
  <2>2. HandlerTypes' /\ HandlersOK' /\ NoNewGrant
    BY <1>1, <1>2, <2>1, AfterSyncKeeps
  <2>3. plan' \in [Users -> Tiers \cup {Free}]
    BY <1>3, <1>5, <2>1 DEF Knows, SnapTold, Snapshots
  <2>4. RowsOK'
    <3>1. rowSub[UserOf(h)] # NoSub
      BY <1>1, <2>1 DEF RowsOK, GrantHasRow
    <3>2. \A u \in Users : plan'[u] # Free => rowSub[u] # NoSub
      BY <1>1, <1>3, <1>5, <2>1, <3>1 DEF RowsOK, PaidPlanHasSubscription
    <3> QED BY <1>1, <1>2, <2>1, <2>2, <3>2, RowsStay
  <2> QED BY <1>2, <1>4, <1>5, <2>1, <2>2, <2>3, <2>4, HandlerRest DEF rowVars
<1>9. CASE FindRow(h) \/ FindPayment(h)
  <2>1. /\ pc[h] \in {"row", "look"} /\ UNCHANGED <<rowVars, plan, payments>>
        /\ Returns(h) \/ Goto(h, "look") \/ Goto(h, "create")
    BY <1>9 DEF FindRow, FindPayment
  <2>2. Knows(h, "look") /\ Knows(h, "create")
    BY <1>3, <2>1 DEF Knows
  <2>3. HandlerTypes' /\ HandlersOK' /\ NoNewGrant
    BY <1>1, <1>2, <2>1, <2>2, GoesOn, ReturnsKeeps DEF Steps
  <2> QED BY <1>5, <1>q, <2>1, <2>3
<1>10. CASE CreatePayment(h)
  <2>1. HandlerTypes' /\ HandlersOK' /\ NoNewGrant
    BY <1>1, <1>2, <1>10, ReturnsKeeps DEF CreatePayment
  <2>2. InvoiceOf(h) \in Invoices
    <3>1. ev[h].period > 0 /\ ev[h].period \in 0..MaxEvents
      BY <1>3, <1>10 DEF CreatePayment, Knows, Events
    <3> QED BY <1>3, <3>1 DEF InvoiceOf, Invoices
  <2> QED BY <1>5, <1>q, <1>10, <2>1, <2>2 DEF CreatePayment
<1>11. CASE Cancel(h)
  <2>1. /\ pc[h] = "cancel" /\ UNCHANGED <<rowSub, plan, payments>>
        /\ Goto(h, "downgrade") \/ Returns(h)
        /\ \/ rowStatus' = rowStatus
           \/ NamesSub(h) /\ rowStatus' = [rowStatus EXCEPT ![UserOf(h)] = "CANCELED"]
    BY <1>11 DEF Cancel
  <2>2. ev[h].kind = "deleted" /\ "canceled" \in been[SubOf(h)]
    BY <1>3, <2>1 DEF Knows, Told, SubOf
  <2>3. Knows(h, "downgrade")
    BY <2>2 DEF Knows
  <2>4. HandlerTypes' /\ HandlersOK' /\ NoNewGrant
    BY <1>1, <1>2, <2>1, <2>3, GoesOn, ReturnsKeeps DEF Steps
  <2>5. toSubscriptionStatus("canceled") = "CANCELED"
    BY DEF toSubscriptionStatus
  <2>6. RowsOK'
    <3>1. Had(SubOf(h), "CANCELED")
      BY <2>2, <2>5 DEF Had
    <3>2. UNCHANGED <<stripeVars, rowSub, plan>>
      BY <1>2, <2>1
    <3>3. \A u \in Users : \/ rowStatus'[u] = rowStatus[u]
                           \/ NamesSub(h) /\ u = UserOf(h) /\ rowStatus'[u] = "CANCELED"
      BY <1>5, <2>1
    <3> QED BY <1>1, <2>4, <3>1, <3>2, <3>3, StatusKeepsRows
  <2>7. rowStatus' \in [Users -> {"NONE", "INCOMPLETE", "ACTIVE", "PAST_DUE", "CANCELED"}]
    BY <1>5, <2>1
  <2> QED BY <1>2, <1>4, <1>5, <2>1, <2>4, <2>6, <2>7, HandlerRest
<1>12. CASE Downgrade(h)
  <2>1. HandlerTypes' /\ HandlersOK' /\ NoNewGrant
    BY <1>1, <1>2, <1>12, ReturnsKeeps DEF Downgrade
  <2>2. plan' = [plan EXCEPT ![UserOf(h)] = Free] /\ UNCHANGED <<rowVars, payments>>
    BY <1>12 DEF Downgrade
  <2>3. plan' \in [Users -> Tiers \cup {Free}]
    BY <1>5, <2>2
  <2>4. RowsOK'
    <3>1. \A u \in Users : plan'[u] # Free => rowSub[u] # NoSub
      BY <1>1, <1>5, <2>2 DEF RowsOK, PaidPlanHasSubscription
    <3> QED BY <1>1, <1>2, <2>1, <2>2, <3>1, RowsStay
  <2> QED BY <1>2, <1>4, <1>5, <2>1, <2>2, <2>3, <2>4, HandlerRest DEF rowVars
<1>13. CASE MarkPastDue(h)
  <2>1. /\ pc[h] = "pastdue" /\ UNCHANGED <<rowSub, plan, payments>> /\ Returns(h)
        /\ \/ rowStatus' = rowStatus
           \/ NamesSub(h) /\ rowStatus' = [rowStatus EXCEPT ![UserOf(h)] = "PAST_DUE"]
    BY <1>13 DEF MarkPastDue
  <2>2. "past_due" \in been[SubOf(h)]
    BY <1>3, <2>1 DEF Knows, Told, SubOf
  <2>3. HandlerTypes' /\ HandlersOK' /\ NoNewGrant
    BY <1>1, <1>2, <2>1, ReturnsKeeps
  <2>4. toSubscriptionStatus("past_due") = "PAST_DUE"
    BY DEF toSubscriptionStatus
  <2>5. RowsOK'
    <3>1. Had(SubOf(h), "PAST_DUE")
      BY <2>2, <2>4 DEF Had
    <3>2. UNCHANGED <<stripeVars, rowSub, plan>>
      BY <1>2, <2>1
    <3>3. \A u \in Users : \/ rowStatus'[u] = rowStatus[u]
                           \/ NamesSub(h) /\ u = UserOf(h) /\ rowStatus'[u] = "PAST_DUE"
      BY <1>5, <2>1
    <3> QED BY <1>1, <2>3, <3>1, <3>2, <3>3, StatusKeepsRows
  <2>6. rowStatus' \in [Users -> {"NONE", "INCOMPLETE", "ACTIVE", "PAST_DUE", "CANCELED"}]
    BY <1>5, <2>1
  <2> QED BY <1>2, <1>4, <1>5, <2>1, <2>3, <2>5, <2>6, HandlerRest
<1> QED BY <1>6, <1>7, <1>8, <1>9, <1>10, <1>11, <1>12, <1>13 DEF HandlerStep

LEMMA FaultKeeps ==
  ASSUME IInv, (\E h \in Handlers : HandlerFails(h)) \/ Crash
  PROVE  IInv'
<1> USE PaymentsAssumption DEF planVars
<1>1. TypeOK /\ HandlerTypes /\ HandlersOK /\ RowsOK
  BY TypeOKHandlers DEF IInv
<1>2. /\ rowSub \in [Users -> Subs \cup {NoSub}]
      /\ rowStatus \in [Users -> {"NONE", "INCOMPLETE", "ACTIVE", "PAST_DUE", "CANCELED"}]
      /\ plan \in [Users -> Tiers \cup {Free}]
      /\ payments \subseteq Invoices /\ downgraded \subseteq Subs
      /\ deliveries \in 0..MaxDeliveries /\ orderly \in BOOLEAN
  BY <1>1 DEF TypeOK
<1>3. ASSUME NEW h \in Handlers, HandlerFails(h)
      PROVE  IInv'
  <2>1. /\ UNCHANGED <<stripeVars, rowVars, planVars, payments, callVars, deliveries, orderly>>
        /\ faults' \in 0..MaxFaults
        /\ pc[h] # "idle"
    BY <1>1, <1>3 DEF HandlerFails, TypeOK
  <2>2. HandlerTypes' /\ HandlersOK' /\ NoNewGrant
    BY <1>1, <1>3, <2>1, AfterSyncKeeps, ReturnsKeeps DEF HandlerFails
  <2>3. RowsOK'
    BY <1>1, <2>1, <2>2, RowsStay DEF RowsOK, PaidPlanHasSubscription
  <2> QED BY <1>2, <2>1, <2>2, <2>3, HandlerRest DEF rowVars
<1>4. CASE Crash
  <2>1. /\ UNCHANGED <<stripeVars, rowVars, planVars, payments, cust, customer, deliveries, orderly>>
        /\ faults' \in 0..MaxFaults
        /\ pc' = [h \in Handlers |-> "idle"]
        /\ ev' = [h \in Handlers |-> NoEvent]
        /\ snap' = [h \in Handlers |-> NoSnap]
        /\ checkout' = [s \in Subs |-> IF checkout[s] = "done" THEN "done" ELSE "new"]
    BY <1>1, <1>4 DEF Crash, TypeOK
  <2>2. TypeOK'
    BY <1>1, <2>1 DEF TypeOK, stripeVars, rowVars
  <2>3. StripeOK' /\ MailOK'
    BY <2>1 DEF IInv, StripeOK, MailOK, Told, stripeVars
  <2>4. HandlersOK' /\ NoNewGrant
    BY <2>1 DEF HandlersOK, NoNewGrant
  <2>5. RowsOK'
    BY <1>1, <2>1, <2>4, RowsStay DEF RowsOK, PaidPlanHasSubscription
  <2> QED BY <2>2, <2>3, <2>4, <2>5 DEF IInv
<1> QED BY <1>3, <1>4

LEMMA INext == IInv /\ [Next]_vars => IInv'
<1> SUFFICES ASSUME IInv, [Next]_vars PROVE IInv'
  OBVIOUS
<1>1. CASE UNCHANGED vars
  <2> USE <1>1 DEF vars, stripeVars, rowVars, planVars, callVars, handlerVars, SubOf, UserOf
  <2>1. TypeOK' /\ StripeOK'
    BY DEF IInv, TypeOK, StripeOK
  <2>2. MailOK'
    BY DEF IInv, MailOK, Told
  <2>3. HandlersOK'
    BY DEF IInv, HandlersOK, Told, Knows, SnapTold
  <2>4. RowsOK'
    BY DEF IInv, RowsOK, RowWasTrue, PaidPlanHasSubscription, GrantHasRow
  <2> QED BY <2>1, <2>2, <2>3, <2>4 DEF IInv
<1>2. CASE Next
  BY <1>2, CheckoutKeeps, StripeKeeps, DeliverKeeps, HandlerKeeps, FaultKeeps DEF Next
<1> QED BY <1>1, <1>2

LEMMA Invariance == Spec => []IInv
BY IInit, INext, PTL DEF Spec

-----------------------------------------------------------------------------
(* Theorems.                                                                *)

\* Every variable keeps its type and every counter its bound, whatever is duplicated, lost or
\* reordered.
THEOREM TypeCorrect == Spec => []TypeOK
<1>1. IInv => TypeOK
  BY DEF IInv
<1> QED BY <1>1, Invariance, PTL

\* A paid plan never stands without a Subscription row: neither a crash between the upsert and
\* the plan update nor an error that _syncSubscription swallows leaves one.
THEOREM PlanNeedsRow == Spec => []PaidPlanHasSubscription
<1>1. IInv => PaidPlanHasSubscription
  BY DEF IInv, RowsOK
<1> QED BY <1>1, Invariance, PTL

\* A row never says of its subscription what was not true at some time, for any number of
\* subscriptions, events and webhook requests at once.
THEOREM RowsAreTrue == Spec => []RowWasTrue
<1>1. IInv => RowWasTrue
  BY DEF IInv, RowsOK
<1> QED BY <1>1, Invariance, PTL

-----------------------------------------------------------------------------
(* Refinement.  The market of the abstract specification is read off        *)
(* Stripe's state; each step is a step of Entitlement or changes nothing    *)
(* it shows.                                                                *)

Ended == {Owner[s] : s \in {s \in Subs : state[s] = "canceled"}}
Collected == {i \in Invoices : i[2] <= period[i[1]]}

LEMMA PromiseInit == Init => Promise!Init
<1> SUFFICES ASSUME Init PROVE Promise!Init
  OBVIOUS
<1>1. \A i \in Invoices : ~(i[2] <= period[i[1]])
  BY DEF Init, Invoices
<1>2. {s \in Subs : state[s] = "canceled"} = {}
  BY DEF Init
<1> QED BY <1>1, <1>2 DEF Init, Promise!Init

LEMMA MarketForward ==
  ASSUME TypeOK, TypeOK', Forward
  PROVE  Ended \subseteq Ended' /\ Collected \subseteq Collected'
<1>1. Ended \subseteq Ended'
  BY DEF Ended, Forward
<1>2. ASSUME NEW i \in Invoices, i[2] <= period[i[1]]
      PROVE  i[2] <= period'[i[1]]
  <2>1. i[1] \in Subs /\ i[2] \in Nat
    BY DEF Invoices
  <2>2. period[i[1]] \in Nat /\ period'[i[1]] \in Nat /\ period[i[1]] <= period'[i[1]]
    BY <2>1, PaymentsAssumption DEF TypeOK, Forward
  <2> QED BY <1>2, <2>1, <2>2
<1> QED BY <1>1, <1>2 DEF Collected

LEMMA PromiseStep == IInv /\ IInv' /\ [Next]_vars => [Promise!Next]_<<Promise!market, Promise!accounts>>
<1> SUFFICES ASSUME IInv, IInv', [Next]_vars
             PROVE  Promise!Next \/ UNCHANGED <<Promise!market, Promise!accounts>>
  OBVIOUS
<1> USE PaymentsAssumption DEF planVars
<1>1. TypeOK /\ TypeOK' /\ StripeOK /\ HandlersOK
  BY DEF IInv
<1>2. ASSUME Forward, UNCHANGED <<plan, payments>>
      PROVE  Promise!Next
  <2>1. Ended \subseteq Ended' /\ Collected \subseteq Collected' /\ sold \subseteq sold'
    BY <1>1, <1>2, MarketForward DEF Forward
  <2> QED BY <1>2, <2>1 DEF Promise!Next, Promise!Trade, Promise!accounts, Ended, Collected
<1>3. ASSUME UNCHANGED stripeVars
      PROVE  UNCHANGED Promise!market
  BY <1>3 DEF Promise!market, stripeVars
<1>4. ASSUME UNCHANGED <<stripeVars, plan, payments>>
      PROVE  UNCHANGED <<Promise!market, Promise!accounts>>
  BY <1>3, <1>4 DEF Promise!accounts
<1>5. ASSUME NEW h \in Handlers, HandlerStep(h)
      PROVE  Promise!Next \/ UNCHANGED <<Promise!market, Promise!accounts>>
  <2>1. UNCHANGED stripeVars /\ pc[h] # "idle"
    BY <1>5 DEF HandlerStep, Fetch, Upsert, UpdatePlan, FindRow, FindPayment, CreatePayment,
       Cancel, Downgrade, MarkPastDue
  <2>2. ev[h] \in Events /\ Told(ev[h]) /\ Knows(h, pc[h])
    BY <1>1, <2>1 DEF HandlersOK
  <2>3. SubOf(h) \in Subs /\ UserOf(h) \in Users
    BY <2>2 DEF Events, SubOf, UserOf
  <2>4. CASE UpdatePlan(h)
    <3>1. snap[h].tier \in Tiers /\ <<UserOf(h), snap[h].tier>> \in sold
      BY <2>2, <2>4 DEF UpdatePlan, Knows, SnapTold, Snapshots
    <3>2. Promise!Grant(UserOf(h), snap[h].tier)
      BY <1>3, <2>1, <2>4, <3>1 DEF UpdatePlan, Promise!Grant
    <3> QED BY <2>3, <3>1, <3>2 DEF Promise!Next
  <2>5. CASE Downgrade(h)
    <3>1. state[SubOf(h)] = "canceled"
      BY <2>2, <2>5 DEF Downgrade, Knows, Told, SubOf
    <3>2. Promise!Revoke(UserOf(h))
      BY <1>3, <2>1, <2>3, <2>5, <3>1 DEF Downgrade, Promise!Revoke, UserOf
    <3> QED BY <2>3, <3>2 DEF Promise!Next
  <2>6. CASE CreatePayment(h)
    <3>1. InvoiceOf(h) \in Invoices /\ InvoiceOf(h)[2] <= period[InvoiceOf(h)[1]]
      <4>1. ev[h].period > 0 /\ ev[h].period \in 0..MaxEvents /\ ev[h].period <= period[ev[h].sub]
        BY <2>2, <2>6 DEF CreatePayment, Knows, Events, Told
      <4> QED BY <2>3, <4>1 DEF InvoiceOf, Invoices, SubOf
    <3>2. payments' = payments \cup {InvoiceOf(h)} /\ UNCHANGED plan
      BY <2>6 DEF CreatePayment
    <3>3. CASE InvoiceOf(h) \in payments
      BY <1>4, <2>1, <3>2, <3>3
    <3>4. CASE InvoiceOf(h) \notin payments
      <4>1. Promise!Record(InvoiceOf(h))
        BY <1>3, <2>1, <3>1, <3>2, <3>4 DEF Promise!Record
      <4> QED BY <3>1, <4>1 DEF Promise!Next
    <3> QED BY <3>3, <3>4
  <2>7. CASE Fetch(h) \/ Upsert(h) \/ FindRow(h) \/ FindPayment(h) \/ Cancel(h) \/ MarkPastDue(h)
    <3>1. UNCHANGED <<plan, payments>>
      BY <2>7 DEF Fetch, Upsert, FindRow, FindPayment, Cancel, MarkPastDue
    <3> QED BY <1>4, <2>1, <3>1
  <2> QED BY <1>5, <2>4, <2>5, <2>6, <2>7 DEF HandlerStep
<1>6. ASSUME NEW s \in Subs, CheckoutStep(s) \/ StripeStep(s) \/ CheckoutFails(s)
      PROVE  Promise!Next
  <2>1. Forward
    BY <1>6, CheckoutKeeps, StripeKeeps
  <2>2. UNCHANGED <<plan, payments>>
    BY <1>6 DEF CheckoutStep, CheckoutReadUser, CheckoutCheckRow, CheckoutCreateCustomer,
       CheckoutSaveCustomer, CheckoutCreateSession, CheckoutFails, StripeStep, StripeCheckoutPaid,
       StripeCheckoutUnpaid, StripeInvoicePaid, StripeInvoiceFails, StripePlanChanges, StripeEnds,
       Moves
  <2> QED BY <1>2, <2>1, <2>2
<1>7. ASSUME (\E h \in Handlers : (\E i \in 1..Len(sent) : Deliver(h, i)) \/ HandlerFails(h)) \/ Crash
      PROVE  UNCHANGED <<Promise!market, Promise!accounts>>
  <2>1. UNCHANGED <<stripeVars, plan, payments>>
    BY <1>7 DEF Deliver, HandlerFails, Crash
  <2> QED BY <1>4, <2>1
<1>8. CASE UNCHANGED vars
  <2>1. UNCHANGED <<stripeVars, plan, payments>>
    BY <1>8 DEF vars
  <2> QED BY <1>4, <2>1
<1> QED BY <1>5, <1>6, <1>7, <1>8 DEF Next

\* The code implements Entitlement: whatever is duplicated, lost or reordered, for any number of
\* users, subscriptions, plans and handlers, a plan a user has was sold to that user, goes only
\* when a subscription of the user has ended, and a payment recorded was collected.
THEOREM ImplementsEntitlement == Spec => EntitlementSpec
<1>1. Init => Promise!Init
  BY PromiseInit
<1>2. IInv /\ IInv' /\ [Next]_vars => [Promise!Next]_<<Promise!market, Promise!accounts>>
  BY PromiseStep
<1> QED BY <1>1, <1>2, Invariance, PTL DEF Spec, EntitlementSpec, Promise!Spec

-----------------------------------------------------------------------------
(* Settlement: SettledInSync, events handled in order leave the user with   *)
(* what Stripe sold.  The newest event of a user tells how the user stands  *)
(* at Stripe, although handlers read the subscription anew and so run ahead *)
(* of the events: what they write too early, a later event writes again.    *)

\* Event i is of user u, and the newest of u.
OfUser(u, i) == Owner[sent[i].sub] = u
Newest(u, i) ==
  /\ i \in 1..Len(sent) /\ OfUser(u, i)
  /\ \A k \in 1..Len(sent) : OfUser(u, k) => k <= i

\* An event whose handler makes the row name its subscription.
Shows(e) == e.kind \in {"checkout", "updated"}

\* From event i to event k nothing is said of another subscription of the user.
Alone(i, k) ==
  \A m \in i..k : Owner[sent[m].sub] = Owner[sent[i].sub] => sent[m].sub = sent[i].sub

-----------------------------------------------------------------------------
(* What the events say, whether they are handled or not.                    *)

HasNewest == \A s \in Subs : been[s] # {} => \E i \in 1..Len(sent) : Newest(Owner[s], i)

NewestTells ==
  \A u \in Users \ overlap : \A i \in 1..Len(sent) : Newest(u, i) =>
    /\ sent[i].state = state[sent[i].sub] /\ sent[i].tier = tier[sent[i].sub]
    /\ LiveSubs(u) \subseteq {sent[i].sub}
    /\ (Shows(sent[i]) /\ sent[i].state \in Live) \/ sent[i].kind = "deleted"

\* An end comes after an event that shows the subscription, with no other in between.
EndFollows ==
  \A i \in 1..Len(sent) : sent[i].kind = "deleted" /\ Owner[sent[i].sub] \notin overlap =>
    \E k \in 1..(i - 1) : Shows(sent[k]) /\ sent[k].sub = sent[i].sub /\ Alone(k, i)

LogOK == HasNewest /\ NewestTells /\ EndFollows

-----------------------------------------------------------------------------
(* What the rows say while the events are handled in order.                 *)

Idle == \A h \in Handlers : pc[h] = "idle"
Handled(i) == i \in 1..deliveries /\ (i = deliveries => Idle)

OneByOne ==
  /\ deliveries <= Len(sent)
  /\ \A h \in Handlers : pc[h] # "idle" =>
       /\ deliveries \in 1..Len(sent) /\ ev[h] = sent[deliveries]
       /\ \A g \in Handlers : pc[g] # "idle" => g = h

RowShows ==
  \A i \in 1..Len(sent) : Handled(i) /\ Shows(sent[i]) /\ Alone(i, deliveries) =>
    rowSub[Owner[sent[i].sub]] = sent[i].sub

NewestHandled ==
  \A u \in Users \ overlap : \A i \in 1..Len(sent) : Newest(u, i) /\ Handled(i) => InSync(u)

\* What the handler of the newest event of a user has done so far.
DoesNewest(h) == UserOf(h) \notin overlap /\ Newest(UserOf(h), deliveries)
Doing(h) ==
  /\ pc[h] \notin {"cancel", "downgrade", "pastdue"} => ev[h].kind \notin {"deleted", "failed"}
  /\ pc[h] \in {"plan1", "plan", "row", "look", "create"} => NamesSub(h)
  /\ DoesNewest(h) =>
       /\ pc[h] \in {"upsert1", "upsert", "plan1", "plan"} =>
            snap[h].state = state[SubOf(h)] /\ snap[h].tier = tier[SubOf(h)]
       /\ pc[h] \in {"plan1", "plan"} => rowStatus[UserOf(h)] = "ACTIVE"
       /\ pc[h] \in {"row", "look", "create"} => InSync(UserOf(h))

OrderOK == OneByOne /\ RowShows /\ NewestHandled /\ \A h \in Handlers : pc[h] # "idle" => Doing(h)

SInv == LogOK /\ (orderly /\ faults = 0 => OrderOK)

LEMMA SettledFromInv == IInv /\ SInv => SettledInSync
<1> SUFFICES ASSUME IInv, SInv, orderly, deliveries = Len(sent), faults = 0,
                    \A h \in Handlers : pc[h] = "idle", NEW u \in Users \ overlap
             PROVE  InSync(u)
  BY DEF SettledInSync
<1>0. /\ TypeOK /\ StripeOK /\ LogOK /\ OrderOK /\ Idle
      /\ RowWasTrue /\ PaidPlanHasSubscription
  BY DEF IInv, RowsOK, SInv, Idle
<1>1. ASSUME NEW i \in 1..Len(sent), Newest(u, i) PROVE InSync(u)
  <2>1. Handled(i)
    BY <1>0 DEF Handled
  <2> QED BY <1>0, <1>1, <2>1 DEF OrderOK, NewestHandled
<1>2. ASSUME \A i \in 1..Len(sent) : ~Newest(u, i) PROVE InSync(u)
  <2>1. \A s \in Subs : Owner[s] = u => been[s] = {}
    BY <1>0, <1>2 DEF LogOK, HasNewest
  <2>2. \A s \in Subs : Owner[s] = u => state[s] \notin Statuses
    BY <1>0, <2>1 DEF StripeOK
  <2>3. rowSub[u] = NoSub
    <3>1. CASE rowSub[u] # NoSub
      <4>1. rowSub[u] \in Subs /\ Owner[rowSub[u]] = u /\ been[rowSub[u]] # {}
        BY <1>0, <3>1 DEF TypeOK, RowWasTrue
      <4> QED BY <2>1, <4>1
    <3> QED BY <3>1
  <2>4. plan[u] = Free
    BY <1>0, <2>3 DEF PaidPlanHasSubscription
  <2> QED BY <2>2, <2>4 DEF InSync, Statuses, Live
<1> QED BY <1>1, <1>2

LEMMA SInit == Init => SInv
<1> SUFFICES ASSUME Init PROVE LogOK /\ OrderOK
  BY DEF SInv
<1>1. sent = <<>> /\ deliveries = 0 /\ \A s \in Subs : been[s] = {}
  BY DEF Init
<1>2. LogOK
  BY <1>1 DEF LogOK, HasNewest, NewestTells, EndFollows
<1>3. \A h \in Handlers : pc[h] = "idle"
  BY DEF Init
<1>4. OrderOK
  BY <1>1, <1>3 DEF OrderOK, OneByOne, RowShows, NewestHandled
<1> QED BY <1>2, <1>4

-----------------------------------------------------------------------------
(* Stripe and the checkout.                                                 *)

\* What Stripe sends with a step of subscription s, and how it ends.
Closes(es, s, st, t) ==
  /\ es \in Seq(Events) /\ es # <<>>
  /\ \A k \in 1..Len(es) : es[k].sub = s /\ es[k].state = st /\ es[k].tier = t
  /\ \/ st \in Live /\ Shows(es[Len(es)]) /\ \A k \in 1..Len(es) : es[k].kind # "deleted"
     \/ Len(es) = 1 /\ es[1].kind = "deleted" /\ st = "canceled" /\ state[s] \in Live

\* Events sent stay where they are.
LEMMA Appended ==
  ASSUME TypeOK, NEW s \in Subs, NEW st, NEW t, NEW n, NEW es,
         Moves(s, st, t, n, es), Closes(es, s, st, t)
  PROVE  /\ Len(sent) \in Nat /\ Len(es) \in Nat \ {0} /\ Len(sent') = Len(sent) + Len(es)
         /\ \A i \in 1..Len(sent) : sent'[i] = sent[i]
         /\ \A i \in 1..Len(sent') : i > Len(sent) => /\ i - Len(sent) \in 1..Len(es)
                                                      /\ sent'[i] = es[i - Len(sent)]
<1>1. es \in Seq(Events) /\ sent \in Seq(Events) /\ sent' = sent \o es /\ es # <<>>
  BY DEF Moves, Closes, TypeOK
<1>2. Len(es) \in Nat \ {0} /\ Len(sent) \in Nat
  BY <1>1, EmptySeq
<1>3. /\ Len(sent') = Len(sent) + Len(es)
      /\ \A i \in 1..Len(sent) + Len(es) :
           sent'[i] = IF i <= Len(sent) THEN sent[i] ELSE es[i - Len(sent)]
  BY <1>1, ConcatProperties
<1>4. PICK l, m : l = Len(sent) /\ m = Len(es)
  OBVIOUS
<1>5. /\ l \in Nat /\ m \in Nat \ {0} /\ Len(sent') = l + m
      /\ \A i \in 1..l + m : sent'[i] = IF i <= l THEN sent[i] ELSE es[i - l]
  BY <1>2, <1>3, <1>4
<1>6. \A i \in 1..l : i \in 1..l + m /\ i <= l
  BY <1>5
<1>7. \A i \in 1..l + m : i > l => i - l \in 1..m /\ ~(i <= l)
  BY <1>5
<1> QED BY <1>4, <1>5, <1>6, <1>7

LEMMA NewestMoves ==
  ASSUME TypeOK, NEW s \in Subs, NEW st, NEW t, NEW n, NEW es,
         Moves(s, st, t, n, es), Closes(es, s, st, t), NEW u
  PROVE  /\ u = Owner[s] => /\ Len(sent') \in 1..Len(sent') /\ Newest(u, Len(sent))'
                            /\ \A i \in 1..Len(sent') : Newest(u, i)' => i = Len(sent')
         /\ u # Owner[s] => \A i \in 1..Len(sent') :
                              Newest(u, i)' <=> i \in 1..Len(sent) /\ Newest(u, i)
<1>1. /\ Len(sent) \in Nat /\ Len(es) \in Nat \ {0} /\ Len(sent') = Len(sent) + Len(es)
      /\ \A i \in 1..Len(sent) : sent'[i] = sent[i]
      /\ \A i \in 1..Len(sent') : i > Len(sent) => /\ i - Len(sent) \in 1..Len(es)
                                                   /\ sent'[i] = es[i - Len(sent)]
  BY Appended
<1>2. PICK l, m : l = Len(sent) /\ m = Len(sent')
  OBVIOUS
<1>3. l \in Nat /\ m \in Nat /\ l < m
  BY <1>1, <1>2
<1>4. \A i \in 1..m : i > l => sent'[i].sub = s
  BY <1>1, <1>2 DEF Closes
<1>5. \A i \in 1..l : sent'[i] = sent[i]
  BY <1>1, <1>2
<1>6. ASSUME u = Owner[s]
      PROVE  m \in 1..m /\ Newest(u, m)' /\ \A i \in 1..m : Newest(u, i)' => i = m
  <2>1. m \in 1..m /\ m > l /\ \A i \in 1..m : i <= m
    BY <1>3
  <2>2. OfUser(u, m)'
    BY <1>4, <1>6, <2>1 DEF OfUser
  <2>3. Newest(u, m)'
    BY <1>2, <2>1, <2>2 DEF Newest
  <2>4. ASSUME NEW i \in 1..m, Newest(u, i)' PROVE i = m
    <3>1. m <= i
      BY <1>2, <2>1, <2>2, <2>4 DEF Newest
    <3> QED BY <1>3, <3>1
  <2> QED BY <2>1, <2>3, <2>4
<1>7. ASSUME u # Owner[s], NEW i \in 1..m
      PROVE  Newest(u, i)' <=> i \in 1..l /\ Newest(u, i)
  <2>1. \A k \in 1..m : OfUser(u, k)' => k \in 1..l
    BY <1>3, <1>4, <1>7 DEF OfUser
  <2>2. \A k \in 1..l : k \in 1..m /\ (OfUser(u, k)' <=> OfUser(u, k))
    BY <1>3, <1>5 DEF OfUser
  <2> QED BY <1>2, <2>1, <2>2 DEF Newest
<1> QED BY <1>2, <1>6, <1>7

LEMMA MovesLog ==
  ASSUME IInv, LogOK, NEW s \in Subs, NEW st \in Statuses, NEW t, NEW n, NEW es,
         Moves(s, st, t, n, es), Closes(es, s, st, t)
  PROVE  LogOK'
<1> USE PaymentsAssumption
<1>0. TypeOK /\ StripeOK /\ MailOK
  BY DEF IInv
<1>1. /\ Len(sent) \in Nat /\ Len(es) \in Nat \ {0} /\ Len(sent') = Len(sent) + Len(es)
      /\ \A i \in 1..Len(sent) : sent'[i] = sent[i]
      /\ \A i \in 1..Len(sent') : i > Len(sent) => /\ i - Len(sent) \in 1..Len(es)
                                                   /\ sent'[i] = es[i - Len(sent)]
  BY <1>0, Appended
<1>2. PICK u \in Users : u = Owner[s]
  OBVIOUS
<1>3. /\ state' = [state EXCEPT ![s] = st] /\ tier' = [tier EXCEPT ![s] = t]
      /\ been' = [been EXCEPT ![s] = @ \cup {st}]
      /\ overlap' = IF st \in Live /\ LiveSubs(u) \ {s} # {} THEN overlap \cup {u} ELSE overlap
  BY <1>2 DEF Moves
<1>4. /\ state \in [Subs -> Statuses \cup {"none", "open"}]
      /\ been \in [Subs -> SUBSET Statuses] /\ DOMAIN tier = Subs
      /\ sent \in Seq(Events)
  BY <1>0 DEF TypeOK
<1>5. /\ Len(sent') \in 1..Len(sent') /\ Newest(u, Len(sent))'
      /\ \A i \in 1..Len(sent') : Newest(u, i)' => i = Len(sent')
  BY <1>0, <1>2, NewestMoves
<1>6. ASSUME NEW v \in Users \ {u}, NEW i \in 1..Len(sent')
      PROVE  Newest(v, i)' <=> i \in 1..Len(sent) /\ Newest(v, i)
  BY <1>0, <1>2, NewestMoves
<1>7. HasNewest'
  <2> SUFFICES ASSUME NEW x \in Subs, been'[x] # {}
               PROVE  \E i \in 1..Len(sent') : Newest(Owner[x], i)'
    BY DEF HasNewest
  <2>1. CASE Owner[x] = u
    BY <1>5, <2>1
  <2>2. CASE Owner[x] # u
    <3>1. been[x] # {}
      BY <1>2, <1>3, <1>4, <2>2
    <3>2. PICK i \in 1..Len(sent) : Newest(Owner[x], i)
      BY <3>1 DEF LogOK, HasNewest
    <3>3. i \in 1..Len(sent')
      BY <1>1
    <3> QED BY <1>6, <2>2, <3>2, <3>3
  <2> QED BY <2>1, <2>2
\* The last of the new events.
<1>8. /\ sent'[Len(sent')].sub = s /\ sent'[Len(sent')].state = st /\ sent'[Len(sent')].tier = t
      /\ \/ Shows(sent'[Len(sent')]) /\ st \in Live
         \/ sent'[Len(sent')].kind = "deleted" /\ st = "canceled" /\ state[s] \in Live
  <2>1. sent'[Len(sent')] = es[Len(es)] /\ Len(es) \in 1..Len(es)
    <3>1. Len(sent') \in 1..Len(sent') /\ Len(sent') > Len(sent) /\ Len(sent') - Len(sent) = Len(es)
      BY <1>1
    <3> QED BY <1>1, <3>1
  <2> QED BY <2>1 DEF Closes
\* A live subscription is the one of the newest event.
<1>9. ASSUME u \notin overlap, state[s] \in Live
      PROVE  \E k \in 1..Len(sent) : /\ Newest(u, k) /\ LiveSubs(u) \subseteq {s}
                                     /\ sent[k].sub = s /\ Shows(sent[k])
  <2>1. been[s] # {}
    BY <1>0, <1>9 DEF StripeOK, Statuses
  <2>2. PICK k \in 1..Len(sent) : Newest(u, k)
    BY <1>2, <2>1 DEF LogOK, HasNewest
  <2>3. /\ LiveSubs(u) \subseteq {sent[k].sub}
        /\ Shows(sent[k]) \/ sent[k].kind = "deleted"
    BY <1>9, <2>2 DEF LogOK, NewestTells
  <2>4. s \in LiveSubs(u)
    BY <1>2, <1>9 DEF LiveSubs
  <2>5. sent[k].sub = s
    BY <2>3, <2>4
  <2>6. sent[k].kind # "deleted"
    BY <1>0, <1>9, <2>5 DEF MailOK, Told, Live
  <2> QED BY <2>2, <2>3, <2>5, <2>6
<1>10. NewestTells'
  <2> SUFFICES ASSUME NEW v \in Users, v \notin overlap', NEW i \in 1..Len(sent'), Newest(v, i)'
               PROVE  /\ sent'[i].state = state'[sent'[i].sub] /\ sent'[i].tier = tier'[sent'[i].sub]
                      /\ \A x \in Subs : Owner[x] = v /\ state'[x] \in Live => x = sent'[i].sub
                      /\ (Shows(sent'[i]) /\ sent'[i].state \in Live) \/ sent'[i].kind = "deleted"
    BY DEF NewestTells, LiveSubs, Shows
  <2>1. v \notin overlap
    BY <1>3
  <2>2. CASE v = u
    <3>1. i = Len(sent')
      BY <1>5, <2>2
    <3>2. state'[s] = st /\ tier'[s] = t
      BY <1>3, <1>4
    <3>3. ASSUME NEW x \in Subs, Owner[x] = v, state'[x] \in Live PROVE x = s
      <4> SUFFICES ASSUME x # s PROVE FALSE
        OBVIOUS
      <4>1. x \in LiveSubs(u) \ {s}
        BY <1>3, <1>4, <2>2, <3>3 DEF LiveSubs
      <4>2. st \notin Live
        BY <1>3, <2>2, <4>1
      <4>3. state[s] \in Live
        BY <1>8, <4>2
      <4> QED BY <1>9, <2>1, <2>2, <4>1, <4>3
    <3> QED BY <1>8, <3>1, <3>2, <3>3
  <2>3. CASE v # u
    <3>1. i \in 1..Len(sent) /\ Newest(v, i)
      BY <1>6, <2>3
    <3>2. /\ sent[i].state = state[sent[i].sub] /\ sent[i].tier = tier[sent[i].sub]
          /\ LiveSubs(v) \subseteq {sent[i].sub}
          /\ (Shows(sent[i]) /\ sent[i].state \in Live) \/ sent[i].kind = "deleted"
      BY <2>1, <3>1 DEF LogOK, NewestTells
    <3>3. sent'[i] = sent[i] /\ sent[i].sub \in Subs /\ Owner[sent[i].sub] = v
      <4>1. sent[i] \in Events
        BY <1>4, <3>1
      <4>2. sent[i].sub \in Subs
        BY <4>1 DEF Events
      <4> QED BY <1>1, <3>1, <4>2 DEF Newest, OfUser
    <3>4. \A x \in Subs : Owner[x] = v => state'[x] = state[x] /\ tier'[x] = tier[x]
      BY <1>2, <1>3, <1>4, <2>3
    <3> QED BY <3>2, <3>3, <3>4 DEF LiveSubs
  <2> QED BY <2>2, <2>3
<1>11. EndFollows'
  <2> SUFFICES ASSUME NEW i \in 1..Len(sent'), sent'[i].kind = "deleted",
                      Owner[sent'[i].sub] \notin overlap'
               PROVE  \E k \in 1..(i - 1) : Shows(sent'[k]) /\ sent'[k].sub = sent'[i].sub /\ Alone(k, i)'
    BY DEF EndFollows, Shows
  <2>1. Owner[sent'[i].sub] \notin overlap
    BY <1>3
  <2>2. CASE i <= Len(sent)
    <3>1. i \in 1..Len(sent) /\ \A m \in 1..i : m \in 1..Len(sent) /\ sent'[m] = sent[m]
      BY <1>1, <2>2
    <3>2. sent'[i] = sent[i]
      BY <1>1, <3>1
    <3>3. PICK k \in 1..(i - 1) : Shows(sent[k]) /\ sent[k].sub = sent[i].sub /\ Alone(k, i)
      BY <2>1, <3>1, <3>2 DEF LogOK, EndFollows
    <3>4. k \in 1..i /\ \A m \in k..i : m \in 1..i
      BY <3>1
    <3>5. sent'[k] = sent[k] /\ \A m \in k..i : sent'[m] = sent[m]
      BY <3>1, <3>4
    <3>6. Alone(k, i)'
      BY <3>3, <3>5 DEF Alone
    <3> QED BY <3>2, <3>3, <3>5, <3>6
  <2>3. CASE i > Len(sent)
    <3>1. i - Len(sent) \in 1..Len(es) /\ sent'[i] = es[i - Len(sent)]
      BY <1>1, <2>3
    <3>2. Len(es) = 1 /\ state[s] \in Live /\ sent'[i].sub = s
      BY <3>1 DEF Closes
    <3>3. i = Len(sent) + 1
      BY <1>1, <2>3, <3>2
    <3>4. PICK k \in 1..Len(sent) : Newest(u, k) /\ sent[k].sub = s /\ Shows(sent[k])
      BY <1>2, <1>9, <2>1, <3>2
    <3>5. sent'[k] = sent[k] /\ k \in 1..(i - 1)
      BY <1>1, <3>3, <3>4
    <3>6. Alone(k, i)'
      <4> SUFFICES ASSUME NEW m \in k..i, Owner[sent'[m].sub] = u PROVE sent'[m].sub = s
        BY <1>2, <3>4, <3>5 DEF Alone
      <4>1. m = k \/ m = i \/ (m \in 1..Len(sent) /\ ~(m <= k))
        BY <1>1, <3>3
      <4>2. CASE m \in 1..Len(sent) /\ ~(m <= k)
        BY <1>1, <3>4, <4>2 DEF Newest, OfUser
      <4> QED BY <3>2, <3>4, <3>5, <4>1, <4>2
    <3> QED BY <3>2, <3>4, <3>5, <3>6
  <2>4. i <= Len(sent) \/ i > Len(sent)
    BY <1>1
  <2> QED BY <2>2, <2>3, <2>4
<1> QED BY <1>7, <1>10, <1>11 DEF LogOK

\* A step says nothing of the users whose newest event stays the newest.
Untouched(u) ==
  /\ InSync(u) => InSync(u)'
  /\ \A s \in Subs : Owner[s] = u /\ state[s] \in Statuses => state'[s] = state[s] /\ tier'[s] = tier[s]

\* A step of Stripe or of a checkout.
LEMMA QuietOrder ==
  ASSUME IInv, OrderOK, UNCHANGED <<rowVars, handlerVars, deliveries>>,
         Len(sent) \in Nat, Len(sent') \in Nat, Len(sent) <= Len(sent'),
         \A i \in 1..Len(sent) : sent'[i] = sent[i],
         overlap \subseteq overlap',
         \A u \in Users : \A i \in 1..Len(sent) : Newest(u, i)' => Untouched(u)
  PROVE  OrderOK'
<1> USE PaymentsAssumption
<1>0. /\ TypeOK /\ HandlersOK /\ MailOK /\ OneByOne /\ RowShows /\ NewestHandled
      /\ \A h \in Handlers : pc[h] # "idle" => Doing(h)
  BY DEF IInv, OrderOK
<1>1. /\ pc' = pc /\ ev' = ev /\ snap' = snap /\ rowSub' = rowSub /\ rowStatus' = rowStatus
      /\ deliveries' = deliveries
  BY DEF rowVars, handlerVars
<1>2. deliveries \in Nat /\ deliveries <= Len(sent) /\ \A i \in 1..deliveries : i \in 1..Len(sent)
  BY <1>0 DEF TypeOK, OneByOne
<1>3. \A i \in 1..Len(sent) : i \in 1..Len(sent')
  OBVIOUS
<1>4. \A i \in 1..Len(sent') : Handled(i)' => i \in 1..Len(sent) /\ Handled(i)
  BY <1>1, <1>2 DEF Handled, Idle
<1>5. ASSUME NEW u \in Users, NEW i \in 1..Len(sent), Newest(u, i)'
      PROVE  Newest(u, i)
  BY <1>3, <1>5 DEF Newest, OfUser
<1>6. OneByOne'
  BY <1>0, <1>1, <1>2, <1>3 DEF OneByOne
<1>7. RowShows'
  <2> SUFFICES ASSUME NEW i \in 1..Len(sent'), Handled(i)', Shows(sent'[i]), Alone(i, deliveries)'
               PROVE  rowSub[Owner[sent'[i].sub]] = sent'[i].sub
    BY <1>1 DEF RowShows, Shows
  <2>1. i \in 1..Len(sent) /\ Handled(i) /\ sent'[i] = sent[i]
    BY <1>4
  <2>2. \A m \in i..deliveries : m \in 1..Len(sent)
    BY <1>2, <2>1
  <2>3. Alone(i, deliveries)
    BY <1>1, <2>1, <2>2 DEF Alone
  <2> QED BY <1>0, <2>1, <2>3 DEF RowShows
<1>8. NewestHandled'
  <2> SUFFICES ASSUME NEW u \in Users, u \notin overlap', NEW i \in 1..Len(sent'), Newest(u, i)',
                      Handled(i)'
               PROVE  InSync(u)'
    BY DEF NewestHandled
  <2>1. i \in 1..Len(sent) /\ Handled(i)
    BY <1>4
  <2>2. Newest(u, i) /\ Untouched(u)
    BY <1>5, <2>1
  <2> QED BY <1>0, <2>1, <2>2 DEF NewestHandled, Untouched
<1>9. ASSUME NEW h \in Handlers, pc'[h] # "idle"
      PROVE  Doing(h)'
  <2>1. pc[h] # "idle" /\ Doing(h) /\ ev[h] \in Events /\ Told(ev[h])
    BY <1>0, <1>1, <1>9 DEF HandlersOK
  <2>2. SubOf(h) \in Subs /\ UserOf(h) \in Users /\ state[SubOf(h)] \in Statuses
    BY <2>1 DEF Events, SubOf, UserOf, Told
  <2>3. PICK u \in Users, s \in Subs : u = UserOf(h) /\ s = SubOf(h) /\ Owner[s] = u
    BY <2>2 DEF UserOf
  <2>4. SubOf(h)' = s /\ UserOf(h)' = u
    BY <1>1, <2>3 DEF UserOf, SubOf
  <2>5. DoesNewest(h)' => DoesNewest(h) /\ Untouched(u)
    <3> SUFFICES ASSUME u \notin overlap', Newest(u, deliveries)'
                 PROVE  u \notin overlap /\ Newest(u, deliveries) /\ Untouched(u)
      BY <2>3, <2>4 DEF DoesNewest
    <3>1. deliveries \in 1..Len(sent)
      BY <1>0, <2>1 DEF OneByOne
    <3>2. PICK d \in 1..Len(sent) : d = deliveries
      BY <3>1
    <3>3. Newest(u, d)'
      BY <1>1, <3>2
    <3>4. Newest(u, d) /\ Untouched(u)
      BY <1>5, <3>3
    <3> QED BY <3>2, <3>4
  <2>6. Untouched(u) => state'[s] = state[s] /\ tier'[s] = tier[s] /\ (InSync(u) => InSync(u)')
    BY <2>2, <2>3 DEF Untouched
  <2>7. InSync(UserOf(h))' <=> InSync(u)'
    BY <2>4
  <2> QED BY <1>1, <2>1, <2>3, <2>4, <2>5, <2>6, <2>7 DEF Doing, NamesSub
<1> QED BY <1>6, <1>7, <1>8, <1>9 DEF OrderOK

LEMMA CheckoutOrder ==
  ASSUME IInv, SInv, NEW s \in Subs, CheckoutStep(s)
  PROVE  SInv'
<1> USE PaymentsAssumption
<1>0. TypeOK /\ StripeOK /\ MailOK /\ LogOK
  BY DEF IInv, SInv
<1>1. /\ UNCHANGED <<rowVars, planVars, handlerVars, deliveries, faults, orderly, sent, been, overlap>>
      /\ Len(sent) \in Nat /\ sent \in Seq(Events)
  <2>1. UNCHANGED <<rowVars, planVars, handlerVars, deliveries, faults, orderly, sent, been, overlap>>
    BY DEF CheckoutStep, CheckoutReadUser, CheckoutCheckRow, CheckoutCreateCustomer,
       CheckoutSaveCustomer, CheckoutCreateSession, stripeVars
  <2>2. sent \in Seq(Events)
    BY <1>0 DEF TypeOK
  <2> QED BY <2>1, <2>2
\* Only a new session changes Stripe's state, and no event tells of it.
<1>2. ASSUME NEW x \in Subs
      PROVE  /\ state[x] \in Statuses => state'[x] = state[x] /\ tier'[x] = tier[x]
             /\ state'[x] \in Statuses => state[x] \in Statuses
  <2>1. CASE CheckoutCreateSession(s)
    <3>1. state[s] = "none" /\ state' = [state EXCEPT ![s] = "open"]
          /\ \E t \in Tiers : tier' = [tier EXCEPT ![s] = t]
      BY <1>0, <2>1 DEF StripeOK, CheckoutCreateSession
    <3>2. x # s => state'[x] = state[x] /\ tier'[x] = tier[x]
      BY <1>0, <3>1 DEF TypeOK
    <3>3. state'[s] = "open"
      BY <1>0, <3>1 DEF TypeOK
    <3> QED BY <3>1, <3>2, <3>3 DEF Statuses, Live
  <2>2. CASE ~CheckoutCreateSession(s)
    BY <2>2 DEF CheckoutStep, CheckoutReadUser, CheckoutCheckRow, CheckoutCreateCustomer,
       CheckoutSaveCustomer, stripeVars
  <2> QED BY <2>1, <2>2
<1>3. ASSUME NEW i \in 1..Len(sent) PROVE sent[i].sub \in Subs /\ state[sent[i].sub] \in Statuses
  <2>1. sent[i] \in Events
    BY <1>1
  <2>2. sent[i].sub \in Subs
    BY <2>1 DEF Events
  <2> QED BY <1>0, <2>2 DEF MailOK, Told
<1>4. \A u : LiveSubs(u)' = LiveSubs(u)
  BY <1>2 DEF LiveSubs, Statuses
<1>5. LogOK'
  <2>1. \A u : \A i \in 1..Len(sent) : Newest(u, i)' <=> Newest(u, i)
    BY <1>1 DEF Newest, OfUser
  <2>2. HasNewest'
    BY <1>0, <1>1, <2>1 DEF LogOK, HasNewest
  <2>3. NewestTells'
    BY <1>0, <1>1, <1>2, <1>3, <1>4, <2>1 DEF LogOK, NewestTells, Shows
  <2>4. EndFollows'
    BY <1>0, <1>1 DEF LogOK, EndFollows, Alone, Shows
  <2> QED BY <2>2, <2>3, <2>4 DEF LogOK
<1>6. ASSUME orderly, faults = 0 PROVE OrderOK'
  <2>1. OrderOK
    BY <1>6 DEF SInv
  <2>2. ASSUME NEW u \in Users PROVE Untouched(u)
    <3>1. InSync(u) => InSync(u)'
      BY <1>1, <1>2, <1>4 DEF InSync, Statuses, Live, rowVars, planVars
    <3> QED BY <1>2, <3>1 DEF Untouched
  <2> QED BY <1>1, <2>1, <2>2, QuietOrder
<1> QED BY <1>1, <1>5, <1>6 DEF SInv

LEMMA MovesOrder ==
  ASSUME IInv, SInv, NEW s \in Subs, NEW st \in Statuses, NEW t, NEW n, NEW es,
         Moves(s, st, t, n, es), Closes(es, s, st, t)
  PROVE  SInv'
<1> USE PaymentsAssumption
<1>0. TypeOK /\ LogOK
  BY DEF IInv, SInv
<1>1. /\ Len(sent) \in Nat /\ Len(es) \in Nat \ {0} /\ Len(sent') = Len(sent) + Len(es)
      /\ \A i \in 1..Len(sent) : sent'[i] = sent[i]
  BY <1>0, Appended
<1>2. /\ UNCHANGED <<rowVars, planVars, handlerVars, deliveries, faults, orderly>>
      /\ overlap \subseteq overlap'
      /\ state' = [state EXCEPT ![s] = st] /\ tier' = [tier EXCEPT ![s] = t]
  BY DEF Moves
<1>3. ASSUME orderly, faults = 0 PROVE OrderOK'
  <2>1. OrderOK
    BY <1>3 DEF SInv
  <2>2. ASSUME NEW u \in Users, NEW i \in 1..Len(sent), Newest(u, i)'
        PROVE  Untouched(u)
    <3>1. u # Owner[s]
      <4>1. CASE u = Owner[s]
        <5>1. i \in 1..Len(sent') /\ i # Len(sent')
          BY <1>1
        <5> QED BY <1>0, <2>2, <4>1, <5>1, NewestMoves
      <4> QED BY <4>1
    <3>2. \A x \in Subs : Owner[x] = u => state'[x] = state[x] /\ tier'[x] = tier[x]
      BY <1>0, <1>2, <3>1 DEF TypeOK
    <3>3. LiveSubs(u)' = LiveSubs(u)
      BY <3>2 DEF LiveSubs
    <3>4. InSync(u) => InSync(u)'
      BY <1>2, <3>2, <3>3 DEF InSync, rowVars, planVars
    <3> QED BY <3>2, <3>4 DEF Untouched
  <2>3. Len(sent') \in Nat /\ Len(sent) <= Len(sent')
    BY <1>1
  <2> QED BY <1>1, <1>2, <2>1, <2>2, <2>3, QuietOrder
<1> QED BY <1>0, <1>2, <1>3, MovesLog DEF SInv

LEMMA StripeOrder ==
  ASSUME IInv, SInv, NEW s \in Subs, StripeStep(s)
  PROVE  SInv'
<1> USE PaymentsAssumption DEF Updated
<1>0. TypeOK /\ StripeOK
  BY DEF IInv
<1>p. period[s] \in 0..MaxEvents /\ period[s] \in Nat /\ Len(sent) \in Nat /\ period[s] <= Len(sent)
  <2>1. period[s] \in 0..MaxEvents /\ sent \in Seq(Events)
    BY <1>0 DEF TypeOK
  <2>2. period[s] <= Len(sent)
    BY <1>0 DEF StripeOK
  <2>3. Len(sent) \in Nat
    BY <2>1
  <2> QED BY <2>1, <2>2, <2>3
<1>e. ASSUME NEW k \in Kinds, NEW st \in Statuses, NEW t \in Tiers, NEW n \in 0..MaxEvents
      PROVE  LET e == Event(k, s, st, t, n) IN
             e \in Events /\ e.kind = k /\ e.sub = s /\ e.state = st /\ e.tier = t
  BY DEF Event, Events
<1>c. ASSUME NEW st \in Statuses, NEW t \in Tiers, NEW n \in 0..MaxEvents, NEW es,
             Moves(s, st, t, n, es), Closes(es, s, st, t)
      PROVE  SInv'
  BY <1>c, MovesOrder
\* One, two or three events that do not end the subscription.
<1>l. ASSUME NEW st \in Live, NEW t \in Tiers, NEW n \in 0..MaxEvents, NEW x \in {"checkout", "updated"},
             NEW k \in Kinds \ {"deleted"}, NEW k2 \in Kinds \ {"deleted"}
      PROVE  /\ Closes(<<Event(x, s, st, t, n)>>, s, st, t)
             /\ Closes(<<Event(k, s, st, t, n), Event(x, s, st, t, n)>>, s, st, t)
             /\ Closes(<<Event(k, s, st, t, n), Event(k2, s, st, t, n), Event(x, s, st, t, n)>>, s, st, t)
  <2>1. PICK a, b, c : a = Event(k, s, st, t, n) /\ b = Event(k2, s, st, t, n) /\ c = Event(x, s, st, t, n)
    OBVIOUS
  <2>2. /\ a \in Events /\ a.kind = k /\ a.sub = s /\ a.state = st /\ a.tier = t
        /\ b \in Events /\ b.kind = k2 /\ b.sub = s /\ b.state = st /\ b.tier = t
        /\ c \in Events /\ c.kind = x /\ c.sub = s /\ c.state = st /\ c.tier = t
    <3>1. k \in Kinds /\ k2 \in Kinds /\ x \in Kinds /\ st \in Statuses
      BY DEF Kinds, Statuses
    <3> QED BY <1>e, <2>1, <3>1
  <2>3. Closes(<<c>>, s, st, t)
    BY <2>2 DEF Closes, Shows
  <2>4. Closes(<<a, c>>, s, st, t)
    <3>1. <<a, c>> \in Seq(Events) /\ Len(<<a, c>>) = 2 /\ <<a, c>> # <<>>
      BY <2>2
    <3>2. \A i \in 1..2 : <<a, c>>[i] \in {a, c}
      OBVIOUS
    <3>3. <<a, c>>[2] = c
      OBVIOUS
    <3> QED BY <2>2, <3>1, <3>2, <3>3 DEF Closes, Shows
  <2>5. Closes(<<a, b, c>>, s, st, t)
    <3>1. <<a, b, c>> \in Seq(Events) /\ Len(<<a, b, c>>) = 3 /\ <<a, b, c>> # <<>>
      BY <2>2
    <3>2. \A i \in 1..3 : <<a, b, c>>[i] \in {a, b, c}
      OBVIOUS
    <3>3. <<a, b, c>>[3] = c
      OBVIOUS
    <3> QED BY <2>2, <3>1, <3>2, <3>3 DEF Closes, Shows
  <2> QED BY <2>1, <2>3, <2>4, <2>5
<1>1. CASE StripeCheckoutPaid(s)
  <2>1. tier[s] \in Tiers /\ 1 \in 0..MaxEvents
    <3>1. tier[s] \in Tiers
      BY <1>0, <1>1 DEF StripeCheckoutPaid, StripeOK
    <3>2. 1 \in 0..MaxEvents
      BY <1>1, <1>p DEF StripeCheckoutPaid, Moves
    <3> QED BY <3>1, <3>2
  <2>2. Closes(<<Event("invoice", s, "active", tier[s], 1), Event("updated", s, "active", tier[s], 1),
                 Event("checkout", s, "active", tier[s], 1)>>, s, "active", tier[s])
    BY <1>l, <2>1 DEF Kinds, Live
  <2> QED BY <1>1, <1>c, <2>1, <2>2 DEF StripeCheckoutPaid, Statuses, Live
<1>2. CASE StripeCheckoutUnpaid(s)
  <2>1. tier[s] \in Tiers /\ 0 \in 0..MaxEvents
    <3>1. tier[s] \in Tiers
      BY <1>0, <1>2 DEF StripeCheckoutUnpaid, StripeOK
    <3> QED BY <3>1
  <2>2. Closes(<<Event("checkout", s, "incomplete", tier[s], 0)>>, s, "incomplete", tier[s])
    BY <1>l, <2>1 DEF Kinds, Live
  <2> QED BY <1>2, <1>c, <2>1, <2>2 DEF StripeCheckoutUnpaid, Statuses, Live
<1>3. CASE StripeInvoicePaid(s)
  <2>1. tier[s] \in Tiers /\ period[s] + 1 \in 0..MaxEvents
    <3>1. tier[s] \in Tiers
      BY <1>0, <1>3 DEF StripeInvoicePaid, StripeOK, Live
    <3>2. period[s] + 1 \in 0..MaxEvents
      BY <1>3, <1>p DEF StripeInvoicePaid, Moves
    <3> QED BY <3>1, <3>2
  <2>2. PICK n \in 0..MaxEvents : n = period[s] + 1
    BY <2>1
  <2>3. Moves(s, "active", tier[s], n,
              <<Event("invoice", s, "active", tier[s], n), Event("updated", s, "active", tier[s], n)>>)
    BY <1>3, <2>2 DEF StripeInvoicePaid
  <2>4. Closes(<<Event("invoice", s, "active", tier[s], n), Event("updated", s, "active", tier[s], n)>>,
               s, "active", tier[s])
    BY <1>l, <2>1 DEF Kinds, Live
  <2> QED BY <1>c, <2>1, <2>3, <2>4 DEF Statuses, Live
<1>4. CASE StripeInvoiceFails(s)
  <2>1. tier[s] \in Tiers
    BY <1>0, <1>4 DEF StripeInvoiceFails, StripeOK
  <2>2. Closes(<<Event("failed", s, "past_due", tier[s], period[s]),
                 Event("updated", s, "past_due", tier[s], period[s])>>, s, "past_due", tier[s])
    BY <1>l, <1>p, <2>1 DEF Kinds, Live
  <2> QED BY <1>4, <1>c, <1>p, <2>1, <2>2 DEF StripeInvoiceFails, Statuses, Live
<1>5. CASE StripePlanChanges(s)
  <2>1. PICK t \in Tiers \ {tier[s]} :
          Moves(s, "active", t, period[s], <<Event("updated", s, "active", t, period[s])>>)
    BY <1>5 DEF StripePlanChanges
  <2>2. Closes(<<Event("updated", s, "active", t, period[s])>>, s, "active", t)
    <3>1. t \in Tiers /\ "active" \in Live /\ "failed" \in Kinds \ {"deleted"}
      BY DEF Kinds, Live
    <3> QED BY <1>l, <1>p, <3>1
  <2> QED BY <1>c, <1>p, <2>1, <2>2 DEF Statuses, Live
<1>6. CASE StripeEnds(s)
  <2>1. tier[s] \in Tiers /\ state[s] \in Live
    BY <1>0, <1>6 DEF StripeEnds, StripeOK, Live
  <2>2. PICK e \in Events : /\ e = Event("deleted", s, "canceled", tier[s], period[s])
                            /\ e.kind = "deleted" /\ e.sub = s /\ e.state = "canceled"
                            /\ e.tier = tier[s]
    <3>1. "deleted" \in Kinds /\ "canceled" \in Statuses
      BY DEF Kinds, Statuses
    <3> QED BY <1>e, <1>p, <2>1, <3>1
  <2>3. Closes(<<e>>, s, "canceled", tier[s])
    BY <2>1, <2>2 DEF Closes
  <2>4. Moves(s, "canceled", tier[s], period[s], <<e>>)
    BY <1>6, <2>2 DEF StripeEnds
  <2> QED BY <1>c, <1>p, <2>1, <2>3, <2>4 DEF Statuses
<1> QED BY <1>1, <1>2, <1>3, <1>4, <1>5, <1>6 DEF StripeStep

-----------------------------------------------------------------------------
(* The webhook: one handler is busy, with the event delivered last.          *)

LEMMA Busy ==
  ASSUME IInv, OrderOK, NEW h \in Handlers, pc[h] # "idle"
  PROVE  /\ deliveries \in 1..Len(sent) /\ ev[h] = sent[deliveries] /\ OfUser(UserOf(h), deliveries)
         /\ ev[h] \in Events /\ Told(ev[h]) /\ Knows(h, pc[h]) /\ Doing(h)
         /\ SubOf(h) \in Subs /\ UserOf(h) \in Users /\ state[SubOf(h)] \in Statuses
         /\ ~Idle /\ \A g \in Handlers : g # h => pc[g] = "idle"
<1>1. deliveries \in 1..Len(sent) /\ ev[h] = sent[deliveries] /\ Doing(h)
  BY DEF OrderOK, OneByOne
<1>2. ev[h] \in Events /\ Told(ev[h]) /\ Knows(h, pc[h])
  BY DEF IInv, HandlersOK
<1>3. SubOf(h) \in Subs /\ UserOf(h) \in Users /\ state[SubOf(h)] \in Statuses
  BY <1>2, PaymentsAssumption DEF Events, SubOf, UserOf, Told
<1>4. ~Idle /\ \A g \in Handlers : g # h => pc[g] = "idle"
  BY DEF OrderOK, OneByOne, Idle
<1>5. OfUser(UserOf(h), deliveries)
  BY <1>1 DEF OfUser, UserOf, SubOf
<1> QED BY <1>1, <1>2, <1>3, <1>4, <1>5

\* A statement of a handler writes the rows of its user only, and lets the row name its
\* subscription if it changes that.
Writes(h) ==
  /\ UNCHANGED <<stripeVars, deliveries>>
  /\ \A u \in Users \ {UserOf(h)} :
       rowSub'[u] = rowSub[u] /\ rowStatus'[u] = rowStatus[u] /\ plan'[u] = plan[u]
  /\ rowSub'[UserOf(h)] \in {rowSub[UserOf(h)], SubOf(h)}

\* What is settled stays so while a handler works.
LEMMA RestStays ==
  ASSUME IInv, OrderOK, NEW h \in Handlers, pc[h] # "idle", Writes(h)
  PROVE  /\ \A i \in 1..Len(sent) : i # deliveries /\ i \in 1..deliveries /\ Shows(sent[i])
              /\ Alone(i, deliveries) => rowSub'[Owner[sent[i].sub]] = sent[i].sub
         /\ \A u \in Users \ overlap : \A i \in 1..Len(sent) :
              i # deliveries /\ i \in 1..deliveries /\ Newest(u, i) => InSync(u)'
<1>1. /\ deliveries \in 1..Len(sent) /\ ev[h] = sent[deliveries] /\ OfUser(UserOf(h), deliveries)
      /\ ~Idle /\ SubOf(h) \in Subs
  BY Busy
<1>2. \A i \in 1..deliveries : i # deliveries => Handled(i)
  BY DEF Handled
<1>3. sent \in Seq(Events) /\ \A i \in 1..Len(sent) : sent[i] \in Events
  BY DEF IInv, TypeOK
<1>4. ASSUME NEW i \in 1..Len(sent), i # deliveries, i \in 1..deliveries, Shows(sent[i]),
             Alone(i, deliveries)
      PROVE  rowSub'[Owner[sent[i].sub]] = sent[i].sub
  <2>1. rowSub[Owner[sent[i].sub]] = sent[i].sub
    BY <1>2, <1>4 DEF OrderOK, RowShows
  <2>2. Owner[sent[i].sub] \in Users
    <3>1. sent[i].sub \in Subs
      BY <1>3 DEF Events
    <3> QED BY <3>1, PaymentsAssumption
  <2>3. CASE Owner[sent[i].sub] = UserOf(h)
    <3>1. deliveries \in i..deliveries
      BY <1>1, <1>4
    <3>2. SubOf(h) = sent[i].sub
      BY <1>1, <1>4, <2>3, <3>1 DEF Alone, SubOf, UserOf
    <3> QED BY <2>1, <2>3, <3>2 DEF Writes
  <2> QED BY <2>1, <2>2, <2>3 DEF Writes
<1>5. ASSUME NEW u \in Users \ overlap, NEW i \in 1..Len(sent), i # deliveries, i \in 1..deliveries,
             Newest(u, i)
      PROVE  InSync(u)'
  <2>1. InSync(u)
    BY <1>2, <1>5 DEF OrderOK, NewestHandled
  <2>2. u # UserOf(h)
    <3>1. CASE u = UserOf(h)
      <4>1. deliveries <= i
        BY <1>1, <1>5, <3>1 DEF Newest
      <4> QED BY <1>1, <1>5, <4>1
    <3> QED BY <3>1
  <2> QED BY <2>1, <2>2 DEF InSync, LiveSubs, Writes, stripeVars
<1> QED BY <1>4, <1>5

LEMMA GoesOrder ==
  ASSUME IInv, OrderOK, NEW h \in Handlers, pc[h] # "idle", Writes(h),
         pc'[h] # "idle", ev' = ev, \A g \in Handlers : g # h => pc'[g] = pc[g], Doing(h)'
  PROVE  OrderOK'
<1>1. /\ deliveries \in 1..Len(sent) /\ ev[h] = sent[deliveries]
      /\ \A g \in Handlers : g # h => pc'[g] = "idle"
  BY Busy
<1>2. /\ sent' = sent /\ overlap' = overlap /\ deliveries' = deliveries /\ ~Idle'
  BY DEF Writes, stripeVars, Idle
<1>3. OneByOne'
  BY <1>1, <1>2 DEF OrderOK, OneByOne
<1>4. \A i : Handled(i)' => i # deliveries /\ i \in 1..deliveries
  BY <1>2 DEF Handled
<1>5. RowShows'
  BY <1>2, <1>4, RestStays DEF RowShows, Alone, Shows
<1>6. NewestHandled'
  BY <1>2, <1>4, RestStays DEF NewestHandled, Newest, OfUser
<1>7. \A g \in Handlers : pc'[g] # "idle" => Doing(g)'
  <2> SUFFICES ASSUME NEW g \in Handlers, pc'[g] # "idle" PROVE Doing(g)'
    OBVIOUS
  <2>1. g = h
    BY <1>1
  <2> QED BY <2>1
<1> QED BY <1>3, <1>5, <1>6, <1>7 DEF OrderOK

LEMMA EndsOrder ==
  ASSUME IInv, OrderOK, NEW h \in Handlers, pc[h] # "idle", Writes(h), Returns(h),
         Shows(ev[h]) => rowSub'[UserOf(h)] = SubOf(h),
         \A u \in Users : DoesNewest(h) /\ u = UserOf(h) => InSync(u)'
  PROVE  OrderOK'
<1>1. /\ deliveries \in 1..Len(sent) /\ ev[h] = sent[deliveries]
      /\ \A g \in Handlers : g # h => pc[g] = "idle"
  BY Busy
<1>2. /\ sent' = sent /\ overlap' = overlap /\ deliveries' = deliveries
  BY DEF Writes, stripeVars
<1>3. \A g \in Handlers : pc'[g] = "idle"
  <2>1. pc \in [Handlers -> Steps \cup {"idle"}]
    BY TypeOKHandlers DEF IInv, HandlerTypes
  <2> QED BY <1>1, <2>1 DEF Returns
<1>4. OneByOne'
  BY <1>2, <1>3 DEF OrderOK, OneByOne
<1>5. \A i : Handled(i)' => i \in 1..deliveries
  BY <1>2 DEF Handled
<1>6. RowShows'
  <2> SUFFICES ASSUME NEW i \in 1..Len(sent), i \in 1..deliveries, Shows(sent[i]), Alone(i, deliveries)
               PROVE  rowSub'[Owner[sent[i].sub]] = sent[i].sub
    BY <1>2, <1>5 DEF RowShows, Alone, Shows
  <2>1. CASE i = deliveries
    BY <1>1, <2>1 DEF UserOf, SubOf
  <2> QED BY <2>1, RestStays
<1>7. NewestHandled'
  <2> SUFFICES ASSUME NEW u \in Users \ overlap, NEW i \in 1..Len(sent), i \in 1..deliveries,
                      Newest(u, i)
               PROVE  InSync(u)'
    BY <1>2, <1>5 DEF NewestHandled, Newest, OfUser
  <2>1. CASE i = deliveries
    <3>1. u = UserOf(h)
      BY <1>1, <2>1 DEF Newest, OfUser, UserOf, SubOf
    <3> QED BY <2>1, <3>1 DEF DoesNewest
  <2> QED BY <2>1, RestStays
<1> QED BY <1>3, <1>4, <1>6, <1>7 DEF OrderOK

\* Past _syncSubscription the row names the subscription and the user is in sync.
LEMMA AfterSyncOrder ==
  ASSUME IInv, OrderOK, NEW h \in Handlers, pc[h] \in {"upsert1", "plan1", "upsert", "plan"},
         Writes(h), AfterSync(h), rowSub'[UserOf(h)] = SubOf(h),
         \A u \in Users : DoesNewest(h) /\ u = UserOf(h) => InSync(u)'
  PROVE  OrderOK'
<1>1. CASE Returns(h)
  BY <1>1, EndsOrder
<1>2. ASSUME NEW label \in {"fetch", "row"}, Goto(h, label)
      PROVE  OrderOK'
  <2>1. pc' = [pc EXCEPT ![h] = label] /\ ev' = ev /\ snap' = snap
    BY <1>2 DEF Goto
  <2>2. pc \in [Handlers -> Steps \cup {"idle"}]
    BY TypeOKHandlers DEF IInv, HandlerTypes
  <2>3. pc'[h] = label /\ \A g \in Handlers : g # h => pc'[g] = pc[g]
    BY <2>1, <2>2
  <2>4. Doing(h) /\ UserOf(h) \in Users /\ SubOf(h) \in Subs
    BY Busy
  <2>5. PICK u \in Users, s \in Subs : u = UserOf(h) /\ s = SubOf(h)
    BY <2>4
  <2>6. UserOf(h)' = u /\ SubOf(h)' = s
    BY <2>1, <2>5 DEF UserOf, SubOf
  <2>7. NamesSub(h)'
    BY <2>5, <2>6 DEF NamesSub
  <2>8. DoesNewest(h)' => DoesNewest(h)
    BY <2>5, <2>6 DEF DoesNewest, Newest, OfUser, Writes, stripeVars
  <2>9. DoesNewest(h)' => InSync(UserOf(h))'
    <3>1. DoesNewest(h)' => InSync(u)'
      BY <2>5, <2>8
    <3>2. InSync(UserOf(h))' <=> InSync(u)'
      BY <2>6
    <3> QED BY <3>1, <3>2
  <2>10. ev[h].kind \notin {"deleted", "failed"}
    BY <2>4 DEF Doing
  <2>11. Doing(h)'
    BY <2>1, <2>3, <2>7, <2>9, <2>10 DEF Doing
  <2> QED BY <2>1, <2>3, <2>11, GoesOrder
<1> QED BY <1>1, <1>2 DEF AfterSync

\* The newest event of a user whose handler is past the fetch: nothing else of the user is live.
LEMMA NewestOf ==
  ASSUME IInv, LogOK, OrderOK, NEW h \in Handlers, pc[h] # "idle", DoesNewest(h)
  PROVE  /\ LiveSubs(UserOf(h)) \subseteq {SubOf(h)}
         /\ ev[h].state = state[SubOf(h)] /\ ev[h].tier = tier[SubOf(h)]
         /\ (Shows(ev[h]) /\ state[SubOf(h)] \in Live) \/ ev[h].kind = "deleted"
<1>1. deliveries \in 1..Len(sent) /\ ev[h] = sent[deliveries] /\ UserOf(h) \in Users
  BY Busy
<1> QED BY <1>1 DEF DoesNewest, LogOK, NewestTells, SubOf

LEMMA HandlerOrder ==
  ASSUME IInv, LogOK, OrderOK, NEW h \in Handlers, HandlerStep(h)
  PROVE  OrderOK'
<1> DEFINE N == DoesNewest(h)
<1>1. /\ pc[h] # "idle"
      /\ UNCHANGED <<stripeVars, deliveries>>
  BY DEF HandlerStep, Fetch, Upsert, UpdatePlan, FindRow, FindPayment, CreatePayment, Cancel,
     Downgrade, MarkPastDue
<1>2. /\ deliveries \in 1..Len(sent) /\ ev[h] = sent[deliveries] /\ OfUser(UserOf(h), deliveries)
      /\ Knows(h, pc[h]) /\ Doing(h) /\ Told(ev[h])
      /\ SubOf(h) \in Subs /\ UserOf(h) \in Users /\ state[SubOf(h)] \in Statuses
      /\ ~Idle
  BY <1>1, Busy
<1>3. PICK u \in Users, s \in Subs : u = UserOf(h) /\ s = SubOf(h) /\ Owner[s] = u
  BY <1>2 DEF UserOf
<1>4. HandlerTypes /\ TypeOK
  BY TypeOKHandlers DEF IInv
<1>5. /\ rowSub \in [Users -> Subs \cup {NoSub}] /\ DOMAIN rowStatus = Users /\ DOMAIN plan = Users
      /\ DOMAIN pc = Handlers /\ DOMAIN snap = Handlers
  BY <1>4 DEF TypeOK
<1>6. N => /\ LiveSubs(u) \subseteq {s}
           /\ ev[h].state = state[s] /\ ev[h].tier = tier[s]
           /\ (Shows(ev[h]) /\ state[s] \in Live) \/ ev[h].kind = "deleted"
  BY <1>1, <1>3, NewestOf
\* A step that leaves the rows alone.
<1>7. ASSUME UNCHANGED <<rowVars, plan>> PROVE Writes(h) /\ (InSync(u) => InSync(u)')
  BY <1>1, <1>7 DEF Writes, rowVars, InSync, LiveSubs, stripeVars
\* Where a handler goes without a write of the plan.
<1>8. ASSUME NEW label \in Steps, Goto(h, label)
      PROVE  /\ pc'[h] = label /\ ev' = ev /\ snap' = snap /\ \A g \in Handlers : g # h => pc'[g] = pc[g]
             /\ SubOf(h)' = s /\ UserOf(h)' = u
             /\ DoesNewest(h)' <=> N
  <2>1. pc'[h] = label /\ ev' = ev /\ snap' = snap /\ \A g \in Handlers : g # h => pc'[g] = pc[g]
    BY <1>5, <1>8 DEF Goto
  <2>2. SubOf(h)' = s /\ UserOf(h)' = u
    BY <1>3, <2>1 DEF SubOf, UserOf
  <2>3. DoesNewest(h)' <=> N
    BY <1>1, <1>3, <2>2 DEF DoesNewest, Newest, OfUser, stripeVars
  <2> QED BY <2>1, <2>2, <2>3
<1> HIDE DEF N
<1>9. CASE Fetch(h)
  <2> DEFINE next == IF pc[h] = "fetch1" THEN "upsert1" ELSE "upsert"
  <2>1. /\ snap'[h] = [state |-> state[s], tier |-> tier[s]]
        /\ pc'[h] = next /\ ev' = ev /\ UNCHANGED <<rowVars, plan>>
        /\ pc[h] \in {"fetch1", "fetch"} /\ \A g \in Handlers : g # h => pc'[g] = pc[g]
    BY <1>3, <1>5, <1>9 DEF Fetch, planVars
  <2>2. SubOf(h)' = s /\ UserOf(h)' = u /\ state' = state /\ tier' = tier
    BY <1>1, <1>3, <2>1 DEF SubOf, UserOf, stripeVars
  <2>3. snap'[h].state = state'[s] /\ snap'[h].tier = tier'[s]
    BY <2>1, <2>2
  <2>4. next \in {"upsert1", "upsert"} /\ ev[h].kind \notin {"deleted", "failed"}
    BY <1>2, <2>1 DEF Doing
  <2>5. Doing(h)'
    BY <2>1, <2>2, <2>3, <2>4 DEF Doing
  <2>6. pc'[h] # "idle"
    BY <2>1
  <2> QED BY <1>1, <1>7, <2>1, <2>5, <2>6, GoesOrder
<1>10. CASE Upsert(h)
  <2> DEFINE status == toSubscriptionStatus(snap[h].state)
  <2>1. /\ pc[h] \in {"upsert1", "upsert"}
        /\ rowSub' = [rowSub EXCEPT ![u] = s]
        /\ rowStatus' = [rowStatus EXCEPT ![u] = status]
        /\ plan' = plan
        /\ \/ Billable(status) /\ Goto(h, IF pc[h] = "upsert1" THEN "plan1" ELSE "plan")
           \/ ~Billable(status) /\ AfterSync(h)
    BY <1>3, <1>10 DEF Upsert, planVars
  <2>2. rowSub'[u] = s /\ rowStatus'[u] = status
    BY <1>5, <2>1
  <2>3. Writes(h)
    BY <1>1, <1>3, <1>5, <2>1, <2>2 DEF Writes
  <2>4. /\ snap[h].state \in Statuses
        /\ N => snap[h].state = state[s] /\ snap[h].tier = tier[s]
        /\ ev[h].kind \notin {"deleted", "failed"}
    BY <1>2, <1>3, <2>1 DEF Doing, N, Knows, SnapTold, Snapshots
  <2>5. Billable(status) <=> snap[h].state = "active"
    BY <2>4 DEF Billable, toSubscriptionStatus, Statuses, Live
  <2>6. Billable(status) => status = "ACTIVE"
    BY <2>5 DEF toSubscriptionStatus
  <2>7. CASE Billable(status) /\ Goto(h, IF pc[h] = "upsert1" THEN "plan1" ELSE "plan")
    <3>1. PICK label \in {"plan1", "plan"} : Goto(h, label)
      BY <2>7
    <3>2. /\ pc'[h] = label /\ ev' = ev /\ snap' = snap /\ \A g \in Handlers : g # h => pc'[g] = pc[g]
          /\ SubOf(h)' = s /\ UserOf(h)' = u
          /\ DoesNewest(h)' <=> N
      BY <1>8, <3>1 DEF Steps
    <3>3. state' = state /\ tier' = tier
      BY <1>1 DEF stripeVars
    <3>4. Doing(h)'
      BY <2>2, <2>4, <2>6, <2>7, <3>2, <3>3 DEF Doing, NamesSub
    <3>5. pc'[h] # "idle"
      BY <3>2
    <3> QED BY <1>1, <2>3, <3>2, <3>4, <3>5, GoesOrder
  <2>8. CASE ~Billable(status) /\ AfterSync(h)
    <3>1. N => InSync(u)'
      <4> SUFFICES ASSUME N PROVE InSync(u)'
        OBVIOUS
      <4>1. state[s] # "active" /\ state[s] \in Live /\ LiveSubs(u) \subseteq {s}
        BY <1>6, <2>4, <2>5, <2>8
      <4>2. s \in LiveSubs(u)
        BY <1>3, <4>1 DEF LiveSubs
      <4>3. \A x \in Subs : Owner[x] = u => state[x] # "active"
        BY <4>1 DEF LiveSubs, Live
      <4> QED BY <1>1, <4>2, <4>3 DEF InSync, LiveSubs, stripeVars
    <3> QED BY <1>3, <2>1, <2>2, <2>3, <2>8, <3>1, AfterSyncOrder DEF N
  <2> QED BY <2>1, <2>7, <2>8
<1>11. CASE UpdatePlan(h)
  <2>1. /\ pc[h] \in {"plan1", "plan"} /\ AfterSync(h)
        /\ plan' = [plan EXCEPT ![u] = snap[h].tier]
        /\ UNCHANGED rowVars
    BY <1>3, <1>11 DEF UpdatePlan
  <2>2. /\ rowSub[u] = s /\ snap[h].state = "active"
        /\ N => /\ snap[h].state = state[s] /\ snap[h].tier = tier[s]
                /\ rowStatus[u] = "ACTIVE"
    BY <1>2, <1>3, <2>1 DEF Doing, N, NamesSub, Knows
  <2>3. Writes(h) /\ rowSub'[UserOf(h)] = SubOf(h)
    BY <1>1, <1>3, <1>5, <2>1, <2>2 DEF Writes, rowVars
  <2>4. N => InSync(u)'
    <3> SUFFICES ASSUME N PROVE InSync(u)'
      OBVIOUS
    <3>1. state[s] = "active" /\ LiveSubs(u) \subseteq {s} /\ s \in LiveSubs(u)
      BY <1>3, <1>6, <2>2 DEF LiveSubs, Live
    <3>2. \A x \in Subs : Owner[x] = u /\ state[x] = "active" => x = s
      BY <3>1 DEF LiveSubs, Live
    <3>3. plan'[u] = tier[s] /\ rowSub'[u] = s /\ rowStatus'[u] = "ACTIVE"
      BY <1>5, <2>1, <2>2 DEF rowVars
    <3> QED BY <1>1, <3>1, <3>2, <3>3 DEF InSync, LiveSubs, stripeVars
  <2> QED BY <1>3, <2>1, <2>3, <2>4, AfterSyncOrder DEF N
<1>12. CASE FindRow(h) \/ FindPayment(h) \/ CreatePayment(h)
  <2>1. /\ pc[h] \in {"row", "look", "create"} /\ UNCHANGED <<rowVars, plan>>
        /\ Returns(h) \/ \E label \in {"look", "create"} : Goto(h, label)
    BY <1>12 DEF FindRow, FindPayment, CreatePayment, planVars
  <2>2. /\ rowSub[u] = s /\ rowSub' = rowSub
        /\ N => InSync(u)
        /\ ev[h].kind \notin {"deleted", "failed"}
    BY <1>2, <1>3, <2>1 DEF Doing, N, NamesSub, rowVars
  <2>3. Writes(h) /\ (N => InSync(u)')
    BY <1>7, <2>1, <2>2
  <2>4. CASE Returns(h)
    BY <1>1, <1>3, <2>2, <2>3, <2>4, EndsOrder DEF N
  <2>5. ASSUME NEW label \in {"look", "create"}, Goto(h, label) PROVE OrderOK'
    <3>1. /\ pc'[h] = label /\ ev' = ev /\ snap' = snap /\ \A g \in Handlers : g # h => pc'[g] = pc[g]
          /\ SubOf(h)' = s /\ UserOf(h)' = u
          /\ DoesNewest(h)' <=> N
      BY <1>8, <2>5 DEF Steps
    <3>2. InSync(UserOf(h))' <=> InSync(u)'
      BY <3>1
    <3>3. Doing(h)'
      BY <2>2, <2>3, <3>1, <3>2 DEF Doing, NamesSub
    <3>4. pc'[h] # "idle"
      BY <3>1
    <3> QED BY <1>1, <2>3, <3>1, <3>3, <3>4, GoesOrder
  <2> QED BY <2>1, <2>4, <2>5
<1>13. CASE Cancel(h)
  <2>1. /\ pc[h] = "cancel" /\ ev[h].kind = "deleted" /\ rowSub' = rowSub /\ plan' = plan
        /\ \/ NamesSub(h) /\ Goto(h, "downgrade")
           \/ ~NamesSub(h) /\ Returns(h)
        /\ rowStatus' = rowStatus \/ rowStatus' = [rowStatus EXCEPT ![u] = "CANCELED"]
    BY <1>2, <1>3, <1>13 DEF Cancel, Knows, planVars
  <2>2. Writes(h)
    BY <1>1, <1>3, <1>5, <2>1 DEF Writes
  <2>3. CASE Goto(h, "downgrade")
    <3>1. /\ pc'[h] = "downgrade" /\ ev' = ev /\ \A g \in Handlers : g # h => pc'[g] = pc[g]
      BY <1>8, <2>3 DEF Steps
    <3>2. Doing(h)'
      BY <3>1 DEF Doing
    <3> QED BY <1>1, <2>2, <3>1, <3>2, GoesOrder
\* The row names the subscription, or the event is not the newest of a user without overlap.
  <2>4. CASE ~NamesSub(h) /\ Returns(h)
    <3>1. ~N
      <4> SUFFICES ASSUME N PROVE FALSE
        OBVIOUS
      <4>1. sent[deliveries].kind = "deleted" /\ Owner[sent[deliveries].sub] \notin overlap
        BY <1>2, <2>1 DEF N, DoesNewest, UserOf, SubOf
      <4>2. PICK k \in 1..(deliveries - 1) :
              Shows(sent[k]) /\ sent[k].sub = sent[deliveries].sub /\ Alone(k, deliveries)
        BY <1>2, <4>1 DEF LogOK, EndFollows
      <4>3. k \in 1..Len(sent) /\ k \in 1..deliveries /\ k # deliveries
        BY <1>2
      <4>4. Handled(k)
        BY <4>3 DEF Handled
      <4>5. rowSub[Owner[sent[k].sub]] = sent[k].sub
        BY <4>2, <4>3, <4>4 DEF OrderOK, RowShows
      <4> QED BY <1>2, <2>4, <4>2, <4>5 DEF NamesSub, UserOf, SubOf
    <3>2. ~Shows(ev[h])
      BY <2>1 DEF Shows
    <3> QED BY <1>1, <2>2, <2>4, <3>1, <3>2, EndsOrder DEF N
  <2> QED BY <2>1, <2>3, <2>4
<1>14. CASE Downgrade(h)
  <2>1. /\ pc[h] = "downgrade" /\ ev[h].kind = "deleted" /\ Returns(h)
        /\ plan' = [plan EXCEPT ![u] = Free] /\ UNCHANGED rowVars
    BY <1>2, <1>3, <1>14 DEF Downgrade, Knows
  <2>2. Writes(h)
    BY <1>1, <1>3, <1>5, <2>1 DEF Writes, rowVars
  <2>3. N => InSync(u)'
    <3> SUFFICES ASSUME N PROVE InSync(u)'
      OBVIOUS
    <3>1. state[s] = "canceled" /\ LiveSubs(u) \subseteq {s}
      BY <1>2, <1>3, <1>6, <2>1 DEF Told, SubOf
    <3>2. \A x \in Subs : Owner[x] = u => state[x] # "active"
      BY <3>1 DEF LiveSubs, Live
    <3>3. plan'[u] = Free
      BY <1>5, <2>1
    <3> QED BY <1>1, <3>2, <3>3 DEF InSync, stripeVars
  <2>4. ~Shows(ev[h])
    BY <2>1 DEF Shows
  <2> QED BY <1>1, <1>3, <2>1, <2>2, <2>3, <2>4, EndsOrder DEF N
<1>15. CASE MarkPastDue(h)
  <2>1. /\ pc[h] = "pastdue" /\ ev[h].kind = "failed" /\ Returns(h)
        /\ rowSub' = rowSub /\ plan' = plan
        /\ rowStatus' = rowStatus \/ rowStatus' = [rowStatus EXCEPT ![u] = "PAST_DUE"]
    BY <1>2, <1>3, <1>15 DEF MarkPastDue, Knows, planVars
  <2>2. Writes(h)
    BY <1>1, <1>3, <1>5, <2>1 DEF Writes
  <2>3. ~Shows(ev[h])
    BY <2>1 DEF Shows
  <2>4. ~N
    BY <1>6, <2>1, <2>3
  <2> QED BY <1>1, <2>1, <2>2, <2>3, <2>4, EndsOrder DEF N
<1> QED BY <1>9, <1>10, <1>11, <1>12, <1>13, <1>14, <1>15 DEF HandlerStep

LEMMA DeliverOrder ==
  ASSUME IInv, LogOK, OrderOK, NEW h \in Handlers, NEW i \in 1..Len(sent), Deliver(h, i), orderly'
  PROVE  OrderOK'
<1> USE PaymentsAssumption
<1>0. TypeOK /\ HandlerTypes /\ deliveries \in Nat
  BY TypeOKHandlers DEF IInv, TypeOK
<1>1. /\ i = deliveries + 1 /\ deliveries' = i /\ Idle
      /\ UNCHANGED <<stripeVars, rowVars, planVars>>
  BY <1>0 DEF Deliver, Idle
<1>2. PICK e \in Events : e = sent[i] /\ e.kind \in Kinds
  <2>1. sent[i] \in Events
    BY <1>0 DEF TypeOK
  <2> QED BY <2>1 DEF Events
<1>3. /\ pc'[h] = Entry(e.kind) /\ ev'[h] = e
      /\ e.kind = "updated" => snap'[h].state = e.state /\ snap'[h].tier = e.tier
      /\ \A g \in Handlers : g # h => pc'[g] = "idle"
  BY <1>0, <1>1, <1>2 DEF Deliver, HandlerTypes, Idle
<1>4. Entry(e.kind) \in Steps
  BY <1>2 DEF Kinds, Entry, Steps
<1>5. OneByOne'
  BY <1>1, <1>2, <1>3 DEF OneByOne, stripeVars
<1>6. ~Idle'
  BY <1>3, <1>4 DEF Idle, Steps
<1>7. \A k : Handled(k)' => Handled(k) /\ k <= deliveries
  BY <1>0, <1>1, <1>6 DEF Handled
<1>8. RowShows'
  <2> SUFFICES ASSUME NEW k \in 1..Len(sent), Handled(k)', Shows(sent[k]), Alone(k, i)
               PROVE  rowSub[Owner[sent[k].sub]] = sent[k].sub
    BY <1>1 DEF RowShows, Shows, Alone, stripeVars, rowVars
  <2>1. \A m \in k..deliveries : m \in k..i
    BY <1>0, <1>1
  <2>2. Alone(k, deliveries)
    BY <2>1 DEF Alone
  <2> QED BY <1>7, <2>2 DEF OrderOK, RowShows
<1>9. NewestHandled'
  <2> SUFFICES ASSUME NEW u \in Users \ overlap, NEW k \in 1..Len(sent), Newest(u, k), Handled(k)'
               PROVE  InSync(u)'
    BY <1>1 DEF NewestHandled, Newest, OfUser, stripeVars
  <2>1. InSync(u)
    BY <1>7 DEF OrderOK, NewestHandled
  <2> QED BY <1>1, <2>1 DEF InSync, LiveSubs, stripeVars, rowVars, planVars
<1>10. Doing(h)'
  <2>1. SubOf(h)' = e.sub /\ UserOf(h)' = Owner[e.sub] /\ Owner[e.sub] \in Users
    BY <1>2, <1>3 DEF SubOf, UserOf, Events
  <2>2. /\ Entry(e.kind) \notin {"cancel", "downgrade", "pastdue"} => e.kind \notin {"deleted", "failed"}
        /\ Entry(e.kind) \notin {"upsert1", "plan1", "plan", "row", "look", "create"}
        /\ Entry(e.kind) = "upsert" => e.kind = "updated"
    BY <1>2 DEF Kinds, Entry
  <2>3. DoesNewest(h)' => e.state = state'[e.sub] /\ e.tier = tier'[e.sub]
    <3> SUFFICES ASSUME DoesNewest(h)' PROVE e.state = state[e.sub] /\ e.tier = tier[e.sub]
      BY <1>1 DEF stripeVars
    <3>1. PICK u \in Users : u = Owner[e.sub]
      BY <2>1
    <3>2. u \notin overlap /\ Newest(u, i)
      BY <1>1, <2>1, <3>1 DEF DoesNewest, Newest, OfUser, stripeVars
    <3> QED BY <1>2, <3>2 DEF LogOK, NewestTells
  <2> QED BY <1>3, <2>1, <2>2, <2>3 DEF Doing
<1>11. \A g \in Handlers : pc'[g] # "idle" => Doing(g)'
  <2> SUFFICES ASSUME NEW g \in Handlers, pc'[g] # "idle" PROVE Doing(g)'
    OBVIOUS
  <2>1. g = h
    BY <1>3
  <2> QED BY <1>10, <2>1
<1> QED BY <1>5, <1>8, <1>9, <1>11 DEF OrderOK

-----------------------------------------------------------------------------
(* Every step.                                                              *)

\* What depends on Stripe's variables only.
LEMMA LogStays == ASSUME LogOK, UNCHANGED stripeVars PROVE LogOK'
<1> USE DEF stripeVars
<1>1. \A u, i : Newest(u, i)' <=> Newest(u, i)
  BY DEF Newest, OfUser
<1>2. \A u : LiveSubs(u)' = LiveSubs(u)
  BY DEF LiveSubs
<1>3. HasNewest' /\ NewestTells'
  BY <1>1, <1>2 DEF LogOK, HasNewest, NewestTells, Shows
<1>4. EndFollows'
  BY DEF LogOK, EndFollows, Alone, Shows
<1> QED BY <1>3, <1>4 DEF LogOK

LEMMA SNext == IInv /\ SInv /\ [Next]_vars => SInv'
<1> SUFFICES ASSUME IInv, SInv, [Next]_vars PROVE SInv'
  OBVIOUS
<1>0. LogOK /\ orderly \in BOOLEAN /\ faults \in Nat
  BY PaymentsAssumption DEF SInv, IInv, TypeOK
<1>1. CASE UNCHANGED vars
  <2>1. UNCHANGED <<stripeVars, rowVars, planVars, handlerVars, deliveries, faults, orderly>>
    BY <1>1 DEF vars
  <2>2. LogOK'
    BY <1>0, <2>1, LogStays
  <2>3. OrderOK => OrderOK'
    <3> SUFFICES ASSUME OrderOK PROVE OrderOK'
      OBVIOUS
    <3>1. Len(sent) \in Nat
      BY DEF IInv, TypeOK
    <3>2. ASSUME NEW u \in Users PROVE Untouched(u)
      BY <2>1 DEF Untouched, InSync, LiveSubs, stripeVars, rowVars, planVars
    <3> QED BY <2>1, <3>1, <3>2, QuietOrder DEF stripeVars
  <2> QED BY <2>1, <2>2, <2>3 DEF SInv
<1>2. ASSUME NEW s \in Subs, CheckoutStep(s) \/ StripeStep(s) PROVE SInv'
  BY <1>2, CheckoutOrder, StripeOrder
<1>3. ASSUME NEW h \in Handlers, NEW i \in 1..Len(sent), Deliver(h, i) PROVE SInv'
  <2>1. UNCHANGED stripeVars /\ faults' = faults /\ (orderly' => orderly)
    BY <1>3 DEF Deliver
  <2>2. ASSUME orderly', faults = 0 PROVE OrderOK'
    BY <1>0, <1>3, <2>1, <2>2, DeliverOrder DEF SInv
  <2> QED BY <1>0, <2>1, <2>2, LogStays DEF SInv
<1>4. ASSUME NEW h \in Handlers, HandlerStep(h) PROVE SInv'
  <2>1. UNCHANGED <<stripeVars, faults, orderly>>
    BY <1>4 DEF HandlerStep, Fetch, Upsert, UpdatePlan, FindRow, FindPayment, CreatePayment, Cancel,
       Downgrade, MarkPastDue
  <2> QED BY <1>0, <1>4, <2>1, LogStays, HandlerOrder DEF SInv
<1>5. ASSUME (\E s \in Subs : CheckoutFails(s)) \/ (\E h \in Handlers : HandlerFails(h)) \/ Crash
      PROVE  SInv'
  <2>1. UNCHANGED stripeVars /\ faults' = faults + 1
    BY <1>5 DEF CheckoutFails, HandlerFails, Crash
  <2>2. faults' # 0
    BY <1>0, <2>1
  <2> QED BY <1>0, <2>1, <2>2, LogStays DEF SInv
<1> QED BY <1>1, <1>2, <1>3, <1>4, <1>5 DEF Next

\* Events handled one at a time, in order and without a fault leave every user who never had two
\* subscriptions at once with what Stripe sold, although the handlers read each subscription as
\* it is when they run: for any number of users, subscriptions, plans and events.
THEOREM SettledAlwaysInSync == Spec => []SettledInSync
<1>1. Init => SInv
  BY SInit
<1>2. IInv /\ SInv /\ [Next]_vars => SInv'
  BY SNext
<1>3. IInv /\ SInv => SettledInSync
  BY SettledFromInv
<1> QED BY <1>1, <1>2, <1>3, Invariance, PTL DEF Spec
=============================================================================
