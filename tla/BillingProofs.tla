--------------------------- MODULE BillingProofs ---------------------------
(***************************************************************************)
(* Theorems about Billing, for any number of clicks, deliveries, events    *)
(* and failures.                                                           *)
(***************************************************************************)
EXTENDS Billing, TLAPS

(* A step of Next, named once.                                             *)
ClickStep(k) == FindCustomer(k) \/ SaveCustomer(k) \/ OfferCheckout(k)
StripeStep(k) == Pay(k) \/ Renew(k) \/ Cancel(k)

(* Once there is a row it keeps its customer; the requests that may lead   *)
(* to a payment, Stripe's subscriptions and its events are about that one; *)
(* a webhook request has an event, and the row if it loaded one.           *)
Bound ==
  /\ row # NoRow => row.cust \in Click /\ row.status \in SubStatus
  /\ \A k \in Click : click[k] \in {"saved", "offered"} => row # NoRow /\ cust[k] = row.cust
  /\ \A k \in Click : click[k] = "customer" => cust[k] = k
  /\ \A c \in Click : stripe[c] # None => row # NoRow /\ c = row.cust
  /\ \A e \in Emitted : row # NoRow /\ events[e].cust = row.cust
  /\ \A h \in Delivery : hook[h] # "idle" => ev[h] \in Emitted
  /\ \A h \in Delivery : hook[h] = "loaded" => copy[h] # NoRow

(* Stripe appends to its history.                                          *)
LEMMA EmitTypes ==
  ASSUME events \in Seq(Event), Len(events) <= MaxEvents,
         NEW new \in Seq(Event), Emit(new)
  PROVE  /\ events' \in Seq(Event) /\ Len(events') <= MaxEvents
         /\ Len(events') = Len(events) + Len(new)
         /\ Emitted \subseteq Emitted'
         /\ \A e \in Emitted : events'[e] = events[e]
         /\ \A e \in Emitted' \ Emitted : events'[e] = new[e - Len(events)]
                                         /\ e - Len(events) \in 1..Len(new)
PROOF
  <1>1. events' = events \o new /\ Len(events) + Len(new) <= MaxEvents
    BY DEF Emit
  <1>2. events' \in Seq(Event) /\ Len(events') = Len(events) + Len(new)
    BY <1>1
  <1>3. Emitted = 1..Len(events) /\ Emitted' = 1..Len(events')
    BY <1>2 DEF Emitted
  <1>4. Emitted \subseteq Emitted' /\ Len(events) \in Nat /\ Len(new) \in Nat
    BY <1>2, <1>3
  <1>5. \A e \in 1..Len(events) : events'[e] = events[e]
    BY <1>1
  <1>6. \A e \in Len(events) + 1..Len(events) + Len(new) : events'[e] = new[e - Len(events)]
    BY <1>1
  <1> QED
    BY <1>1, <1>2, <1>3, <1>4, <1>5, <1>6

(* What Stripe's steps emit: at least one event, all about the customer    *)
(* whose subscription changes, the last with its new status.               *)
LEMMA StripeEmits ==
  ASSUME TypeOK, Bound, NEW k \in Click, StripeStep(k)
  PROVE  \E c \in Click, s \in SubStatus, new \in Seq(Event) :
           /\ row # NoRow /\ c = row.cust
           /\ stripe' = [stripe EXCEPT ![c] = s]
           /\ Emit(new) /\ Len(new) \in Nat \ {0} /\ new[Len(new)].status = s
           /\ \A i \in 1..Len(new) : new[i].cust = c
           /\ UNCHANGED <<row, clickvars, hookvars>>
PROOF
  <1>1. CASE Pay(k)
    <2>1. cust[k] \in Click /\ row # NoRow /\ cust[k] = row.cust
      BY <1>1 DEF Pay, Bound
    <2>2. PICK s \in Entitled :
            /\ stripe' = [stripe EXCEPT ![cust[k]] = s]
            /\ Emit(<<Tell("checkout.session.completed", cust[k], "active"),
                      Tell("customer.subscription.updated", cust[k], s)>>)
      BY <1>1 DEF Pay
    <2>3. s \in SubStatus /\ "active" \in SubStatus
      BY DEF SubStatus, Entitled
    <2>4. /\ Tell("checkout.session.completed", cust[k], "active") \in Event
          /\ Tell("customer.subscription.updated", cust[k], s) \in Event
          /\ Tell("checkout.session.completed", cust[k], "active").cust = cust[k]
          /\ Tell("customer.subscription.updated", cust[k], s).cust = cust[k]
          /\ Tell("customer.subscription.updated", cust[k], s).status = s
      BY <2>1, <2>3 DEF Tell, Event, Kind
    <2> DEFINE new == <<Tell("checkout.session.completed", cust[k], "active"),
                        Tell("customer.subscription.updated", cust[k], s)>>
    <2>5. new \in Seq(Event) /\ Len(new) = 2 /\ new[2].status = s
          /\ \A i \in 1..Len(new) : new[i].cust = cust[k]
      BY <2>4
    <2>7. Len(new) \in Nat \ {0} /\ new[Len(new)].status = s
      BY <2>5
    <2>6. Emit(new) /\ UNCHANGED <<row, clickvars, hookvars>>
      BY <1>1, <2>2 DEF Pay
    <2> HIDE DEF new
    <2>8. stripe' = [stripe EXCEPT ![cust[k]] = s]
      BY <2>2
    <2> QED
      BY <2>1, <2>3, <2>5, <2>6, <2>7, <2>8, Zenon
  <1>2. ASSUME NEW kind \in Kind, NEW s \in SubStatus, Live(k),
               stripe' = [stripe EXCEPT ![k] = s], Emit(<<Tell(kind, k, s)>>),
               UNCHANGED <<row, clickvars, hookvars>>
        PROVE  \E c \in Click, t \in SubStatus, new \in Seq(Event) :
                 /\ row # NoRow /\ c = row.cust
                 /\ stripe' = [stripe EXCEPT ![c] = t]
                 /\ Emit(new) /\ Len(new) \in Nat \ {0} /\ new[Len(new)].status = t
                 /\ \A i \in 1..Len(new) : new[i].cust = c
                 /\ UNCHANGED <<row, clickvars, hookvars>>
    <2>1. row # NoRow /\ k = row.cust
      BY <1>2 DEF Bound, Live, Entitled, None
    <2>2. Tell(kind, k, s) \in Event /\ Tell(kind, k, s).cust = k /\ Tell(kind, k, s).status = s
      BY DEF Tell, Event
    <2> DEFINE new == <<Tell(kind, k, s)>>
    <2>3. new \in Seq(Event) /\ Len(new) = 1 /\ new[1].status = s
          /\ \A i \in 1..Len(new) : new[i].cust = k
      BY <2>2
    <2>4. Emit(new)
      BY <1>2
    <2> HIDE DEF new
    <2>5. Len(new) \in Nat \ {0} /\ new[Len(new)].status = s
      BY <2>3
    <2> QED
      BY <1>2, <2>1, <2>3, <2>4, <2>5, Zenon
  <1>3. CASE Renew(k)
    <2>1. PICK s \in {"active", "past_due"} :
            stripe' = [stripe EXCEPT ![k] = s] /\ Emit(<<Tell("customer.subscription.updated", k, s)>>)
      BY <1>3 DEF Renew
    <2>2. s \in SubStatus /\ "customer.subscription.updated" \in Kind
      BY DEF SubStatus, Entitled, Kind
    <2> QED
      BY <1>2, <1>3, <2>1, <2>2 DEF Renew
  <1>4. CASE Cancel(k)
    <2>1. "canceled" \in SubStatus /\ "customer.subscription.deleted" \in Kind
      BY DEF SubStatus, Kind
    <2> QED
      BY <1>2, <1>4, <2>1 DEF Cancel
  <1> QED
    BY <1>1, <1>3, <1>4 DEF StripeStep

(* Stripe's steps keep types and bonds.                                    *)
LEMMA StripeKeeps ==
  ASSUME TypeOK, Bound, NEW k \in Click, StripeStep(k)
  PROVE  TypeOK' /\ Bound'
PROOF
  <1>1. PICK c \in Click, s \in SubStatus, new \in Seq(Event) :
           /\ row # NoRow /\ c = row.cust
           /\ stripe' = [stripe EXCEPT ![c] = s]
           /\ Emit(new) /\ Len(new) \in Nat \ {0} /\ new[Len(new)].status = s
           /\ \A i \in 1..Len(new) : new[i].cust = c
           /\ UNCHANGED <<row, clickvars, hookvars>>
    BY StripeEmits
  <1>2. /\ events' \in Seq(Event) /\ Len(events') <= MaxEvents /\ Emitted \subseteq Emitted'
        /\ \A e \in Emitted : events'[e] = events[e]
        /\ \A e \in Emitted' \ Emitted : events'[e] = new[e - Len(events)]
                                        /\ e - Len(events) \in 1..Len(new)
    BY <1>1, EmitTypes DEF TypeOK
  <1>3. TypeOK'
    <2>1. stripe' \in [Click -> SubStatus \cup {None}]
      BY <1>1 DEF TypeOK
    <2>2. ev' \in [Delivery -> Emitted' \cup {0}]
      BY <1>1, <1>2 DEF TypeOK, hookvars
    <2> QED
      BY <1>1, <1>2, <2>1, <2>2 DEF TypeOK, clickvars, hookvars
  <1>4. \A e \in Emitted' : events'[e].cust = row.cust
    BY <1>1, <1>2 DEF Bound
  <1>5. \A d \in Click : stripe'[d] # None => d = row.cust
    BY <1>1 DEF Bound, TypeOK
  <1> QED
    BY <1>1, <1>2, <1>3, <1>4, <1>5 DEF Bound, clickvars, hookvars

(* So do the checkout requests'.                                           *)
LEMMA ClickKeeps ==
  ASSUME TypeOK, Bound, NEW k \in Click, ClickStep(k)
  PROVE  TypeOK' /\ Bound'
PROOF
  <1> USE DEF hookvars, clickvars
  <1>1. CASE FindCustomer(k)
    <2>1. CASE row # NoRow
      <3>1. row.cust \in Click
        BY <2>1 DEF Bound
      <3> QED
        BY <1>1, <2>1, <3>1 DEF FindCustomer, TypeOK, Bound, Emitted
    <2>2. CASE row = NoRow
      BY <1>1, <2>2 DEF FindCustomer, TypeOK, Bound, Emitted
    <2> QED
      BY <2>1, <2>2
  <1>2. CASE SaveCustomer(k)
    <2>1. CASE row = NoRow
      <3>1. [cust |-> k, status |-> "incomplete", tier |-> "free"] \in Row
        BY DEF Row, SubStatus
      <3>2. /\ row' = [cust |-> k, status |-> "incomplete", tier |-> "free"]
            /\ click' = [click EXCEPT ![k] = "saved"]
        BY <1>2, <2>1 DEF SaveCustomer
      <3>3. TypeOK'
        BY <1>2, <3>1, <3>2 DEF SaveCustomer, TypeOK, Emitted
      <3> QED
        BY <1>2, <2>1, <3>2, <3>3 
           DEF SaveCustomer, TypeOK, Bound, Emitted, NoRow, SubStatus, None
    <2>2. CASE row # NoRow
      BY <1>2, <2>2 DEF SaveCustomer, TypeOK, Bound, Emitted
    <2> QED
      BY <2>1, <2>2
  <1>3. CASE OfferCheckout(k)
    BY <1>3 DEF OfferCheckout, TypeOK, Bound, Emitted
  <1> QED
    BY <1>1, <1>2, <1>3 DEF ClickStep
(* And the webhook's; no event is handled without the row.                 *)
LEMMA HookKeeps ==
  ASSUME TypeOK, Bound, NEW h \in Delivery, Deliver(h) \/ HookStep(h) \/ FailHook(h)
  PROVE  TypeOK' /\ Bound' /\ dropped' = dropped
PROOF
  <1> USE DEF hookvars, clickvars
  <1>0. NoRow \in Row
    BY DEF Row, NoRow
  <1>1. CASE Deliver(h)
    <2>1. PICK e \in Emitted \ acked :
             \/ acked' = acked \cup {e} /\ UNCHANGED <<hook, ev>>
             \/ HookAt(h, "new") /\ ev' = [ev EXCEPT ![h] = e] /\ UNCHANGED acked
      BY <1>1 DEF Deliver
    <2>2. /\ UNCHANGED <<row, clickvars, stripe, events, ledger, copy, fails, dropped, orderly, last>>
      BY <1>1 DEF Deliver
    <2>3. TypeOK'
      BY <2>1, <2>2 DEF HookAt, TypeOK, Emitted
    <2> QED
      BY <2>1, <2>2, <2>3 DEF HookAt, TypeOK, Bound, Emitted
  <1>2. CASE LoadRow(h)
    <2>1. ev[h] \in Emitted /\ row # NoRow /\ events[ev[h]].cust = row.cust
      BY <1>2 DEF LoadRow, Bound
    <2>2. HookAt(h, "loaded") /\ copy' = [copy EXCEPT ![h] = row] /\ UNCHANGED dropped
      BY <1>2, <2>1 DEF LoadRow
    <2>3. TypeOK'
      BY <1>2, <2>2 DEF LoadRow, HookAt, TypeOK, Emitted
    <2> QED
      BY <1>2, <2>1, <2>2, <2>3 DEF LoadRow, HookAt, TypeOK, Bound, Emitted
  <1>3. CASE WriteRow(h)
    <2> DEFINE e == events[ev[h]]
    <2>1. /\ ev[h] \in Emitted /\ row # NoRow /\ copy[h] # NoRow /\ row.cust \in Click
          /\ row.status \in SubStatus /\ e.status \in SubStatus /\ ev[h] \in 0..MaxEvents
      <3>1. ev[h] \in Emitted /\ row # NoRow /\ copy[h] # NoRow
        BY <1>3 DEF WriteRow, Bound
      <3>2. e \in Event /\ ev[h] \in 0..MaxEvents
        BY <3>1, BillingAssumption DEF TypeOK, Emitted
      <3> QED
        BY <3>1, <3>2 DEF Bound, Event
    <2>2. /\ row' = [cust   |-> row.cust,
                     status |-> Written(copy[h].status, row.status, e.status),
                     tier   |-> Written(copy[h].tier, row.tier, PlanTier(e.status))]
          /\ Handled(h)
      BY <1>3, <2>1 DEF WriteRow
    <2>3. /\ Written(copy[h].status, row.status, e.status) \in SubStatus
          /\ Written(copy[h].tier, row.tier, PlanTier(e.status)) \in {"free", "premium"}
      BY <2>1 DEF Written, PlanTier, TypeOK, Row
    <2> HIDE DEF e
    <2>4. row' \in Row /\ row'.cust = row.cust /\ row'.status \in SubStatus
      BY <2>1, <2>2, <2>3 DEF Row
    <2>5. row' # NoRow
      BY <2>4 DEF NoRow, SubStatus, Entitled, None
    <2>6. last' \in 0..MaxEvents /\ orderly' \in BOOLEAN
      BY <1>3, <2>1, BillingAssumption DEF WriteRow, TypeOK
    <2>7. UNCHANGED <<clickvars, stripe, events, ledger, fails, dropped, acked, ev>>
      BY <1>3, <2>2 DEF WriteRow, Handled
    <2>8. hook' = [hook EXCEPT ![h] = "handled"] /\ copy' = [copy EXCEPT ![h] = NoRow]
      BY <2>2 DEF Handled, HookAt
    <2>9. TypeOK'
      BY <1>0, <2>4, <2>6, <2>7, <2>8 DEF TypeOK, Emitted
    <2>10. Bound'
      BY <2>1, <2>4, <2>5, <2>7, <2>8 DEF Bound, TypeOK, Emitted
    <2> QED
      BY <2>7, <2>9, <2>10
  <1>4. ASSUME NEW answered \in SUBSET Emitted, Answer(h, answered),
               UNCHANGED <<row, clickvars, stripe, events, dropped, orderly, last>>,
               ledger' \subseteq Emitted, fails' \in 0..MaxFails
        PROVE  TypeOK' /\ Bound' /\ dropped' = dropped
    <2>1. /\ hook' = [hook EXCEPT ![h] = "idle"] /\ acked' = acked \cup answered
          /\ ev' = [ev EXCEPT ![h] = 0] /\ copy' = [copy EXCEPT ![h] = NoRow]
      BY <1>4 DEF Answer, HookAt
    <2>2. TypeOK'
      BY <1>0, <1>4, <2>1 DEF TypeOK, Emitted
    <2>3. Bound'
      BY <1>4, <2>1 DEF Bound, TypeOK, Emitted
    <2> QED
      BY <1>4, <2>2, <2>3
  <1>5. CASE MarkProcessed(h)
    <2>1. ev[h] \in Emitted /\ ledger' \subseteq Emitted
      BY <1>5 DEF MarkProcessed, Bound, TypeOK
    <2>2. fails' \in 0..MaxFails
      BY <1>5, BillingAssumption DEF MarkProcessed, TypeOK
    <2>3. Answer(h, {}) \/ Answer(h, {ev[h]})
      BY <1>5 DEF MarkProcessed
    <2> QED
      BY <1>4, <1>5, <2>1, <2>2, <2>3 DEF MarkProcessed
  <1>6. CASE FailHook(h)
    <2>1. fails' \in 0..MaxFails /\ Answer(h, {})
      BY <1>6, BillingAssumption DEF FailHook, TypeOK
    <2> QED
      BY <1>4, <1>6, <2>1 DEF FailHook, TypeOK
  <1> QED
    BY <1>1, <1>2, <1>3, <1>5, <1>6 DEF HookStep

(* Every step keeps types and bonds and drops no event.                    *)
LEMMA StepKeeps ==
  ASSUME TypeOK, Bound, [Next]_vars
  PROVE  TypeOK' /\ Bound' /\ dropped' = dropped
PROOF
  <1>1. CASE \E k \in Click : ClickStep(k)
    BY <1>1, ClickKeeps DEF ClickStep, FindCustomer, SaveCustomer, OfferCheckout, hookvars
  <1>2. CASE \E k \in Click : StripeStep(k)
    BY <1>2, StripeKeeps DEF StripeStep, Pay, Renew, Cancel, hookvars
  <1>3. CASE \E h \in Delivery : Deliver(h) \/ HookStep(h) \/ FailHook(h)
    BY <1>3, HookKeeps
  <1>4. CASE UNCHANGED vars
    BY <1>4 DEF vars, clickvars, hookvars, TypeOK, Bound, Emitted
  <1> QED
    BY <1>1, <1>2, <1>3, <1>4 DEF Next, ClickStep, StripeStep

(* And they hold at the start.                                             *)
LEMMA InitKeeps ==
  ASSUME Init
  PROVE  TypeOK /\ Bound /\ NoEventDropped
PROOF
  <1>1. events \in Seq(Event) /\ Len(events) = 0 /\ Emitted = {}
    BY DEF Init, Emitted
  <1>2. NoRow \in Row
    BY DEF Row, NoRow
  <1>3. row = NoRow /\ ledger = {} /\ acked = {} /\ dropped = {} /\ fails = 0 /\ orderly = TRUE
        /\ last = 0
    BY DEF Init
  <1>4. /\ click = [k \in Click |-> "idle"] /\ cust = [k \in Click |-> None]
        /\ stripe = [k \in Click |-> None] /\ hook = [h \in Delivery |-> "idle"]
        /\ ev = [h \in Delivery |-> 0] /\ copy = [h \in Delivery |-> NoRow]
    BY DEF Init
  <1>5. TypeOK
    BY <1>1, <1>2, <1>3, <1>4, BillingAssumption DEF TypeOK
  <1>6. Bound
    BY <1>1, <1>3, <1>4 DEF Bound
  <1> QED
    BY <1>3, <1>5, <1>6 DEF NoEventDropped

(* In every reachable state the variables have their types.                *)
THEOREM TypeCorrect == Spec => []TypeOK
PROOF
  <1>1. Init => TypeOK /\ Bound
    BY InitKeeps
  <1>2. TypeOK /\ Bound /\ [Next]_vars => (TypeOK /\ Bound)'
    BY StepKeeps
  <1> QED
    BY <1>1, <1>2, PTL DEF Spec

(* However the first requests race, no event about a customer Stripe bills *)
(* is marked processed without having found the user's row.                *)
THEOREM NoEventDroppedAlways == Spec => []NoEventDropped
PROOF
  <1> DEFINE Inv == TypeOK /\ Bound /\ NoEventDropped
  <1>1. Init => Inv
    BY InitKeeps
  <1>2. Inv /\ [Next]_vars => Inv'
    BY StepKeeps DEF NoEventDropped
  <1> QED
    BY <1>1, <1>2, PTL DEF Spec
-----------------------------------------------------------------------------
(* While no event overtook or overlapped another.                          *)

(* Stripe's status is that of its last event; what is marked or handled    *)
(* has been applied; and the row shows the last event applied.             *)
InOrder ==
  /\ Emitted # {} => stripe[row.cust] = events[Len(events)].status
  /\ orderly => /\ \A e \in ledger : e <= last
                /\ \A h \in Delivery : hook[h] = "handled" => ev[h] <= last
                /\ last <= Len(events)
                /\ last # 0 => /\ row.status = events[last].status
                               /\ row.tier = PlanTier(events[last].status)

(* Every step keeps that.                                                  *)
LEMMA InOrderStep ==
  ASSUME TypeOK, Bound, InOrder, Next
  PROVE  InOrder'
PROOF
  <1> USE DEF hookvars, clickvars
  <1>0. /\ Len(events) \in Nat /\ last \in Nat /\ Emitted = 1..Len(events)
        /\ \A h \in Delivery : ev[h] \in Nat
    BY DEF TypeOK, Emitted
  <1>1. CASE \E k \in Click : ClickStep(k)
    <2>1. PICK k \in Click : ClickStep(k)
      BY <1>1
    <2>2. UNCHANGED <<stripe, events, ledger, acked, hook, ev, orderly, last>>
      BY <2>1 DEF ClickStep, FindCustomer, SaveCustomer, OfferCheckout
    <2>3. row' = row \/ (row = NoRow /\ Emitted = {})
      BY <2>1 DEF ClickStep, FindCustomer, SaveCustomer, OfferCheckout, Bound
    <2>4. CASE row' = row
      BY <2>2, <2>4 DEF InOrder, Emitted
    <2>5. CASE Emitted = {}
      <3>1. Emitted' = {} /\ (orderly => last = 0)
        BY <1>0, <2>2, <2>5 DEF InOrder, Emitted
      <3> QED
        BY <2>2, <3>1 DEF InOrder
    <2> QED
      BY <2>3, <2>4, <2>5
  <1>2. CASE \E k \in Click : StripeStep(k)
    <2>1. PICK k \in Click : StripeStep(k)
      BY <1>2
    <2>2. PICK c \in Click, s \in SubStatus, new \in Seq(Event) :
             /\ row # NoRow /\ c = row.cust
             /\ stripe' = [stripe EXCEPT ![c] = s]
             /\ Emit(new) /\ Len(new) \in Nat \ {0} /\ new[Len(new)].status = s
             /\ \A i \in 1..Len(new) : new[i].cust = c
             /\ UNCHANGED <<row, clickvars, hookvars>>
      BY <2>1, StripeEmits
    <2>3. /\ Len(events') = Len(events) + Len(new)
          /\ \A e \in Emitted : events'[e] = events[e]
          /\ \A e \in Emitted' \ Emitted : events'[e] = new[e - Len(events)]
      BY <2>2, EmitTypes DEF TypeOK
    <2>4. events' \in Seq(Event) /\ Emitted' = 1..Len(events')
      BY <2>2, EmitTypes DEF TypeOK, Emitted
    <2>5. events'[Len(events')].status = s
      <3>1. Len(events') \in Emitted' \ Emitted /\ Len(events') - Len(events) = Len(new)
        BY <1>0, <2>2, <2>3, <2>4
      <3> QED
        BY <2>2, <2>3, <3>1
    <2>6. stripe'[row'.cust] = s
      BY <2>2 DEF TypeOK
    <2>7. orderly => last <= Len(events') /\ (last # 0 => events'[last] = events[last])
      BY <1>0, <2>2, <2>3 DEF InOrder
    <2> QED
      BY <2>2, <2>5, <2>6, <2>7 DEF InOrder
  <1>3. CASE \E h \in Delivery : WriteRow(h)
    <2>1. PICK h \in Delivery : WriteRow(h)
      BY <1>3
    <2> DEFINE e == events[ev[h]]
    <2>2. ev[h] \in Emitted /\ row # NoRow /\ copy[h] # NoRow
      BY <2>1 DEF WriteRow, Bound
    <2>3. /\ row' = [cust   |-> row.cust,
                     status |-> Written(copy[h].status, row.status, e.status),
                     tier   |-> Written(copy[h].tier, row.tier, PlanTier(e.status))]
          /\ Handled(h)
          /\ orderly' = (orderly /\ row = copy[h] /\ ev[h] \in {last, last + 1})
          /\ last' = IF orderly' THEN ev[h] ELSE 0
          /\ UNCHANGED <<clickvars, stripe, events, ledger, fails, dropped>>
      BY <2>1, <2>2 DEF WriteRow
    <2>4. hook' = [hook EXCEPT ![h] = "handled"] /\ UNCHANGED ev
      BY <2>3 DEF Handled, HookAt
    <2>5. Emitted' = Emitted /\ row'.cust = row.cust
      BY <2>3 DEF Emitted
    <2>6. ASSUME orderly'
          PROVE  /\ row'.status = e.status /\ row'.tier = PlanTier(e.status)
                 /\ last' = ev[h] /\ last <= last' /\ last' <= Len(events) /\ orderly
      <3>1. row = copy[h] /\ orderly /\ last' = ev[h] /\ ev[h] \in {last, last + 1}
        BY <2>3, <2>6
      <3>2. row'.status = e.status /\ row'.tier = PlanTier(e.status)
        BY <2>3, <3>1 DEF Written
      <3> QED
        BY <1>0, <2>2, <3>1, <3>2
    <2>7. ASSUME orderly', NEW f \in ledger PROVE f <= last'
      <3>1. f \in Nat /\ f <= last
        BY <1>0, <2>6, <2>7 DEF TypeOK, InOrder
      <3> QED
        BY <1>0, <2>6, <2>7, <3>1
    <2>8. ASSUME orderly', NEW g \in Delivery, hook'[g] = "handled" PROVE ev'[g] <= last'
      <3>1. CASE g = h
        BY <1>0, <2>4, <2>6, <2>8, <3>1
      <3>2. CASE g # h
        <4>1. ev[g] <= last
          BY <2>4, <2>6, <2>8, <3>2 DEF TypeOK, InOrder
        <4> QED
          BY <1>0, <2>4, <2>6, <2>8, <4>1
      <3> QED
        BY <3>1, <3>2
    <2>9. Emitted' # {} => stripe'[row'.cust] = events'[Len(events')].status
      BY <2>3, <2>5 DEF InOrder
    <2>10. orderly' => \A f \in ledger' : f <= last'
      BY <2>3, <2>7
    <2>11. orderly' => /\ last' <= Len(events')
                       /\ last' # 0 => /\ row'.status = events'[last'].status
                                       /\ row'.tier = PlanTier(events'[last'].status)
      BY <2>3, <2>6
    <2> HIDE DEF e
    <2> QED
      BY <2>8, <2>9, <2>10, <2>11 DEF InOrder
  <1>4. CASE \E h \in Delivery : Deliver(h) \/ LoadRow(h) \/ MarkProcessed(h) \/ FailHook(h)
    <2>1. PICK h \in Delivery : Deliver(h) \/ LoadRow(h) \/ MarkProcessed(h) \/ FailHook(h)
      BY <1>4
    <2>2. UNCHANGED <<row, stripe, events, orderly, last>>
      BY <2>1 DEF Deliver, LoadRow, MarkProcessed, FailHook
    <2>3. \A f \in ledger' : f \in ledger \/ (hook[h] = "handled" /\ f = ev[h])
      BY <2>1 DEF Deliver, LoadRow, MarkProcessed, FailHook
    <2>4. \A g \in Delivery : hook'[g] = "handled" => hook[g] = "handled" /\ ev'[g] = ev[g]
      <3>1. CASE Deliver(h)
        BY <3>1 DEF Deliver, HookAt, TypeOK
      <3>2. CASE LoadRow(h)
        <4>1. ev[h] \in Emitted /\ row # NoRow /\ events[ev[h]].cust = row.cust
          BY <3>2 DEF LoadRow, Bound
        <4> QED
          BY <3>2, <4>1 DEF LoadRow, HookAt, TypeOK
      <3>3. CASE MarkProcessed(h) \/ FailHook(h)
        <4>1. hook' = [hook EXCEPT ![h] = "idle"] /\ ev' = [ev EXCEPT ![h] = 0]
          BY <3>3 DEF MarkProcessed, FailHook, Answer, HookAt
        <4> QED
          BY <4>1 DEF TypeOK
      <3> QED
        BY <2>1, <3>1, <3>2, <3>3
    <2> QED
      BY <2>2, <2>3, <2>4 DEF InOrder, Emitted
  <1> QED
    BY <1>1, <1>2, <1>3, <1>4 DEF Next, ClickStep, StripeStep, HookStep

(* Duplicates, dead requests and lost answers do no harm: as long as no    *)
(* event overtook or overlapped another, once all are processed the row    *)
(* shows Stripe's status and the tier that belongs to it.                  *)
THEOREM OrderlyCacheIsExactAlways == Spec => []OrderlyCacheIsExact
PROOF
  <1> DEFINE Inv == TypeOK /\ Bound /\ InOrder
  <1>1. Init => Inv
    <2>1. ASSUME Init PROVE /\ Emitted = {} /\ ledger = {} /\ last = 0 /\ Len(events) = 0
                            /\ \A h \in Delivery : hook[h] = "idle"
      BY <2>1 DEF Init, Emitted
    <2>2. Init => InOrder
      BY <2>1 DEF InOrder
    <2> QED
      BY <2>2, InitKeeps
  <1>2. Inv /\ [Next]_vars => Inv'
    <2>1. CASE UNCHANGED vars
      BY <2>1, StepKeeps DEF InOrder, Emitted, vars, clickvars, hookvars
    <2>2. ASSUME Inv, Next PROVE Inv'
      BY <2>2, StepKeeps, InOrderStep
    <2> QED
      BY <2>1, <2>2, StepKeeps
  <1>3. Inv => OrderlyCacheIsExact
    <2>1. SUFFICES ASSUME Inv, orderly, ledger = Emitted, events # <<>>
                   PROVE  row.status = stripe[row.cust] /\ row.tier = PlanTier(row.status)
      BY DEF OrderlyCacheIsExact
    <2>2. Len(events) \in Nat \ {0} /\ Emitted = 1..Len(events) /\ last \in Nat
      BY <2>1 DEF TypeOK, Emitted
    <2>3. last = Len(events)
      <3>1. Len(events) \in ledger
        BY <2>1, <2>2
      <3> QED
        BY <2>1, <2>2, <3>1 DEF InOrder
    <2> QED
      BY <2>1, <2>2, <2>3 DEF InOrder
  <1> HIDE DEF Inv
  <1> QED
    BY <1>1, <1>2, <1>3, PTL DEF Spec
-----------------------------------------------------------------------------
(* Whatever overtakes what: Stripe is told to stop only what is in the     *)
(* ledger, so that nothing unprocessed is given up; the row's status is    *)
(* one Stripe reported; and premium was paid for.                          *)
AnsweredIsProcessed == acked \subseteq ledger
RowIsReported ==
  /\ row.status \in {None, "incomplete"} \cup {events[e].status : e \in Emitted}
  /\ row.tier = "premium" => \E e \in Emitted : events[e].status \in Entitled
OnlyWhatStripeTold == AnsweredIsProcessed /\ RowIsReported

(* Events are only added.                                                  *)
LEMMA MoreEvents ==
  ASSUME RowIsReported, row' = row, Emitted \subseteq Emitted', \A e \in Emitted : events'[e] = events[e]
  PROVE  RowIsReported'
PROOF
  BY DEF RowIsReported

(* The webhook writes what an event reports, or leaves it.                 *)
LEMMA HookReports ==
  ASSUME TypeOK, Bound, OnlyWhatStripeTold, NEW h \in Delivery, Deliver(h) \/ HookStep(h) \/ FailHook(h)
  PROVE  OnlyWhatStripeTold'
PROOF
  <1>0. events' = events /\ Emitted' = Emitted
    BY DEF Deliver, HookStep, LoadRow, WriteRow, MarkProcessed, FailHook, Emitted
  <1>1. AnsweredIsProcessed'
    <2>1. CASE Deliver(h)
      BY <2>1 DEF Deliver, OnlyWhatStripeTold, AnsweredIsProcessed
    <2>2. CASE LoadRow(h)
      BY <2>2 DEF LoadRow, OnlyWhatStripeTold, AnsweredIsProcessed
    <2>3. CASE WriteRow(h)
      <3>1. acked' = acked /\ ledger' = ledger
        BY <2>3 DEF WriteRow, Handled, Answer
      <3> QED
        BY <3>1 DEF OnlyWhatStripeTold, AnsweredIsProcessed
    <2>4. CASE MarkProcessed(h)
      <3>1. ledger' = ledger \cup {ev[h]} /\ acked' \subseteq acked \cup {ev[h]}
        BY <2>4 DEF MarkProcessed, Answer
      <3> QED
        BY <3>1 DEF OnlyWhatStripeTold, AnsweredIsProcessed
    <2>5. CASE FailHook(h)
      BY <2>5 DEF FailHook, Answer, OnlyWhatStripeTold, AnsweredIsProcessed
    <2> QED
      BY <2>1, <2>2, <2>3, <2>4, <2>5 DEF HookStep
  <1>2. RowIsReported'
    <2>1. CASE WriteRow(h)
      <3> DEFINE e == events[ev[h]]
      <3>1. ev[h] \in Emitted /\ copy[h] # NoRow
        BY <2>1 DEF WriteRow, Bound
      <3>2. row' = [cust   |-> row.cust,
                    status |-> Written(copy[h].status, row.status, e.status),
                    tier   |-> Written(copy[h].tier, row.tier, PlanTier(e.status))]
        BY <2>1, <3>1 DEF WriteRow
      <3>3. row'.status \in {row.status, e.status} /\ row'.tier \in {row.tier, PlanTier(e.status)}
        BY <3>2 DEF Written
      <3>4. PlanTier(e.status) = "premium" => e.status \in Entitled
        BY DEF PlanTier
      <3> QED
        BY <1>0, <3>1, <3>3, <3>4 DEF OnlyWhatStripeTold, RowIsReported
    <2>2. CASE ~WriteRow(h)
      <3>1. row' = row
        BY <2>2 DEF Deliver, HookStep, LoadRow, MarkProcessed, FailHook
      <3> QED
        BY <1>0, <3>1 DEF OnlyWhatStripeTold, RowIsReported
    <2> QED
      BY <2>1, <2>2
  <1> QED
    BY <1>1, <1>2 DEF OnlyWhatStripeTold

(* Whatever is lost, repeated or overtaken, no event is given up before it *)
(* is processed - the safety half of EventsAreProcessed - and the row      *)
(* never holds a status or a tier Stripe has not given cause for.          *)
THEOREM OnlyWhatStripeToldAlways == Spec => []OnlyWhatStripeTold
PROOF
  <1> DEFINE Inv == TypeOK /\ Bound /\ OnlyWhatStripeTold
  <1>1. Init => Inv
    <2>1. Init => OnlyWhatStripeTold
      BY DEF Init, OnlyWhatStripeTold, AnsweredIsProcessed, RowIsReported, NoRow
    <2> QED
      BY <2>1, InitKeeps
  <1>2. Inv /\ [Next]_vars => Inv'
    <2> SUFFICES ASSUME Inv, [Next]_vars PROVE OnlyWhatStripeTold'
      BY StepKeeps
    <2>1. ASSUME NEW k \in Click, ClickStep(k) PROVE OnlyWhatStripeTold'
      <3>1. UNCHANGED <<events, ledger, acked>>
        BY <2>1 DEF ClickStep, FindCustomer, SaveCustomer, OfferCheckout, hookvars
      <3>2. row' = row \/ (row'.status = "incomplete" /\ row'.tier = "free")
        BY <2>1 DEF ClickStep, FindCustomer, SaveCustomer, OfferCheckout
      <3> QED
        BY <3>1, <3>2 DEF OnlyWhatStripeTold, AnsweredIsProcessed, RowIsReported, Emitted
    <2>2. ASSUME NEW k \in Click, StripeStep(k) PROVE OnlyWhatStripeTold'
      <3>1. PICK new \in Seq(Event) : Emit(new) /\ UNCHANGED <<row, clickvars, hookvars>>
        BY <2>2, StripeEmits
      <3>2. Emitted \subseteq Emitted' /\ \A e \in Emitted : events'[e] = events[e]
        BY <3>1, EmitTypes DEF TypeOK
      <3>3. RowIsReported'
        BY <3>1, <3>2, MoreEvents DEF OnlyWhatStripeTold
      <3> QED
        BY <3>1, <3>3 DEF OnlyWhatStripeTold, AnsweredIsProcessed, hookvars
    <2>3. ASSUME NEW h \in Delivery, Deliver(h) \/ HookStep(h) \/ FailHook(h) PROVE OnlyWhatStripeTold'
      BY <2>3, HookReports
    <2>4. CASE UNCHANGED vars
      BY <2>4 DEF OnlyWhatStripeTold, AnsweredIsProcessed, RowIsReported, Emitted, vars, hookvars
    <2> QED
      BY <2>1, <2>2, <2>3, <2>4 DEF Next, ClickStep, StripeStep
  <1> QED
    BY <1>1, <1>2, PTL DEF Spec

=============================================================================
