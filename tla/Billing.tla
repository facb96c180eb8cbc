------------------------------ MODULE Billing -------------------------------
(***************************************************************************)
(* One candidate's subscription: the checkout requests that create the     *)
(* Stripe customer and its row in user_subscriptions, Stripe itself        *)
(* (external), and the webhook that copies Stripe's state into the row,    *)
(* with the ledger of processed events.                                    *)
(*                                                                         *)
(* Stripe delivers every event until it is answered with 200, at least     *)
(* once, in any order, and several at a time.  A customer is named by the  *)
(* request that created it, an event by its position in Stripe's history.  *)
(***************************************************************************)
EXTENDS Naturals, Sequences, FiniteSets

CONSTANTS
  Click,      \* POST /api/billing/checkout-session requests
  Delivery,   \* webhook requests that may run at the same time
  MaxEvents,  \* bound: events Stripe emits
  MaxFails    \* bound: webhook requests that die or whose answer is lost

ASSUME BillingAssumption == MaxEvents \in Nat /\ MaxFails \in Nat

Entitled  == {"active", "trialing"}
SubStatus == Entitled \cup {"incomplete", "past_due", "canceled"}

(* Fault: the raw status is stored as the tier.                            *)
PlanTier_Raw(s) == s

PlanTier(s) == IF s \in Entitled THEN "premium" ELSE "free"

None  == "none"
NoRow == [cust |-> None, status |-> None, tier |-> "free"]
Kind  == {"checkout.session.completed", "customer.subscription.updated",
          "customer.subscription.deleted"}

VARIABLES
  row,      \* the user's user_subscriptions row
  ledger,   \* stripe_webhook_events
  click,    \* progress of each checkout request
  cust,     \* [Click -> the customer it uses]
  stripe,   \* [Click -> subscription status of that customer at Stripe]
  events,   \* all events Stripe has emitted
  acked,    \* those it has been answered 200 for
  hook,     \* [Delivery -> progress of a webhook request]
  ev,       \* [Delivery -> its event]
  copy,     \* [Delivery -> the row it loaded]
  fails,    \* webhook requests that died so far
  dropped,  \* history: subscription events handled without finding the row
  orderly,  \* history: no event overtook or overlapped another
  last      \* history: the last event applied, as long as they are orderly

clickvars == <<click, cust>>
hookvars  == <<ledger, acked, hook, ev, copy, fails, dropped, orderly, last>>
vars == <<row, clickvars, stripe, events, hookvars>>

Row == [cust : Click \cup {None}, status : SubStatus \cup {None}, tier : {"free", "premium"}]
Event == [kind : Kind, cust : Click, status : SubStatus]
Emitted == DOMAIN events

TypeOK ==
  /\ row \in Row
  /\ click \in [Click -> {"idle", "customer", "saved", "offered", "refused"}]
  /\ cust \in [Click -> Click \cup {None}]
  /\ stripe \in [Click -> SubStatus \cup {None}]
  /\ events \in Seq(Event) /\ Len(events) <= MaxEvents
  /\ ledger \subseteq Emitted /\ acked \subseteq Emitted /\ dropped \subseteq Emitted
  /\ hook \in [Delivery -> {"idle", "new", "loaded", "handled"}]
  /\ ev \in [Delivery -> Emitted \cup {0}]
  /\ copy \in [Delivery -> Row]
  /\ fails \in 0..MaxFails
  /\ orderly \in BOOLEAN /\ last \in 0..MaxEvents

Init ==
  /\ row = NoRow
  /\ click = [k \in Click |-> "idle"]
  /\ cust = [k \in Click |-> None]
  /\ stripe = [k \in Click |-> None]
  /\ events = <<>> /\ ledger = {} /\ acked = {} /\ dropped = {}
  /\ hook = [h \in Delivery |-> "idle"]
  /\ ev = [h \in Delivery |-> 0]
  /\ copy = [h \in Delivery |-> NoRow]
  /\ fails = 0 /\ orderly = TRUE /\ last = 0

-----------------------------------------------------------------------------
(* create_checkout_session_for_user.  A request that fails between two     *)
(* steps leaves what one that waits there forever leaves.                  *)

(* With a row the customer is reused, without one Stripe creates it.       *)
FindCustomer(k) ==
  /\ click[k] = "idle"
  /\ IF row # NoRow
       THEN /\ cust' = [cust EXCEPT ![k] = row.cust]
            /\ click' = [click EXCEPT ![k] = "saved"]
       ELSE /\ cust' = [cust EXCEPT ![k] = k]
            /\ click' = [click EXCEPT ![k] = "customer"]
  /\ UNCHANGED <<row, stripe, events, hookvars>>

(* Fault: a second customer is used although the row has another.          *)
SaveCustomer_OrUseIt(k) ==
  /\ click[k] = "customer"
  /\ row' = IF row = NoRow THEN [cust |-> k, status |-> "incomplete", tier |-> "free"] ELSE row
  /\ click' = [click EXCEPT ![k] = "saved"]
  /\ UNCHANGED <<cust, stripe, events, hookvars>>

(* user_id is unique: of two concurrent first requests one gets an error,  *)
(* and its customer is never used.                                         *)
SaveCustomer(k) ==
  /\ click[k] = "customer"
  /\ IF row = NoRow
       THEN /\ row' = [cust |-> k, status |-> "incomplete", tier |-> "free"]
            /\ click' = [click EXCEPT ![k] = "saved"]
       ELSE click' = [click EXCEPT ![k] = "refused"] /\ UNCHANGED row
  /\ UNCHANGED <<cust, stripe, events, hookvars>>

OfferCheckout(k) ==
  /\ click[k] = "saved"
  /\ click' = [click EXCEPT ![k] = "offered"]
  /\ UNCHANGED <<row, cust, stripe, events, hookvars>>

-----------------------------------------------------------------------------
(* Stripe (external).  Bound: one live subscription at a time.             *)

Emit(new) ==
  /\ Len(events) + Len(new) <= MaxEvents
  /\ events' = events \o new

Tell(kind, c, s) == [kind |-> kind, cust |-> c, status |-> s]

Live(c) == stripe[c] \in Entitled \cup {"past_due"}

Pay(k) ==
  /\ click[k] = "offered" /\ ~\E c \in Click : Live(c)
  /\ \E s \in Entitled :
       /\ stripe' = [stripe EXCEPT ![cust[k]] = s]
       /\ Emit(<<Tell("checkout.session.completed", cust[k], "active"),
                 Tell("customer.subscription.updated", cust[k], s)>>)
  /\ UNCHANGED <<row, clickvars, hookvars>>

Renew(c) ==
  /\ Live(c)
  /\ \E s \in {"active", "past_due"} \ {stripe[c]} :
       /\ stripe' = [stripe EXCEPT ![c] = s]
       /\ Emit(<<Tell("customer.subscription.updated", c, s)>>)
  /\ UNCHANGED <<row, clickvars, hookvars>>

Cancel(c) ==
  /\ Live(c)
  /\ stripe' = [stripe EXCEPT ![c] = "canceled"]
  /\ Emit(<<Tell("customer.subscription.deleted", c, "canceled")>>)
  /\ UNCHANGED <<row, clickvars, hookvars>>

-----------------------------------------------------------------------------
(* stripe_webhook and handle_webhook_event                                 *)

HookAt(h, s) == hook' = [hook EXCEPT ![h] = s]

Answer(h, answered) ==
  /\ HookAt(h, "idle")
  /\ acked' = acked \cup answered
  /\ ev' = [ev EXCEPT ![h] = 0]
  /\ copy' = [copy EXCEPT ![h] = NoRow]

(* Fault: the event is marked before it is handled.                        *)
Deliver_MarkFirst(h) ==
  /\ hook[h] = "idle"
  /\ \E e \in Emitted \ acked :
       IF e \in ledger
         THEN acked' = acked \cup {e} /\ UNCHANGED <<hook, ev, ledger>>
         ELSE /\ HookAt(h, "new") /\ ev' = [ev EXCEPT ![h] = e]
              /\ ledger' = ledger \cup {e} /\ UNCHANGED acked
  /\ UNCHANGED <<row, clickvars, stripe, events, copy, fails, dropped, orderly, last>>

(* The request begins with a look into the ledger.                         *)
Deliver(h) ==
  /\ hook[h] = "idle"
  /\ \E e \in Emitted \ acked :
       IF e \in ledger
         THEN acked' = acked \cup {e} /\ UNCHANGED <<hook, ev>>
         ELSE HookAt(h, "new") /\ ev' = [ev EXCEPT ![h] = e] /\ UNCHANGED acked
  /\ UNCHANGED <<row, clickvars, stripe, events, ledger, copy, fails, dropped, orderly, last>>

(* The completed session looks for the user's row, the other two for the   *)
(* customer's; these ignore a customer they do not know.                   *)
LoadRow(h) ==
  LET e == events[ev[h]] IN
  /\ hook[h] = "new"
  /\ IF e.kind = "checkout.session.completed" \/ row.cust = e.cust
       THEN HookAt(h, "loaded") /\ copy' = [copy EXCEPT ![h] = row] /\ UNCHANGED dropped
       ELSE HookAt(h, "handled") /\ dropped' = dropped \cup {ev[h]} /\ UNCHANGED copy
  /\ UNCHANGED <<row, clickvars, stripe, events, ledger, acked, ev, fails, orderly, last>>

(* An attribute equal to the loaded one is not part of the UPDATE.         *)
Written(old, now, new) == IF new = old THEN now ELSE new

Handled(h) ==
  /\ HookAt(h, "handled")
  /\ copy' = [copy EXCEPT ![h] = NoRow]
  /\ UNCHANGED <<acked, ev>>

WriteRow(h) ==
  LET e == events[ev[h]] IN
  /\ hook[h] = "loaded"
  /\ IF copy[h] = NoRow
       THEN IF row = NoRow
              THEN /\ row' = [cust |-> e.cust, status |-> "active", tier |-> "premium"]
                   /\ Handled(h)
              ELSE Answer(h, {}) /\ UNCHANGED row
       ELSE /\ row' = [cust   |-> row.cust,
                       status |-> Written(copy[h].status, row.status, e.status),
                       tier   |-> Written(copy[h].tier, row.tier, PlanTier(e.status))]
            /\ Handled(h)
  /\ orderly' = (orderly /\ row = copy[h] /\ ev[h] \in {last, last + 1})
  /\ last' = IF orderly' THEN ev[h] ELSE 0
  /\ UNCHANGED <<clickvars, stripe, events, ledger, fails, dropped>>

(* Fault: the answer goes out before the event is marked.                  *)
MarkProcessed_AfterAnswer(h) ==
  /\ hook[h] = "handled"
  /\ \/ ledger' = ledger \cup {ev[h]} /\ UNCHANGED fails
     \/ fails < MaxFails /\ fails' = fails + 1 /\ UNCHANGED ledger
  /\ Answer(h, {ev[h]})
  /\ UNCHANGED <<row, clickvars, stripe, events, dropped, orderly, last>>

(* The ledger's primary key refuses an event another request has marked.   *)
(* The answer may be lost.                                                 *)
MarkProcessed(h) ==
  /\ hook[h] = "handled"
  /\ \/ ev[h] \notin ledger /\ Answer(h, {ev[h]}) /\ UNCHANGED fails
     \/ ev[h] \notin ledger /\ fails < MaxFails /\ fails' = fails + 1 /\ Answer(h, {})
     \/ ev[h] \in ledger /\ Answer(h, {}) /\ UNCHANGED fails
  /\ ledger' = ledger \cup {ev[h]}
  /\ UNCHANGED <<row, clickvars, stripe, events, dropped, orderly, last>>

FailHook(h) ==
  /\ hook[h] # "idle" /\ fails < MaxFails
  /\ fails' = fails + 1
  /\ Answer(h, {})
  /\ UNCHANGED <<row, clickvars, stripe, events, ledger, dropped, orderly, last>>

HookStep(h) == LoadRow(h) \/ WriteRow(h) \/ MarkProcessed(h)

-----------------------------------------------------------------------------
Next ==
  \/ \E k \in Click : \/ FindCustomer(k) \/ SaveCustomer(k) \/ OfferCheckout(k)
                      \/ Pay(k) \/ Renew(k) \/ Cancel(k)
  \/ \E h \in Delivery : Deliver(h) \/ HookStep(h) \/ FailHook(h)

Spec == Init /\ [][Next]_vars

(* Stripe keeps delivering an event it has no answer to.                   *)
DeliverEvent(h, e) == Deliver(h) /\ (ev'[h] = e \/ e \in acked')

FairSpec ==
  /\ Spec
  /\ \A h \in Delivery : WF_vars(HookStep(h))
  /\ \A e \in 1..MaxEvents : SF_vars(\E h \in Delivery : DeliverEvent(h, e))

-----------------------------------------------------------------------------
(* A subscription event always finds the row: the customer is saved before *)
(* the checkout session exists, so no event about a paying customer is     *)
(* marked processed without an effect, even when first requests race.      *)
NoEventDropped == dropped = {}

(* Duplicates, dead requests and lost answers do no harm: as long as no    *)
(* event overtook or overlapped another, once all are processed the row    *)
(* shows Stripe's status and the tier that belongs to it.                  *)
OrderlyCacheIsExact ==
  orderly /\ ledger = Emitted /\ events # <<>> /\ (\A h \in Delivery : hook[h] = "idle")
    => row.status = stripe[row.cust] /\ row.tier = PlanTier(row.status)

(* Every event Stripe emits ends in the ledger.                            *)
EventsAreProcessed == []<>(ledger = Emitted)
=============================================================================
