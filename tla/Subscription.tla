----------------------------- MODULE Subscription -----------------------------
(***************************************************************************)
(* An organisation's subscription as the payment provider's notices move   *)
(* it (routes/billing.ts, packages/db/src/billing.ts), the daily sweep,    *)
(* and whether its plan holds (plan-usage.ts).                             *)
(*                                                                         *)
(* The provider sends a notice until it is answered 2xx and may send it    *)
(* again after that; two requests may be handled at once.  What a notice   *)
(* means is read first, at Paystack from Paystack itself and at Stripe     *)
(* from the notice; then a transaction takes its receipt, reads the        *)
(* subscription and writes it.                                             *)
(*                                                                         *)
(* One organisation, whose checkouts one owner pays.  Every checkout paid  *)
(* begins a subscription at its provider, and the organisation has one row *)
(* for all of them: Stripe's notices find it by the subscription, those of *)
(* Paystack by the customer, whichever subscription they are about.        *)
(***************************************************************************)
EXTENDS Integers, Sequences, FiniteSets

CONSTANTS
  Handlers,     \* requests that may be in progress at once
  MaxCheckouts, \* bound: checkouts the owner starts
  MaxNotices    \* bound: notices the providers send

ASSUME SubscriptionAssumption ==
  /\ IsFiniteSet(Handlers)
  /\ MaxCheckouts \in Nat /\ MaxNotices \in Nat

Checkouts == 1..MaxCheckouts
Providers == {"paystack", "stripe"}
Standings == {"none", "active", "attention", "ended"}
Statuses == {"none", "active", "past_due", "cancelled"}
Graces == {"none", "running", "over"}
\* A payment of the checkout, a later payment, a change of the subscription.
Kinds == {"checkout", "renewal", "change"}
Signals == {"activate", "paid", "payment_failed", "ended"}

VARIABLES
  provider,                        \* billing_checkouts.provider, by the currency
  checkout,                        \* billing_checkouts.status
  standing, notices,               \* how the providers see each subscription, what they sent
  subscription, converted,         \* subscriptions; attribution.converted_at
  receipts,                        \* billing_webhook_receipts
  handler,                         \* requests: step, notice, signal, the row read
  applied, disorder, doubled       \* what the properties read

providerVars == <<provider, standing, notices, doubled>>
subscriptionVars ==
  <<providerVars, checkout, subscription, converted, receipts, handler, applied, disorder>>

\* `of` is the checkout whose payment set the provider and the customer of the row.
Row == [status : Statuses, grace : Graces, of : 0..MaxCheckouts]
NoRow == [status |-> "none", grace |-> "none", of |-> 0]
Idle == [step |-> "idle", notice |-> 0, signal |-> "paid", row |-> NoRow]

SubscriptionInit ==
  /\ provider \in [Checkouts -> Providers]
  /\ checkout = [c \in Checkouts |-> "none"]
  /\ standing = [c \in Checkouts |-> "none"] /\ notices = <<>>
  /\ subscription = NoRow /\ converted = 0
  /\ receipts = {}
  /\ handler = [h \in Handlers |-> Idle]
  /\ applied = [n \in 1..MaxNotices |-> 0]
  /\ disorder = FALSE /\ doubled = FALSE

-----------------------------------------------------------------------------
\* An owner starts paying: refused while the row is in good or bad standing, not
\* while another checkout is open or paid.  The provider's page may not be reached.
StartCheckout(c) ==
  /\ checkout[c] = "none" /\ \A d \in Checkouts : d < c => checkout[d] # "none"
  /\ subscription.status \notin {"active", "past_due"}
  /\ \E status \in {"open", "failed"} : checkout' = [checkout EXCEPT ![c] = status]
  /\ UNCHANGED <<providerVars, subscription, converted, receipts, handler, applied, disorder>>

Subscribed(c) == standing[c] \in {"active", "attention"}

Send(c, kind, to) ==
  /\ Len(notices) < MaxNotices
  /\ notices' = Append(notices, [sub |-> c, kind |-> kind, standing |-> to])
  /\ standing' = [standing EXCEPT ![c] = to]
  /\ doubled' = (doubled \/ \E d \in Checkouts \ {c} : Subscribed(d))
  /\ UNCHANGED <<provider, checkout, subscription, converted, receipts, handler,
                 applied, disorder>>

\* The page of a checkout takes a payment whatever became of the others.
PayCheckout(c) == checkout[c] = "open" /\ standing[c] = "none" /\ Send(c, "checkout", "active")

Renew(c) == Subscribed(c) /\ provider[c] = "paystack" /\ Send(c, "renewal", "active")

ChangeStanding(c) ==
  Subscribed(c) /\ \E to \in {"active", "attention", "ended"} : Send(c, "change", to)

-----------------------------------------------------------------------------
\* A delivery, the first or another; one that has its receipt is answered at once.
Deliver(h, n) ==
  /\ handler[h].step = "idle"
  /\ n \in DOMAIN notices \ receipts
  /\ handler' = [handler EXCEPT ![h] = [Idle EXCEPT !.step = "read", !.notice = n]]
  /\ UNCHANGED <<providerVars, checkout, subscription, converted, receipts, applied, disorder>>

SignalOf(kind, seen) ==
  CASE kind = "checkout" -> "activate"
    [] kind = "renewal" -> "paid"
    [] kind = "change" /\ seen = "active" -> "paid"
    [] kind = "change" /\ seen = "attention" -> "payment_failed"
    [] kind = "change" /\ seen \notin {"active", "attention"} -> "ended"

\* Faulty variant: the notice's word is taken, at Paystack too.
MeaningAsSent(n) == SignalOf(notices[n].kind, notices[n].standing)

\* Paystack's changes are read from Paystack, as they are now.
Meaning(n) ==
  LET c == notices[n].sub IN
  SignalOf(notices[n].kind,
           IF provider[c] = "paystack" THEN standing[c] ELSE notices[n].standing)

ReadMeaning(h) ==
  /\ handler[h].step = "read"
  /\ handler' = [handler EXCEPT ![h].step = "settle",
                                ![h].signal = Meaning(handler[h].notice)]
  /\ UNCHANGED <<providerVars, checkout, subscription, converted, receipts, applied, disorder>>

\* The provider cannot be read, the transaction fails or the process dies: the
\* answer is not 2xx, nothing is written, and the notice comes again.
HandlerFails(h) ==
  /\ handler[h].step # "idle"
  /\ handler' = [handler EXCEPT ![h] = Idle]
  /\ UNCHANGED <<providerVars, checkout, subscription, converted, receipts, applied, disorder>>

\* Faulty variant: a receipt taken already is not noticed.
TakeReceiptAgain(h) ==
  /\ handler[h].step = "settle"
  /\ handler' = [handler EXCEPT ![h].step = "apply", ![h].row = subscription]
  /\ UNCHANGED <<providerVars, checkout, subscription, converted, receipts, applied, disorder>>

\* The transaction takes the receipt, waiting for another that has taken it and
\* not committed, and reads the row.
TakeReceipt(h) ==
  LET n == handler[h].notice IN
  /\ handler[h].step = "settle"
  /\ \A o \in Handlers \ {h} : ~(handler[o].step = "apply" /\ handler[o].notice = n)
  /\ handler' = [handler EXCEPT ![h] =
       IF n \in receipts THEN Idle ELSE [@ EXCEPT !.step = "apply", !.row = subscription]]
  /\ UNCHANGED <<providerVars, checkout, subscription, converted, receipts, applied, disorder>>

\* Is the row found by a notice about c?  Paystack's name the customer alone.
Matches(row, c) ==
  /\ row.of # 0 /\ provider[row.of] = provider[c]
  /\ provider[c] = "paystack" \/ row.of = c

\* Faulty variant: a payment does not bring a cancelled plan back.
NextStateStaysCancelled(row, signal, clock) ==
  CASE signal = "activate" \/ (signal = "paid" /\ row.status # "cancelled") ->
         [row EXCEPT !.status = "active", !.grace = "none"]
    [] signal = "ended" -> [row EXCEPT !.status = "cancelled", !.grace = "none"]
    [] signal = "paid" \/ row.status = "past_due" -> row
    [] OTHER -> [row EXCEPT !.status = "past_due", !.grace = clock]

\* A failed payment starts the clock, where the owner's settings have one.
NextState(row, signal, clock) ==
  CASE signal \in {"activate", "paid"} -> [row EXCEPT !.status = "active", !.grace = "none"]
    [] signal = "ended" -> [row EXCEPT !.status = "cancelled", !.grace = "none"]
    [] signal = "payment_failed" /\ row.status = "past_due" -> row
    [] OTHER -> [row EXCEPT !.status = "past_due", !.grace = clock]

\* A signal for a subscription that is not there is put down as skipped.
Apply(h) ==
  LET n == handler[h].notice
      c == notices[n].sub
      s == handler[h].signal
      row == handler[h].row
      moves == s = "activate" \/ Matches(row, c) IN
  /\ handler[h].step = "apply"
  /\ IF moves THEN \E clock \in {"none", "running"} :
       subscription' = [NextState(row, s, clock) EXCEPT
                          !.of = IF s = "activate" THEN c ELSE subscription.of]
     ELSE UNCHANGED subscription
  /\ checkout' = IF s = "activate" THEN [checkout EXCEPT ![c] = "completed"] ELSE checkout
  /\ converted' = IF s = "activate" THEN 1 ELSE converted
  /\ receipts' = receipts \cup {n}
  /\ applied' = [applied EXCEPT ![n] = @ + 1]
  /\ handler' = [handler EXCEPT ![h] = Idle]
  /\ disorder' =
       \/ disorder
       \/ \E o \in Handlers \ {h} : handler[o].step # "idle"
       \/ moves /\ \E m \in receipts : m > n /\
            (provider[c] = "stripe" \/ notices[n].kind # "change" \/ notices[m].sub # c)
  /\ UNCHANGED providerVars

-----------------------------------------------------------------------------
GraceRunsOut ==
  /\ subscription.grace = "running"
  /\ subscription' = [subscription EXCEPT !.grace = "over"]
  /\ UNCHANGED <<providerVars, checkout, converted, receipts, handler, applied, disorder>>

Sweep ==
  /\ subscription.status = "past_due" /\ subscription.grace = "over"
  /\ subscription' = [subscription EXCEPT !.status = "cancelled", !.grace = "none"]
  /\ UNCHANGED <<providerVars, checkout, converted, receipts, handler, applied, disorder>>

PlanHolds ==
  \/ subscription.status = "active"
  \/ subscription.status = "past_due" /\ subscription.grace # "over"

SubscriptionNext ==
  \/ \E c \in Checkouts :
       StartCheckout(c) \/ PayCheckout(c) \/ Renew(c) \/ ChangeStanding(c)
  \/ \E h \in Handlers :
       \/ \E n \in DOMAIN notices : Deliver(h, n)
       \/ ReadMeaning(h) \/ HandlerFails(h) \/ TakeReceipt(h) \/ Apply(h)
  \/ GraceRunsOut \/ Sweep

SubscriptionSpec == SubscriptionInit /\ [][SubscriptionNext]_subscriptionVars

-----------------------------------------------------------------------------
HandlerStates ==
  [step : {"idle", "read", "settle", "apply"}, notice : 0..MaxNotices,
   signal : Signals, row : Row]

Notices == [sub : Checkouts, kind : Kinds, standing : Standings]

SubscriptionTypeOK ==
  /\ provider \in [Checkouts -> Providers]
  /\ checkout \in [Checkouts -> {"none", "open", "failed", "completed"}]
  /\ standing \in [Checkouts -> Standings]
  /\ notices \in Seq(Notices) /\ Len(notices) <= MaxNotices
  /\ subscription \in Row /\ converted \in {0, 1}
  /\ receipts \subseteq DOMAIN notices
  /\ handler \in [Handlers -> HandlerStates]
  /\ \A h \in Handlers : handler[h].step # "idle" => handler[h].notice \in DOMAIN notices
  /\ applied \in [1..MaxNotices -> Nat]
  /\ disorder \in BOOLEAN /\ doubled \in BOOLEAN

\* A notice is applied once, however often it is delivered, also twice at once,
\* and whatever fails in between; and what is acknowledged has been applied
\* (routes/billing.ts settle: "a redelivery is applied once").
NoticeAppliedOnce ==
  \A n \in DOMAIN notices :
    /\ applied[n] <= 1
    /\ n \in receipts <=> applied[n] = 1

Settled ==
  /\ ~disorder
  /\ receipts = DOMAIN notices
  /\ \A h \in Handlers : handler[h].step = "idle"

\* When every notice has been handled, the plan is active only if a subscription
\* is, however many were paid at once; and as long as no two were, the row is as
\* the provider sees the one there is, in whatever order Paystack's changes came,
\* since its state is read from Paystack; payments, Stripe's notices and those of
\* another subscription must come in order, and no two may be handled at once
\* (routes/billing.ts paystackEvent, stripeEvent, settle).
MirrorsProvider ==
  Settled =>
  /\ subscription.status = "active" => \E c \in Checkouts : standing[c] = "active"
  /\ ~doubled =>
       /\ \A c \in Checkouts :
            /\ standing[c] = "active" => subscription.status = "active"
            /\ standing[c] = "attention" => subscription.status \in {"past_due", "cancelled"}
       /\ (\E c \in Checkouts : standing[c] = "ended") /\ (\A c \in Checkouts : ~Subscribed(c)) =>
            subscription.status = "cancelled" /\ ~PlanHolds

-----------------------------------------------------------------------------
\* What carries NoticeAppliedOnce from step to step: a notice between its receipt
\* and its commit is in one transaction, and the count is the receipt's.
ReceiptsAreExclusive ==
  /\ \A h \in Handlers : handler[h].step = "apply" =>
       /\ handler[h].notice \notin receipts
       /\ \A o \in Handlers :
            handler[o].step = "apply" /\ handler[o].notice = handler[h].notice => o = h
  /\ \A n \in 1..MaxNotices : applied[n] = IF n \in receipts THEN 1 ELSE 0

\* What carries MirrorsProvider.  A subscription is in the standing its last notice
\* tells, and while no two were live only the last one paid may be.
IsLast(n) == \A m \in DOMAIN notices : m > n => notices[m].sub # notices[n].sub
Untold(c) == \E n \in DOMAIN notices \ receipts : notices[n].sub = c /\ IsLast(n)

NoticesTellTheStanding ==
  /\ \A c \in Checkouts :
       \/ standing[c] = "none" /\ \A n \in DOMAIN notices : notices[n].sub # c
       \/ \E n \in DOMAIN notices :
            notices[n].sub = c /\ IsLast(n) /\ notices[n].standing = standing[c]
  /\ \A n \in DOMAIN notices :
       /\ notices[n].standing # "none"
       /\ notices[n].kind # "change" => notices[n].standing = "active"
  /\ ~doubled => \A c \in Checkouts : Subscribed(c) => c = notices[Len(notices)].sub

\* A notice follows a payment: that of its own subscription, while no two were live.
NoticesFollowPayments ==
  \A m \in DOMAIN notices : \E n \in 1..m :
    /\ notices[n].kind = "checkout"
    /\ \A k \in (n + 1)..m : notices[k].kind # "checkout"
    /\ ~doubled => notices[n].sub = notices[m].sub

\* A signal is what the notice means, unless a later one of the same subscription
\* is yet to be applied; and only a payment of a checkout activates.
SignalsAreCurrent ==
  \A h \in Handlers : handler[h].step \in {"settle", "apply"} =>
    LET n == handler[h].notice IN
    /\ handler[h].signal = "activate" <=> notices[n].kind = "checkout"
    /\ handler[h].signal = Meaning(n) \/ (~IsLast(n) /\ (disorder \/ Untold(notices[n].sub)))

\* While notices are handled one at a time, the row a transaction read is still of
\* the checkout it was; and that is the last whose payment was applied.
RowsAreCurrent ==
  ~disorder =>
  /\ \A h \in Handlers : handler[h].step = "apply" => handler[h].row.of = subscription.of
  /\ \A n \in receipts :
       notices[n].kind = "checkout" /\ (\A m \in receipts : m > n => notices[m].kind # "checkout")
       => subscription.of = notices[n].sub

Reflects(c) ==
  /\ standing[c] = "active" <=> subscription.status = "active"
  /\ standing[c] = "ended" => subscription.status = "cancelled"
  /\ standing[c] = "attention" => subscription.status \in {"past_due", "cancelled"}

\* The row is as the provider sees the subscription the latest notice applied was
\* about, if that notice found the row and nothing newer is to come.
RowFollows ==
  ~disorder =>
  \A n \in receipts :
    LET c == notices[n].sub IN
    (\A m \in receipts : m <= n) /\ Matches(subscription, c) /\ ~Untold(c) => Reflects(c)

\* An active row is that of an active subscription, or of one the news of which is to come.
ActiveIsPaid ==
  ~disorder /\ subscription.status = "active" =>
  \E c \in Checkouts : Matches(subscription, c) /\ (standing[c] = "active" \/ Untold(c))

SubscriptionInv ==
  /\ SubscriptionTypeOK
  /\ ReceiptsAreExclusive /\ NoticesTellTheStanding /\ NoticesFollowPayments
  /\ SignalsAreCurrent /\ RowsAreCurrent /\ RowFollows /\ ActiveIsPaid

=============================================================================
