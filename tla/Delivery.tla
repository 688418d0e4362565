------------------------------- MODULE Delivery -------------------------------
(***************************************************************************)
(* A job that is won: its supplier's delivery order (routes/delivery.ts,   *)
(* core/delivery.ts, migration 0026), the sourcing request the supplier    *)
(* was chosen on (shortlist in routes/sourcing.ts), its stage on the       *)
(* pipeline, and the client's payments (routes/payments.ts,                *)
(* core/payments.ts).                                                      *)
(*                                                                         *)
(* A request reads the order it changes and then writes the columns it     *)
(* changes, from what it read; each commits at READ COMMITTED.  One job,   *)
(* whose client pays in instalments of one unit in the job's currency;     *)
(* costs add up to the milestones' in every order the API accepts.         *)
(***************************************************************************)
EXTENDS Integers, FiniteSets

CONSTANTS
  Orders,          \* rows of delivery_orders
  Milestones,      \* of an order
  Handover,        \* items of its checklist
  Value,           \* the job's agreed value, in instalments
  OrderRequests,   \* requests that may be in progress at once
  MaxRequested,    \* bound: requests made
  MaxPaid          \* bound: instalments

ASSUME DeliveryAssumption ==
  /\ Orders # {}
  /\ Value \in Nat \ {0}
  /\ MaxRequested \in Nat /\ MaxPaid \in Nat

OrderStatuses ==
  {"absent", "draft", "assigned", "in_progress", "delivered", "accepted", "cancelled"}
MilestoneStatuses == {"pending", "delivered", "accepted"}
PipelineStages == {"open", "won", "in_delivery", "delivered", "paid"}
Acts == {"choose", "shortlist", "edit", "tick", "mark", "move", "stage", "pay"}
OnOrder == Acts \ {"stage", "pay"}

VARIABLES
  order,           \* the rows
  sourcing,        \* sourcing_requests.status
  stage,           \* pipeline_items.stage
  paid,            \* client payments
  req,             \* requests: act, order, what they read of it and of the stage
  requested,       \* how many there were
  crossed,         \* what two requests were in progress on at once
  movedOn          \* the stage was moved after the client had paid

deliveryVars == <<order, sourcing, stage, paid, req, requested, crossed, movedOn>>

NewOrder ==
  [status |-> "draft", done |-> {}, milestones |-> [m \in Milestones |-> "pending"]]
NoOrder == [NewOrder EXCEPT !.status = "absent"]
AnyOrder == CHOOSE o \in Orders : TRUE
Quiet == [act |-> "none", order |-> AnyOrder, saw |-> NoOrder, stage |-> "won", full |-> FALSE]

IsLive(row) == row.status \notin {"absent", "cancelled"}
LiveOrders == {o \in Orders : IsLive(order[o])}

DeliveryInit ==
  /\ order = [o \in Orders |-> NoOrder]
  /\ sourcing \in {"open", "shortlisting"}
  /\ stage \in {"open", "won"} /\ paid = 0
  /\ req = [r \in OrderRequests |-> Quiet] /\ requested = 0
  /\ crossed = {} /\ movedOn = FALSE

-----------------------------------------------------------------------------
\* core/delivery.ts.
Transitions ==
  [absent |-> {}, draft |-> {"assigned", "cancelled"},
   assigned |-> {"in_progress", "cancelled"}, in_progress |-> {"delivered", "cancelled"},
   delivered |-> {"accepted"}, accepted |-> {}, cancelled |-> {}]

MayMove(row, at, to) ==
  /\ to \in Transitions[row.status]
  /\ to = "assigned" => at \notin {"open"}
  /\ to = "in_progress" => row.done = Handover
  /\ to = "delivered" => \A m \in Milestones : row.milestones[m] # "pending"
  /\ to = "accepted" => \A m \in Milestones : row.milestones[m] = "accepted"

StageFor(to, now) ==
  CASE to = "in_progress" -> "in_delivery" [] to = "delivered" -> "delivered" [] OTHER -> now

\* Faulty variant: paid in full once more than the value has come in.
PaidMoreThanFull(sum) == sum > Value

\* core/payments.ts.
PaidInFull(sum) == sum >= Value

-----------------------------------------------------------------------------
\* What a request reads, and refuses by.
MayStart(act, o) ==
  CASE act = "choose"    -> /\ order[o].status = "absent" /\ LiveOrders = {}
                            /\ sourcing \in {"open", "shortlisting"}
    [] act = "shortlist" -> sourcing \in {"open", "shortlisting"}
    [] act \in {"edit", "tick"} -> order[o].status \in {"draft", "assigned"}
    [] act = "mark"      -> order[o].status \in {"in_progress", "delivered"}
    [] act = "move"      -> \E to \in OrderStatuses : MayMove(order[o], stage, to)
    [] act \in {"stage", "pay"} -> TRUE

Start(r, act, o) ==
  /\ req[r].act = "none" /\ requested < MaxRequested
  /\ MayStart(act, o)
  /\ act \in {"shortlist", "stage", "pay"} => o = AnyOrder
  /\ req' = [req EXCEPT ![r] =
       [act |-> act, order |-> o, saw |-> IF act \in {"tick", "mark", "move"} THEN order[o] ELSE NoOrder,
        stage |-> IF act \in {"move", "pay"} THEN stage ELSE Quiet.stage, full |-> FALSE]]
  /\ requested' = requested + 1
  /\ LET busy == {req[x].act : x \in OrderRequests} IN
     crossed' = crossed
       \cup (IF act \in OnOrder /\ busy \cap OnOrder # {} THEN {"order"} ELSE {})
       \cup (IF act = "pay" /\ busy \cap {"pay", "paying"} # {} THEN {"payment"} ELSE {})
  /\ UNCHANGED <<order, sourcing, stage, paid, movedOn>>

End(r) == req' = [req EXCEPT ![r] = Quiet]

\* Refused, or failed.
Refuse(r) ==
  /\ req[r].act # "none" /\ End(r)
  /\ UNCHANGED <<order, sourcing, stage, paid, requested, crossed, movedOn>>

OnlyOrder == UNCHANGED <<sourcing, stage, paid, requested, crossed, movedOn>>

MoveStage(to) ==
  /\ stage' = to
  /\ movedOn' = \/ movedOn
                \/ to # stage /\ (paid >= Value \/ \E x \in OrderRequests : req[x].act \in {"pay", "paying"})

-----------------------------------------------------------------------------
\* A draft order from a candidate's quote; the database allows one that is not
\* cancelled.
ChooseSupplier(r) ==
  LET o == req[r].order IN
  /\ req[r].act = "choose" /\ End(r)
  /\ LiveOrders = {} /\ order[o].status = "absent"
  /\ order' = [order EXCEPT ![o] = NewOrder]
  /\ sourcing' = "chosen"
  /\ UNCHANGED <<stage, paid, requested, crossed, movedOn>>

Shortlist(r) ==
  /\ req[r].act = "shortlist" /\ End(r)
  /\ sourcing' \in {"open", "shortlisting"}
  /\ UNCHANGED <<order, stage, paid, requested, crossed, movedOn>>

\* Cost, due date and milestones, each with any status.
EditOrder(r) ==
  /\ req[r].act = "edit" /\ End(r)
  /\ \E ms \in [Milestones -> MilestoneStatuses] :
       order' = [order EXCEPT ![req[r].order].milestones = ms]
  /\ OnlyOrder

\* The whole checklist is written, from the one read.
TickHandover(r) ==
  /\ req[r].act = "tick" /\ End(r)
  /\ \E h \in Handover, tick \in BOOLEAN :
       order' = [order EXCEPT ![req[r].order].done =
                   IF tick THEN req[r].saw.done \cup {h} ELSE req[r].saw.done \ {h}]
  /\ OnlyOrder

\* One that is accepted stays so; all of them are written, from those read.
MarkMilestone(r) ==
  LET ms == req[r].saw.milestones IN
  /\ req[r].act = "mark" /\ End(r)
  /\ \E m \in Milestones, s \in MilestoneStatuses :
       /\ ms[m] # "accepted"
       /\ order' = [order EXCEPT ![req[r].order].milestones = [ms EXCEPT ![m] = s]]
  /\ OnlyOrder

\* Faulty variant: a cancelled order leaves its request as it is.
MoveOrderKeepsRequest(r) ==
  LET o == req[r].order IN
  /\ req[r].act = "move" /\ End(r)
  /\ \E to \in OrderStatuses :
       /\ MayMove(req[r].saw, req[r].stage, to)
       /\ order' = [order EXCEPT ![o].status = to]
       /\ MoveStage(StageFor(to, stage))
  /\ UNCHANGED <<sourcing, paid, requested, crossed>>

\* Judged on what was read; the pipeline follows, and a request whose order is
\* cancelled is open again.
MoveOrder(r) ==
  LET o == req[r].order IN
  /\ req[r].act = "move" /\ End(r)
  /\ \E to \in OrderStatuses :
       /\ MayMove(req[r].saw, req[r].stage, to)
       /\ to = "cancelled" \/ LiveOrders \subseteq {o}
       /\ order' = [order EXCEPT ![o].status = to]
       /\ MoveStage(StageFor(to, stage))
       /\ sourcing' = IF to = "cancelled" /\ sourcing = "chosen" THEN "shortlisting" ELSE sourcing
  /\ UNCHANGED <<paid, requested, crossed>>

\* On the board, by hand.
MoveItem(r) ==
  /\ req[r].act = "stage" /\ End(r)
  /\ \E to \in PipelineStages : MoveStage(to)
  /\ UNCHANGED <<order, sourcing, paid, requested, crossed>>

\* The payments are summed in the transaction that adds one, which another's
\* are not part of before it commits.
SumPayments(r) ==
  /\ req[r].act = "pay"
  /\ req' = [req EXCEPT ![r].act = "paying",
                        ![r].full = PaidInFull(paid + 1) /\ req[r].stage # "paid"]
  /\ UNCHANGED <<order, sourcing, stage, paid, requested, crossed, movedOn>>

RecordPayment(r) ==
  /\ req[r].act = "paying" /\ paid < MaxPaid /\ End(r)
  /\ paid' = paid + 1
  /\ IF req[r].full THEN stage' = "paid" /\ movedOn' = FALSE
     ELSE UNCHANGED <<stage, movedOn>>
  /\ UNCHANGED <<order, sourcing, requested, crossed>>

DeliveryNext ==
  \E r \in OrderRequests :
    \/ \E act \in Acts, o \in Orders : Start(r, act, o)
    \/ Refuse(r) \/ ChooseSupplier(r) \/ Shortlist(r) \/ EditOrder(r) \/ TickHandover(r)
    \/ MarkMilestone(r) \/ MoveOrder(r) \/ MoveItem(r) \/ SumPayments(r) \/ RecordPayment(r)

DeliverySpec == DeliveryInit /\ [][DeliveryNext]_deliveryVars

-----------------------------------------------------------------------------
OrderRows ==
  [status : OrderStatuses, done : SUBSET Handover, milestones : [Milestones -> MilestoneStatuses]]
OrderRequestStates ==
  [act : Acts \cup {"none", "paying"}, order : Orders, saw : OrderRows,
   stage : PipelineStages, full : BOOLEAN]

\* Every variable keeps its type.
DeliveryTypeOK ==
  /\ order \in [Orders -> OrderRows]
  /\ sourcing \in {"open", "shortlisting", "chosen"}
  /\ stage \in PipelineStages /\ paid \in 0..MaxPaid
  /\ req \in [OrderRequests -> OrderRequestStates]
  /\ requested \in 0..MaxRequested
  /\ crossed \subseteq {"order", "payment"} /\ movedOn \in BOOLEAN

\* A job has at most one order that is not cancelled, whoever chooses, cancels
\* and moves at once; and, unless two requests crossed, its sourcing request is
\* "chosen" exactly while it has one, so another supplier can be chosen after a
\* cancellation and not before (delivery.ts:609 "reopens its sourcing request").
ChosenWhileLive ==
  /\ Cardinality(LiveOrders) <= 1
  /\ "order" \notin crossed => (sourcing = "chosen" <=> LiveOrders # {})

\* A job whose client has paid its value is marked paid, in whatever order
\* payments, moves and deliveries came, unless two payments crossed or the stage
\* was moved on after (or while) the payment came in (payments.ts
\* clientPaidInFull; delivery.ts:608 moves a paid job back).
PaidJobIsMarkedPaid ==
  /\ paid >= Value /\ ~movedOn /\ "payment" \notin crossed
  => stage = "paid"

-----------------------------------------------------------------------------
\* What carries ChosenWhileLive from step to step: there is one live order; and
\* while requests on orders come one at a time, what they read is still so.
OneLiveOrder == \A o1, o2 \in LiveOrders : o1 = o2

OrdersOneAtATime ==
  "order" \notin crossed =>
    /\ \A r1, r2 \in OrderRequests : req[r1].act \in OnOrder /\ req[r2].act \in OnOrder => r1 = r2
    /\ \A r \in OrderRequests :
         /\ req[r].act = "move" => req[r].saw = order[req[r].order]
         /\ req[r].act = "shortlist" => sourcing # "chosen"
    /\ sourcing = "chosen" <=> LiveOrders # {}

\* What carries PaidJobIsMarkedPaid: while payments come one at a time, the stage
\* a payment read is still so unless it was moved, and its sum is right.
PaymentsOneAtATime ==
  "payment" \notin crossed =>
    /\ \A r1, r2 \in OrderRequests :
         req[r1].act \in {"pay", "paying"} /\ req[r2].act \in {"pay", "paying"} => r1 = r2
    /\ \A r \in OrderRequests :
         /\ req[r].act \in {"pay", "paying"} /\ ~movedOn => req[r].stage = stage
         /\ req[r].act = "paying" =>
              req[r].full = (PaidInFull(paid + 1) /\ req[r].stage # "paid")

DeliveryInv ==
  /\ DeliveryTypeOK /\ OneLiveOrder /\ OrdersOneAtATime
  /\ PaymentsOneAtATime /\ PaidJobIsMarkedPaid

=============================================================================
