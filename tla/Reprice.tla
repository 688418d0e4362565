-------------------------------- MODULE Reprice --------------------------------
(***************************************************************************)
(* Suppliers' bids on a project of ours: the collector that brings them in *)
(* (collectSourcingBids in workers/sourcing.ts) and the worker that prices *)
(* the client's job again with each of them (workers/reprice.ts), also     *)
(* when a person asks for it (routes/sourcing.ts).                         *)
(*                                                                         *)
(* Each query commits on its own.  A job is named by the candidate and the *)
(* price it was added for, and prices the quote it finds.  The fee a quote *)
(* costs us goes by its amount and is left out.  One collector.            *)
(***************************************************************************)
EXTENDS Integers, FiniteSets

CONSTANTS
  Bids,         \* bids on the project; a candidate each
  Quotes,       \* what a bidder may ask
  NoQuote,
  MaxQuotes     \* bound: prices bidders ask, one after another

ASSUME RepriceAssumption ==
  /\ Bids # {} /\ Quotes # {} /\ NoQuote \notin Quotes
  /\ MaxQuotes \in Nat

VARIABLES
  asked, asks,      \* the bids as they stand at Freelancer.com; how often they changed
  quote,            \* supplier_candidates.quoted_price_minor
  latest,           \* the latest delivery_estimates row: its cost, whether it was judged
  collector,        \* step, bid, the price read
  jobs,             \* BullMQ's reprice jobs: state
  pricing,          \* the job at work: step, bid, name, the quote read
  missed            \* candidates whose price was not handed on, or not judged

repriceVars == <<asked, asks, quote, latest, collector, jobs, pricing, missed>>

NoEstimate == [cost |-> NoQuote, judged |-> FALSE]
Names == Bids \X Quotes
CollectorRests == [step |-> "idle", bid |-> CHOOSE b \in Bids : TRUE, price |-> NoQuote]
WorkerRests == [step |-> "idle", job |-> CHOOSE j \in Names : TRUE, cost |-> NoQuote]

RepriceInit ==
  /\ asked = [b \in Bids |-> NoQuote] /\ asks = 0
  /\ quote = [b \in Bids |-> NoQuote]
  /\ latest = [b \in Bids |-> NoEstimate]
  /\ collector = CollectorRests
  /\ jobs = [j \in Names |-> "none"]
  /\ pricing = WorkerRests
  /\ missed = {}

-----------------------------------------------------------------------------
Bid(b, q) ==
  /\ asks < MaxQuotes /\ q # asked[b]
  /\ asked' = [asked EXCEPT ![b] = q]
  /\ asks' = asks + 1
  /\ UNCHANGED <<quote, latest, collector, jobs, pricing, missed>>

\* An add whose id is taken is dropped; a job that is over may still hold its id,
\* and one at work may hold a quote from before.
AddJob(j) ==
  \/ /\ jobs[j] \in {"none", "over"}
     /\ jobs' = [jobs EXCEPT ![j] = "waiting"]
     /\ UNCHANGED missed
  \/ jobs[j] = "waiting" /\ UNCHANGED <<jobs, missed>>
  \/ jobs[j] = "over" /\ missed' = missed \cup {j[1]} /\ UNCHANGED jobs
  \/ /\ jobs[j] = "active"
     /\ missed' = IF pricing.cost = j[2] THEN missed ELSE missed \cup {j[1]}
     /\ UNCHANGED jobs

ReadBid(b) ==
  /\ collector.step = "idle" /\ asked[b] # NoQuote
  /\ collector' = [step |-> "upsert", bid |-> b, price |-> asked[b]]
  /\ UNCHANGED <<asked, asks, quote, latest, jobs, pricing, missed>>

\* Faulty variant: only a new candidate is handed on.
UpsertBidNewOnly ==
  LET b == collector.bid IN
  /\ collector.step = "upsert"
  /\ quote' = [quote EXCEPT ![b] = collector.price]
  /\ collector' = IF quote[b] = NoQuote THEN [collector EXCEPT !.step = "hand"] ELSE CollectorRests
  /\ UNCHANGED <<asked, asks, latest, jobs, pricing, missed>>

\* The candidate as it was is read, then it is written; nobody else writes it.
UpsertBid ==
  LET b == collector.bid IN
  /\ collector.step = "upsert"
  /\ quote' = [quote EXCEPT ![b] = collector.price]
  /\ collector' = IF quote[b] # collector.price THEN [collector EXCEPT !.step = "hand"]
                  ELSE CollectorRests
  /\ UNCHANGED <<asked, asks, latest, jobs, pricing, missed>>

HandBid ==
  /\ collector.step = "hand"
  /\ AddJob(<<collector.bid, collector.price>>)
  /\ collector' = CollectorRests
  /\ UNCHANGED <<asked, asks, quote, latest, pricing>>

\* What was written and not handed on is not handed on the next time either.
CollectorFails ==
  /\ collector.step # "idle"
  /\ missed' = IF collector.step = "hand" THEN missed \cup {collector.bid} ELSE missed
  /\ collector' = CollectorRests
  /\ UNCHANGED <<asked, asks, quote, latest, jobs, pricing>>

RequestReprice(b) ==
  /\ quote[b] # NoQuote
  /\ AddJob(<<b, quote[b]>>)
  /\ UNCHANGED <<asked, asks, quote, latest, collector, pricing>>

-----------------------------------------------------------------------------
\* The reprice worker takes one job at a time.
Done(j, given) ==
  /\ jobs' = [jobs EXCEPT ![j] = "over"]
  /\ pricing' = WorkerRests
  /\ missed' = CASE ~given -> missed \cup {j[1]}
                 [] given /\ pricing.cost = quote[j[1]] -> missed \ {j[1]}
                 [] OTHER -> missed
  /\ UNCHANGED <<asked, asks, quote, collector>>

OnlyPricing == UNCHANGED <<asked, asks, quote, collector, jobs, missed>>

\* Faulty variant: a worker takes a job while it has one.
LoadQuoteAtOnce(j) ==
  /\ jobs[j] = "waiting"
  /\ jobs' = [jobs EXCEPT ![j] = "active"]
  /\ pricing' = [step |-> "estimate", job |-> j, cost |-> quote[j[1]]]
  /\ UNCHANGED <<asked, asks, quote, latest, collector, missed>>

LoadQuote(j) ==
  /\ pricing.step = "idle" /\ jobs[j] = "waiting"
  /\ jobs' = [jobs EXCEPT ![j] = "active"]
  /\ pricing' = [step |-> "estimate", job |-> j, cost |-> quote[j[1]]]
  /\ UNCHANGED <<asked, asks, quote, latest, collector, missed>>

\* One estimate per candidate and cost.
StoreQuoteEstimate ==
  LET b == pricing.job[1] IN
  /\ pricing.step = "estimate"
  /\ \/ /\ latest[b].cost = pricing.cost /\ latest[b].judged
        /\ Done(pricing.job, TRUE) /\ UNCHANGED latest
     \/ /\ latest[b].cost = pricing.cost /\ ~latest[b].judged
        /\ pricing' = [pricing EXCEPT !.step = "judge"] /\ UNCHANGED latest /\ OnlyPricing
     \/ /\ latest[b].cost # pricing.cost
        /\ latest' = [latest EXCEPT ![b] = [cost |-> pricing.cost, judged |-> FALSE]]
        /\ pricing' = [pricing EXCEPT !.step = "judge"] /\ OnlyPricing

Judge ==
  LET b == pricing.job[1] IN
  /\ pricing.step = "judge"
  /\ latest' = [latest EXCEPT ![b].judged = TRUE]
  /\ Done(pricing.job, TRUE)

\* No job, budget, rules, fees or rate; the last attempt failed.
PricingEnds ==
  /\ pricing.step # "idle"
  /\ Done(pricing.job, FALSE)
  /\ UNCHANGED latest

\* A query fails, the rates are not reached, the process dies: from the start.
PricingRetried ==
  /\ pricing.step # "idle"
  /\ jobs' = [jobs EXCEPT ![pricing.job] = "waiting"]
  /\ pricing' = WorkerRests
  /\ UNCHANGED <<asked, asks, quote, latest, collector, missed>>

RepriceNext ==
  \/ \E b \in Bids : (\E q \in Quotes : Bid(b, q)) \/ ReadBid(b) \/ RequestReprice(b)
  \/ UpsertBid \/ HandBid \/ CollectorFails
  \/ \E j \in Names : LoadQuote(j)
  \/ StoreQuoteEstimate \/ Judge \/ PricingEnds \/ PricingRetried

RepriceSpec == RepriceInit /\ [][RepriceNext]_repriceVars

-----------------------------------------------------------------------------
\* Every variable keeps its type, and a job is active while the worker has it.
RepriceTypeOK ==
  /\ asked \in [Bids -> Quotes \cup {NoQuote}] /\ asks \in 0..MaxQuotes
  /\ quote \in [Bids -> Quotes \cup {NoQuote}]
  /\ latest \in [Bids -> [cost : Quotes \cup {NoQuote}, judged : BOOLEAN]]
  /\ collector \in [step : {"idle", "upsert", "hand"}, bid : Bids, price : Quotes \cup {NoQuote}]
  /\ jobs \in [Names -> {"none", "waiting", "active", "over"}]
  /\ pricing \in [step : {"idle", "estimate", "judge"}, job : Names, cost : Quotes \cup {NoQuote}]
  /\ missed \subseteq Bids
  /\ \A j \in Names : jobs[j] = "active" <=> pricing.step # "idle" /\ pricing.job = j

\* When everything is at rest the job's margin has been judged at each bidder's
\* present quote, in whatever order bids changed, were collected and priced
\* (sourcing.ts:447 "is priced against the job"), unless a process died between
\* a candidate and its job, the job's id was still held by one that is over or
\* works on an earlier quote, or the job ended without a judgement.
SettledAtQuote ==
  \A b \in Bids :
    /\ quote[b] # NoQuote /\ b \notin missed
    /\ ~(collector.step = "hand" /\ collector.bid = b)
    /\ \A q \in Quotes : jobs[<<b, q>>] \notin {"waiting", "active"}
    => latest[b] = [cost |-> quote[b], judged |-> TRUE]

-----------------------------------------------------------------------------
\* What carries it: a quote that was handed on has a job that waits, is being priced,
\* or is judged; and the worker judges what it stored.
AtHand(b) == collector.step = "hand" /\ collector.bid = b
AtWork(b) == pricing.step # "idle" /\ pricing.job[1] = b
QuotesFollow ==
  \A b \in Bids : quote[b] # NoQuote /\ b \notin missed /\ ~AtHand(b) =>
    \/ \E q \in Quotes : jobs[<<b, q>>] = "waiting"
    \/ AtWork(b) /\ pricing.cost = quote[b]
    \/ ~AtWork(b) /\ latest[b] = [cost |-> quote[b], judged |-> TRUE]

StepsHold ==
  /\ collector.step # "idle" => collector.price # NoQuote
  /\ collector.step = "hand" => collector.price = quote[collector.bid]
  /\ pricing.step # "idle" => pricing.cost # NoQuote
  /\ pricing.step = "judge" => latest[pricing.job[1]].cost = pricing.cost
  /\ \A b \in Bids : quote[b] = NoQuote => \A q \in Quotes : jobs[<<b, q>>] = "none"

RepriceInv == RepriceTypeOK /\ StepsHold /\ QuotesFollow /\ SettledAtQuote

=============================================================================
