------------------------------- MODULE Pricing -------------------------------
(***************************************************************************)
(* What a job costs and what it must sell for: the pure functions of       *)
(* packages/core that the estimate and margin workers call (estimating.ts, *)
(* price-bands.ts, margin.ts).                                             *)
(*                                                                         *)
(* Amounts are whole minor units.  A percentage is in units of 1/Whole     *)
(* (10^5 in the code: three decimals), a rate in units of 1/RateScale      *)
(* (10^8).  One deal is priced step by step: an estimate, then the search  *)
(* for a price that clears both rules.                                     *)
(***************************************************************************)
EXTENDS Integers, Sequences, FiniteSets

CONSTANTS
  Deals,      \* what evaluateMargin is asked about, the supplier's cost apart
  Offers,     \* lists of rate cards: channel and price, of the job's currency
  Bands,      \* samples of what accepted deliveries cost; <<>> is no band
  Whole, RateScale,
  None        \* no figure

Channels == {"in_house", "supplier", "ai_build"}
Percents == 0..Whole
Deal == [tools : Nat, percent : Percents, minimum : Nat \cup {None},
         buffer : Percents, minPercent : Percents, minHome : Nat,
         hourly : BOOLEAN, abroad : BOOLEAN, rate : Nat \ {0},
         inHouse : BOOLEAN, website : BOOLEAN]

ASSUME PricingAssumption ==
  /\ Deals \subseteq Deal
  /\ Offers \subseteq Seq([channel : Channels, price : Nat \cup {None}])
  /\ Bands \subseteq Seq(Nat)
  /\ Whole \in Nat \ {0} /\ RateScale \in Nat \ {0}
  /\ None \notin Nat

-----------------------------------------------------------------------------
\* Estimates.  The order of the figures never matters to them, so that a list of
\* figures is a function with any finite domain.
Count(f) == Cardinality(DOMAIN f)
Below(f, v) == {i \in DOMAIN f : f[i] < v}
UpTo(f, v) == {i \in DOMAIN f : f[i] <= v}

\* The n-th of the sorted figures: fewer than n are below it, n or more up to it.
Sorted(f) == [n \in 1..Count(f) |->
  CHOOSE v \in {f[i] : i \in DOMAIN f} :
    Cardinality(Below(f, v)) < n /\ n <= Cardinality(UpTo(f, v))]

\* Middle value of a non-empty list; the middle two are averaged, rounded down.
MedianMinor(f) ==
  LET t == Sorted(f)
      mid == Count(f) \div 2 IN
  IF Count(f) % 2 = 1 THEN t[mid + 1] ELSE (t[mid] + t[mid + 1]) \div 2

\* Quartile q of a non-empty list, between the closest ranks, rounded half up.
Quartile(f, q) ==
  LET t == Sorted(f)
      scaled == (Count(f) - 1) * q
      share == scaled % 4
      low == t[(scaled \div 4) + 1] IN
  IF share = 0 THEN low
  ELSE low + ((t[(scaled \div 4) + 2] - low) * share * 2 + 4) \div 8

Prices(cards, channel) ==
  [i \in {i \in DOMAIN cards : cards[i].channel = channel /\ cards[i].price # None}
     |-> cards[i].price]

FromCards(method, prices) ==
  LET t == Sorted(prices) IN
  [method |-> method, low |-> t[1], expected |-> MedianMinor(prices),
   high |-> t[Count(prices)]]

FromBand(sample) ==
  [method |-> "market_band", low |-> Quartile(sample, 1),
   expected |-> Quartile(sample, 2), high |-> Quartile(sample, 3)]

\* The first of the four methods that has a figure to stand on.
ChooseEstimate(deal, cards, sample) ==
  LET of(channel) == Prices(cards, channel) IN
  CASE deal.inHouse /\ Count(of("in_house")) > 0 -> FromCards("in_house", of("in_house"))
    [] Count(of("supplier")) > 0 /\ ~(deal.inHouse /\ Count(of("in_house")) > 0)
         -> FromCards("rate_card", of("supplier"))
    [] OTHER ->
         IF ~deal.hourly /\ sample # <<>> THEN FromBand(sample)
         ELSE IF deal.website /\ Count(of("ai_build")) > 0
              THEN FromCards("ai_build", of("ai_build"))
              ELSE None

-----------------------------------------------------------------------------
\* The margin.  Division rounds half away from zero.
DivRoundHalfUp(n, d) ==
  IF n < 0 THEN -((-n + d \div 2) \div d) ELSE (n + d \div 2) \div d

PercentOf(amount, percent) == DivRoundHalfUp(amount * percent, Whole)

ConvertMinor(amount, rate) == DivRoundHalfUp(amount * rate, RateScale)

FeeOn(price, deal) ==
  LET byPercent == PercentOf(price, deal.percent) IN
  IF deal.minimum # None /\ deal.minimum > byPercent THEN deal.minimum ELSE byPercent

MarginAt(price, deal, cost) ==
  price - FeeOn(price, deal) - cost - deal.tools
    - (IF deal.abroad THEN PercentOf(price, deal.buffer) ELSE 0)

MarginHome(margin, deal) == IF deal.abroad THEN ConvertMinor(margin, deal.rate) ELSE margin

\* Both rules: a share of the price, and, unless it is per hour, an amount at home.
Clears(price, deal, cost) ==
  LET margin == MarginAt(price, deal, cost) IN
  /\ margin >= PercentOf(price, deal.minPercent)
  /\ deal.hourly \/ MarginHome(margin, deal) >= deal.minHome

Slope(deal) ==
  Whole - deal.percent - (IF deal.abroad THEN deal.buffer ELSE 0) - deal.minPercent

FirstHigh(deal, cost) ==
  LET fixed == cost + deal.tools + (IF deal.minimum = None THEN 0 ELSE deal.minimum)
      scaled == (fixed + deal.minHome * 10) * Whole IN
  (scaled + Slope(deal) - 1) \div Slope(deal) + 1

-----------------------------------------------------------------------------
VARIABLES
  deal, cards, sample,   \* the inputs
  phase,
  estimate,              \* None, or the choice
  low, high,             \* the search's bounds
  answer                 \* the price found, or None

pricingVars == <<deal, cards, sample, phase, estimate, low, high, answer>>

PricingInit ==
  /\ deal \in Deals /\ cards \in Offers /\ sample \in Bands
  /\ phase = "estimate" /\ estimate = None
  /\ low = 0 /\ high = 0 /\ answer = None

Estimate ==
  /\ phase = "estimate"
  /\ estimate' = ChooseEstimate(deal, cards, sample)
  /\ phase' = IF estimate' = None THEN "unpriced" ELSE "bound"
  /\ UNCHANGED <<deal, cards, sample, low, high, answer>>

\* requiredPrice: no price clears when the percentages leave nothing; otherwise
\* a price that does is looked for, once further up, before the search.
Bound ==
  LET cost == estimate.expected
      first == FirstHigh(deal, cost) IN
  /\ phase = "bound"
  /\ \/ /\ Slope(deal) > 0
        /\ \E h \in {first, first * 100} :
             /\ Clears(h, deal, cost)
             /\ h = first \/ ~Clears(first, deal, cost)
             /\ high' = h
        /\ phase' = "search"
     \/ /\ Slope(deal) > 0 => ~Clears(first, deal, cost) /\ ~Clears(first * 100, deal, cost)
        /\ phase' = "priced"
        /\ UNCHANGED high
  /\ UNCHANGED <<deal, cards, sample, estimate, low, answer>>

Mid == (low + high) \div 2

\* Faulty variant: a price in the middle that does not clear is kept.
HalveOffByOne ==
  /\ phase = "search" /\ low < high
  /\ high' = IF Clears(Mid, deal, estimate.expected) THEN Mid ELSE high - 1
  /\ UNCHANGED <<deal, cards, sample, phase, estimate, low, answer>>

Halve ==
  /\ phase = "search" /\ low < high
  /\ IF Clears(Mid, deal, estimate.expected)
     THEN high' = Mid /\ UNCHANGED low
     ELSE low' = Mid + 1 /\ UNCHANGED high
  /\ UNCHANGED <<deal, cards, sample, phase, estimate, answer>>

Found ==
  /\ phase = "search" /\ low = high
  /\ answer' = high
  /\ phase' = "priced"
  /\ UNCHANGED <<deal, cards, sample, estimate, low, high>>

PricingNext == Estimate \/ Bound \/ Halve \/ Found

PricingSpec == PricingInit /\ [][PricingNext]_pricingVars

-----------------------------------------------------------------------------
Methods == {"in_house", "rate_card", "market_band", "ai_build"}
IsChoice(e) ==
  /\ e \in [method : Methods, low : Nat, expected : Nat, high : Nat]
  /\ e.low <= e.expected /\ e.expected <= e.high

\* Every variable keeps its type, and an estimate its order.
PricingTypeOK ==
  /\ deal \in Deals /\ cards \in Offers /\ sample \in Bands
  /\ phase \in {"estimate", "unpriced", "bound", "search", "priced"}
  /\ IF phase \in {"estimate", "unpriced"} THEN estimate = None ELSE IsChoice(estimate)
  /\ low \in Nat /\ high \in Nat
  /\ answer \in Nat \cup {None}

\* The search keeps a price that clears above one that does not, so the price
\* it ends with clears both rules and the next one down does not
\* (margin.ts:343 "The lowest whole price that clears both rules").
SearchBrackets ==
  LET cost == estimate.expected IN
  /\ phase = "search" =>
       /\ low <= high
       /\ Clears(high, deal, cost)
       /\ low > 0 => ~Clears(low - 1, deal, cost)
  /\ answer # None =>
       /\ Clears(answer, deal, cost)
       /\ answer > 0 => ~Clears(answer - 1, deal, cost)

\* Until the search begins its lower bound is nothing, and until it ends there is
\* no answer: with these the search's bracket survives every step (margin.ts:359).
PricingInv ==
  /\ PricingTypeOK /\ SearchBrackets
  /\ phase \in {"estimate", "unpriced", "bound"} => low = 0
  /\ phase # "priced" => answer = None

=============================================================================
