------------------------------- MODULE Templates -------------------------------
(***************************************************************************)
(* Bid templates and their A/B variants (routes/templates.ts, core         *)
(* templates.ts, migration 0030): the drafter takes the variant fewest     *)
(* bids were written from (workers/draft-bid.ts), and a variant's words    *)
(* are locked once a bid written from it has gone.                         *)
(*                                                                         *)
(* What a request or a drafter reads is used after other calls: the words  *)
(* a bid is written from are those before the model is called, the count   *)
(* of sends is the one before the update.                                  *)
(***************************************************************************)
EXTENDS Naturals, FiniteSets

CONSTANTS
  Variants,     \* of the template the jobs fall to, by category or as the general one
  Jobs,         \* jobs to be bid on
  Desks,        \* drafters at work at once
  Editors,      \* requests to change a variant, at most one in progress each
  MaxWordings,  \* bound: wordings of a variant
  NoVariant

ASSUME TemplatesAssumption ==
  /\ NoVariant \notin Variants
  /\ IsFiniteSet(Jobs) /\ Desks \in Nat /\ MaxWordings \in Nat \ {0}

VARIABLES
  wording,      \* the words of a variant; 0: there is no such variant
  on,           \* variants switched on
  steady,       \* history: on from the beginning, never switched
  bid,          \* bids: step, variant; `by`: the words, if a bid with them had gone before; or 0
  edit,         \* requests: the variant read, the words to be stored
  meanwhile     \* history: a bid of the variant went while a request had it in hand

templateVars == <<wording, on, steady, bid, edit, meanwhile>>

Wordings == 1..MaxWordings
NoBid == [step |-> "none", variant |-> NoVariant, by |-> 0]
NoEdit == [variant |-> NoVariant, words |-> 0]

TemplatesInit ==
  /\ \E there \in SUBSET Variants :
       /\ wording = [v \in Variants |-> IF v \in there THEN 1 ELSE 0]
       /\ on = there /\ steady = there
  /\ bid = [b \in Jobs |-> NoBid]
  /\ edit = [e \in Editors |-> NoEdit]
  /\ meanwhile = {}

\* Drafted from the variant, whatever becomes of the bid (one that is rejected stays queued
\* here); gone, as the view counts it.
WrittenFrom(v) ==
  Cardinality({b \in Jobs : bid[b].variant = v /\ bid[b].step \in {"queued", "sent"}})
SentFrom(v) == {b \in Jobs : bid[b].variant = v /\ bid[b].step = "sent"}

-----------------------------------------------------------------------------
\* Faulty variant: the order is turned round.
MostWritten == {v \in on : \A u \in on : WrittenFrom(v) >= WrittenFrom(u)}

\* Of those switched on the one the fewest bids were written from.
LeastWritten == {v \in on : \A u \in on : WrittenFrom(v) <= WrittenFrom(u)}

PickVariant(b) ==
  /\ bid[b].step = "none"
  /\ Cardinality({c \in Jobs : bid[c].step = "model"}) < Desks
  /\ \E v \in LeastWritten :
       bid' = [bid EXCEPT ![b] = [step |-> "model", variant |-> v,
                                  by |-> IF SentFrom(v) = {} THEN 0 ELSE wording[v]]]
  /\ UNCHANGED <<wording, on, steady, edit, meanwhile>>

\* The bid is stored for approval, or the drafter failed and the job starts over.
FinishDraft(b) ==
  /\ bid[b].step = "model"
  /\ \/ bid' = [bid EXCEPT ![b].step = "queued"]
     \/ bid' = [bid EXCEPT ![b] = NoBid]
  /\ UNCHANGED <<wording, on, steady, edit, meanwhile>>

InHand == {edit[e].variant : e \in Editors}

BidGoes(b) ==
  /\ bid[b].step = "queued"
  /\ bid' = [bid EXCEPT ![b].step = "sent"]
  /\ meanwhile' = meanwhile \cup ({bid[b].variant} \cap InHand)
  /\ UNCHANGED <<wording, on, steady, edit>>

-----------------------------------------------------------------------------
AddVariant(v) ==
  /\ wording[v] = 0
  /\ wording' = [wording EXCEPT ![v] = 1]
  /\ on' \in {on, on \cup {v}}
  /\ UNCHANGED <<steady, bid, edit, meanwhile>>

\* Faulty variant: only the words of a variant that is switched on are locked.
WordsLockedWhileOn(v) == v \in on /\ SentFrom(v) # {}

\* PATCH with new words reads the variant and its sends, and is refused if there are any ...
WordsLocked(v) == SentFrom(v) # {}

LoadVariant(e, v) ==
  /\ edit[e] = NoEdit /\ wording[v] # 0 /\ ~WordsLocked(v)
  /\ \E words \in Wordings \ {wording[v]} :
       edit' = [edit EXCEPT ![e] = [variant |-> v, words |-> words]]
  /\ UNCHANGED <<wording, on, steady, bid, meanwhile>>

\* ... and stores what it was sent, on the row as it is by then.
StoreVariant(e) ==
  /\ edit[e] # NoEdit
  /\ wording' = [wording EXCEPT ![edit[e].variant] = edit[e].words]
  /\ edit' = [edit EXCEPT ![e] = NoEdit]
  /\ UNCHANGED <<on, steady, bid, meanwhile>>

\* Faulty variant: a variant that is not there is switched.
SwitchAny(v) ==
  /\ on' = IF v \in on THEN on \ {v} ELSE on \cup {v}
  /\ steady' = steady \ {v}
  /\ UNCHANGED <<wording, bid, edit, meanwhile>>

\* Of the variant, or of its template.
Switch(v) ==
  /\ wording[v] # 0
  /\ on' = IF v \in on THEN on \ {v} ELSE on \cup {v}
  /\ steady' = steady \ {v}
  /\ UNCHANGED <<wording, bid, edit, meanwhile>>

TemplatesNext ==
  \/ \E b \in Jobs : PickVariant(b) \/ FinishDraft(b) \/ BidGoes(b)
  \/ \E v \in Variants : AddVariant(v) \/ Switch(v) \/ \E e \in Editors : LoadVariant(e, v)
  \/ \E e \in Editors : StoreVariant(e)

TemplatesSpec == TemplatesInit /\ [][TemplatesNext]_templateVars

-----------------------------------------------------------------------------
TemplatesTypeOK ==
  /\ wording \in [Variants -> 0..MaxWordings]
  /\ on \subseteq {v \in Variants : wording[v] # 0} /\ steady \subseteq on
  /\ bid \in [Jobs -> [step : {"none", "model", "queued", "sent"},
                       variant : Variants \cup {NoVariant}, by : 0..MaxWordings]]
  /\ edit \in [Editors -> [variant : Variants \cup {NoVariant}, words : 0..MaxWordings]]
  /\ meanwhile \subseteq Variants

\* "an even A/B split" (draft-bid.ts:134-140, D-064): of two variants that were on
\* all along, neither is ahead by more bids than there are drafters, although a bid
\* counts from when it is stored, not from when its variant is picked.
EvenSplit == \A u, v \in steady : WrittenFrom(v) <= WrittenFrom(u) + Desks

\* Once a bid written from a variant has gone, its words stand: whatever is picked
\* from then on is measured by the words it was written from
\* (routes/templates.ts:325-329).  Only a request that had the variant in hand while
\* a bid of it went can still change them.
MeasuredWordsStand == \A b \in Jobs :
  bid[b].by # 0 /\ bid[b].variant \notin meanwhile => wording[bid[b].variant] = bid[b].by

\* The rates of two variants can be compared: each had its share of the bids, and
\* each is the rate of one wording.
RatesCompare == EvenSplit /\ MeasuredWordsStand

-----------------------------------------------------------------------------
\* What carries EvenSplit: no more bids are at the model than there are drafters, and
\* with those a variant is no further ahead.
BeingDrafted == {b \in Jobs : bid[b].step = "model"}
TakenFrom(v) == {b \in Jobs : bid[b].variant = v}

SplitHolds ==
  /\ Cardinality(BeingDrafted) <= Desks
  /\ \A u, v \in steady : Cardinality(TakenFrom(v)) <= WrittenFrom(u) + Desks

\* What carries MeasuredWordsStand: a bid knows its words only after another has
\* gone, and a request in hand was there before the first one went.
MeasureHolds ==
  /\ \A b \in Jobs :
       /\ bid[b].step = "none" <=> bid[b].variant = NoVariant
       /\ bid[b].by # 0 => SentFrom(bid[b].variant) # {}
  /\ \A e \in Editors : edit[e] # NoEdit =>
       /\ edit[e].variant \in Variants /\ edit[e].words # 0
       /\ SentFrom(edit[e].variant) # {} => edit[e].variant \in meanwhile

TemplatesInv == TemplatesTypeOK /\ SplitHolds /\ MeasureHolds /\ RatesCompare

=============================================================================
