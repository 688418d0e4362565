----------------------------- MODULE BidPromise -----------------------------
(***************************************************************************)
(* What the submission side of the product promises, without the queue,    *)
(* the worker and the counters that keep the promise:                      *)
(*                                                                         *)
(*  - a bid on the marketplace carries words somebody approved for that    *)
(*    bid (apps/workers/src/submit.ts, "Approval required");               *)
(*  - an account has at most one bid on a project (bid-placer.ts, E-05);   *)
(*  - the month's bids stay within the allowance the owner recorded        *)
(*    (packages/db/src/allowance.ts, ARB-042);                             *)
(*  - a bid recorded as submitted names a bid the marketplace has for the  *)
(*    same project, and is recorded once.                                  *)
(*                                                                         *)
(* BidSubmission implements this module (its property Promise).            *)
(***************************************************************************)
EXTENDS Integers, Sequences

CONSTANTS
  Bids,        \* the proposals
  ProjectOf,   \* the marketplace project each proposal bids on
  Words,       \* what a bid may say
  Allowance    \* bids the account may place in the month

VARIABLES
  consent,     \* the pairs <<bid, words>> somebody approved
  posted,      \* the bids on the marketplace, in the order they were placed
  recorded     \* per proposal, the marketplace bid it is recorded as, or 0

promiseVars == <<consent, posted, recorded>>

PostedOn(p) == {i \in DOMAIN posted : posted[i].project = p}

PromiseInit ==
  /\ consent = {}
  /\ posted = <<>>
  /\ recorded = [b \in Bids |-> 0]

Approve(b, v) ==
  /\ consent' = consent \cup {<<b, v>>}
  /\ UNCHANGED <<posted, recorded>>

Post(b, v) ==
  /\ <<b, v>> \in consent
  /\ PostedOn(ProjectOf[b]) = {}
  /\ Len(posted) < Allowance
  /\ posted' = Append(posted, [project |-> ProjectOf[b], bid |-> b, words |-> v])
  /\ UNCHANGED <<consent, recorded>>

Record(b, i) ==
  /\ recorded[b] = 0
  /\ i \in PostedOn(ProjectOf[b])
  /\ recorded' = [recorded EXCEPT ![b] = i]
  /\ UNCHANGED <<consent, posted>>

PromiseNext ==
  \/ \E b \in Bids, v \in Words : Approve(b, v) \/ Post(b, v)
  \/ \E b \in Bids, i \in DOMAIN posted : Record(b, i)

PromiseSpec == PromiseInit /\ [][PromiseNext]_promiseVars

=============================================================================
