-------------------------- MODULE MCBidSubmission --------------------------
(***************************************************************************)
(* Small instances of BidSubmission for TLC.                               *)
(***************************************************************************)
EXTENDS BidSubmission, TLC

CONSTANTS b1, b2, p1, p2, w1, w2

TwoProjects == (b1 :> p1) @@ (b2 :> p2)
OneProject == (b1 :> p1) @@ (b2 :> p1)

Tight == [bids |-> 1, slots |-> 1, plan |-> 1]
Roomy == [bids |-> 2, slots |-> 1, plan |-> 2]

NoEdits == (b1 :> 1) @@ (b2 :> 1)
EditFirst == (b1 :> 2) @@ (b2 :> 1)

WorkerSymmetry == Permutations({w1, w2})

=============================================================================
