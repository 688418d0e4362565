-------------------------- MODULE FulfilmentProofs ---------------------------
(***************************************************************************)
(* What comes after a bid is won and what an office keeps, side by side,   *)
(* the way MCFulfilment checks them: the invariants SourcingProofs and     *)
(* OfficeProofs prove one by one hold of whichever part is at work.        *)
(***************************************************************************)
EXTENDS MCFulfilment, SourcingProofs, OfficeProofs, TLAPS

-----------------------------------------------------------------------------
\* The ten side by side (MCFulfilment).

\* Each part begins with its own invariant.
LEMMA InitFulfilment == Init => FulfilmentInv
  <1> SUFFICES ASSUME Init PROVE FulfilmentInv
    OBVIOUS
  <1>1. BriefsInv /\ PostsInv /\ RepriceInv /\ DeliveryInv
    BY InitBriefs, InitPosts, InitReprice, InitDelivery DEF Init
  <1>2. RadarInv /\ PrivacyInv /\ WindowInv /\ TemplatesInv /\ PageInv /\ SubscriptionInv
    BY InitRadar, InitPrivacy, InitWindow, InitTemplates, InitPage, InitSubscription DEF Init
  <1> QED BY <1>1, <1>2 DEF FulfilmentInv

\* A step of one part keeps its invariant, and which part it is.
LEMMA NextFulfilment == FulfilmentInv /\ [Next]_vars => FulfilmentInv'
  <1> SUFFICES ASSUME FulfilmentInv, [Next]_vars PROVE FulfilmentInv'
    OBVIOUS
  <1>1. /\ part' = part
        /\ part = "briefs" => [BriefsNext]_briefsVars
        /\ part = "posts" => [SourcingPostsNext]_postVars
        /\ part = "reprice" => [RepriceNext]_repriceVars
        /\ part = "delivery" => [DeliveryNext]_deliveryVars
        /\ part = "radar" => [RadarNext]_radarVars
        /\ part = "privacy" => [PrivacyNext]_privacyVars
        /\ part = "window" => [WindowNext]_windowVars
        /\ part = "templates" => [TemplatesNext]_templateVars
        /\ part = "page" => [PageNext]_pageVars
        /\ part = "subscription" => [SubscriptionNext]_subscriptionVars
    BY DEF Next, vars, office
  <1>2. (part = "briefs" => BriefsInv') /\ (part = "posts" => PostsInv')
    BY <1>1, BriefsNextInv, NextPosts DEF FulfilmentInv
  <1>3. (part = "reprice" => RepriceInv') /\ (part = "delivery" => DeliveryInv')
    BY <1>1, NextReprice, NextDelivery DEF FulfilmentInv
  <1>4. (part = "radar" => RadarInv') /\ (part = "privacy" => PrivacyInv')
    BY <1>1, NextRadar, NextPrivacy DEF FulfilmentInv
  <1>5. (part = "window" => WindowInv') /\ (part = "templates" => TemplatesInv') /\ (part = "page" => PageInv')
    BY <1>1, NextWindow, NextTemplates, NextPage DEF FulfilmentInv
  <1>6. part = "subscription" => SubscriptionInv'
    BY <1>1, NextSubscription DEF FulfilmentInv
  <1> QED BY <1>1, <1>2, <1>3, <1>4, <1>5, <1>6 DEF FulfilmentInv

\* Whichever part is at work, and for all values of the constants, not those of the
\* run alone: the types of its variables and what its theorems rest on.
THEOREM FulfilmentInvariance == Spec => []FulfilmentInv
  BY InitFulfilment, NextFulfilment, PTL DEF Spec

=============================================================================
