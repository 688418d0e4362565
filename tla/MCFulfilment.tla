----------------------------- MODULE MCFulfilment -----------------------------
(***************************************************************************)
(* What comes after a bid is won, on small instances: the brief (Briefs),  *)
(* the posts it is sourced with (SourcingPosts), the bids they draw        *)
(* (Reprice) and the delivery orders (Delivery).  And what an office keeps *)
(* and looks at: what it holds of a client (Privacy), how far back it      *)
(* reads its inbox (InboxWindow), the wordings it bids with (Templates),   *)
(* the conversations page (ThreadPage), the radar page (Radar) and the     *)
(* subscription it pays (Subscription).                                    *)
(*                                                                         *)
(* The ten keep no state in common, so every behaviour of one alone is     *)
(* checked and no interleaving between them is needed: `part` says whose   *)
(* behaviour it is, and the others stay as they begin.                     *)
(***************************************************************************)
EXTENDS Briefs, SourcingPosts, Reprice, Delivery, Radar,
        Privacy, InboxWindow, Templates, ThreadPage, Subscription, TLC

CONSTANTS
  q1, q2, m1, m2, bare, ready,     \* questions, a client's messages, contents
  typed,                           \* what operators write
  p1, p2, v1, v2,                  \* posts and their words
  b1, b2, x, y, none,              \* bids and quotes
  o1, o2, k1, h1,                  \* orders, a milestone, a handover item
  r1, r2,                          \* requests, polls, deliveries, and tabs and buttons
                                   \* of a browser
  l1, t1, t2,                      \* a listing, tokens, threads
  n1, n2, n3,                      \* messages
  a1, a2, j1, j2, j3               \* variants of a template, jobs

VARIABLE part

office == <<privacyVars, windowVars, templateVars, pageVars, subscriptionVars>>
vars == <<part, briefsVars, postVars, repriceVars, deliveryVars, radarVars, office>>

\* Requests, polls, tabs, buttons and deliveries differ in name only.
Alike == Permutations({r1, r2})

\* Two states differ only if the state of the part at work does: there is one state the
\* others may begin in and they keep it.
StateAtWork ==
  <<part, CASE part = "briefs" -> briefsVars
            [] part = "posts" -> postVars
            [] part = "reprice" -> repriceVars
            [] part = "delivery" -> deliveryVars
            [] part = "radar" -> radarVars
            [] part = "privacy" -> privacyVars
            [] part = "window" -> windowVars
            [] part = "templates" -> templateVars
            [] part = "page" -> pageVars
            [] part = "subscription" -> subscriptionVars>>

MCTalk == [n \in {n1, n2, n3} |-> IF n = n3 THEN t2 ELSE t1]

\* One variant is there from the beginning, or two.
FirstVariants == on \in {{a1}, {a1, a2}}

Init ==
  /\ part \in {"briefs", "posts", "reprice", "delivery", "radar",
               "privacy", "window", "templates", "page", "subscription"}
  /\ BriefsInit /\ SourcingPostsInit /\ RepriceInit /\ DeliveryInit /\ RadarInit
  /\ part # "delivery" => sourcing = "open" /\ stage = "open"
  /\ owners \in IF part = "radar" THEN {NoToken, t1} ELSE {NoToken}
  /\ PrivacyInit /\ WindowInit /\ PageInit /\ SubscriptionInit
  /\ part # "subscription" => provider = [c \in Checkouts |-> "stripe"]
  /\ TemplatesInit /\ (IF part = "templates" THEN FirstVariants ELSE on = {})

Next ==
  \/ /\ part = "briefs" /\ BriefsNext
     /\ UNCHANGED <<part, postVars, repriceVars, deliveryVars, radarVars, office>>
  \/ /\ part = "posts" /\ SourcingPostsNext
     /\ UNCHANGED <<part, briefsVars, repriceVars, deliveryVars, radarVars, office>>
  \/ /\ part = "reprice" /\ RepriceNext
     /\ UNCHANGED <<part, briefsVars, postVars, deliveryVars, radarVars, office>>
  \/ /\ part = "delivery" /\ DeliveryNext
     /\ UNCHANGED <<part, briefsVars, postVars, repriceVars, radarVars, office>>
  \/ /\ part = "radar" /\ RadarNext
     /\ UNCHANGED <<part, briefsVars, postVars, repriceVars, deliveryVars, office>>
  \/ /\ UNCHANGED <<part, briefsVars, postVars, repriceVars, deliveryVars, radarVars>>
     /\ \/ /\ part = "privacy" /\ PrivacyNext
           /\ UNCHANGED <<windowVars, templateVars, pageVars, subscriptionVars>>
        \/ /\ part = "window" /\ WindowNext
           /\ UNCHANGED <<privacyVars, templateVars, pageVars, subscriptionVars>>
        \/ /\ part = "templates" /\ TemplatesNext
           /\ UNCHANGED <<privacyVars, windowVars, pageVars, subscriptionVars>>
        \/ /\ part = "page" /\ PageNext
           /\ UNCHANGED <<privacyVars, windowVars, templateVars, subscriptionVars>>
        \/ /\ part = "subscription" /\ SubscriptionNext
           /\ UNCHANGED <<privacyVars, windowVars, templateVars, pageVars>>

Spec == Init /\ [][Next]_vars

\* The module at work keeps its types and what its theorems rest on; the variables of
\* the others do not change.
FulfilmentInv ==
  /\ part = "briefs" => BriefsInv
  /\ part = "posts" => PostsInv
  /\ part = "reprice" => RepriceInv
  /\ part = "delivery" => DeliveryInv
  /\ part = "radar" => RadarInv
  /\ part = "privacy" => PrivacyInv
  /\ part = "window" => WindowInv
  /\ part = "templates" => TemplatesInv
  /\ part = "page" => PageInv
  /\ part = "subscription" => SubscriptionInv

=============================================================================
