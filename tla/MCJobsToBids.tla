----------------------------- MODULE MCJobsToBids -----------------------------
(***************************************************************************)
(* What comes before a bid, on small instances: listings become drafts     *)
(* (Drafting) on the schedules of the scanners (Schedules), jobs get a     *)
(* price (Pricing), and the people and the accounts it all runs on         *)
(* (Members, MarketplaceAccounts).                                         *)
(*                                                                         *)
(* The five keep no state in common, so every behaviour of one alone is    *)
(* checked and no interleaving between them is needed: `part` says whose   *)
(* behaviour it is, and the others stay as they begin.                     *)
(***************************************************************************)
EXTENDS Drafting, Schedules, Pricing, MarketplaceAccounts, Members, TLC

CONSTANTS
  f1, u1, none, cheap, rich,   \* listings, budgets
  s1, s2,                      \* scanners
  alice, bob, c1, c2, w1, w2,  \* identities, callbacks, workers
  ann, ben, org1, org2,        \* people, organisations
  chat, code1, code2, click,
  t1, t2, tg                   \* transactions, an update of Telegram

VARIABLE part
vars == <<part, draftingVars, scheduleVars, pricingVars, accountsVars, memberVars>>

-----------------------------------------------------------------------------
\* One listing is new; which one differs between initial states.
OneRow == \E r \in Rows : rows = [x \in Rows |-> IF x = r THEN "absent" ELSE "purged"]
FirstRow == rows = [x \in Rows |-> IF x = f1 THEN "absent" ELSE "purged"]

Card(c, p) == [channel |-> c, price |-> p]
MCOffers ==
  {<<>>, <<Card("supplier", none)>>, <<Card("ai_build", 9)>>,
   <<Card("supplier", 10), Card("supplier", 3)>>,
   <<Card("in_house", 7), Card("supplier", 14), Card("in_house", 20), Card("in_house", 7)>>}
MCBands == {<<>>, <<9, 2>>, <<8, 3, 20>>, <<4, 40, 12, 9, 9>>}
MCDeals ==
  [tools : {2}, percent : {10, 33}, minimum : {none, 5}, buffer : {3},
   minPercent : {20, 60, 90}, minHome : {0, 40}, hourly : BOOLEAN, abroad : BOOLEAN,
   rate : {7}, inHouse : BOOLEAN, website : BOOLEAN]
FirstDeal ==
  /\ deal = [tools |-> 2, percent |-> 10, minimum |-> 5, buffer |-> 3, minPercent |-> 20,
             minHome |-> 0, hourly |-> FALSE, abroad |-> FALSE, rate |-> 7,
             inHouse |-> FALSE, website |-> FALSE]
  /\ cards = <<>> /\ sample = <<>>

\* Nothing is there yet, or Ann has founded an organisation and used up the codes.
FirstMember ==
  /\ founder[org2] = Absent /\ founder[org1] # ben
  /\ founder[org1] = Absent <=> code[code1].of = Absent

-----------------------------------------------------------------------------
Init ==
  /\ part \in {"drafting", "schedules", "pricing", "accounts", "members"}
  /\ DraftingInit /\ IF part = "drafting" THEN OneRow ELSE FirstRow
  /\ SchedulesInit
  /\ PricingInit /\ (part # "pricing" => FirstDeal)
  /\ AccountsInit
  /\ MembersInit /\ FirstMember /\ (part # "members" => founder[org1] = Absent)

Next ==
  \/ /\ part = "drafting" /\ DraftingNext
     /\ UNCHANGED <<part, scheduleVars, pricingVars, accountsVars, memberVars>>
  \/ /\ part = "schedules" /\ SchedulesNext
     /\ UNCHANGED <<part, draftingVars, pricingVars, accountsVars, memberVars>>
  \/ /\ part = "pricing" /\ PricingNext
     /\ UNCHANGED <<part, draftingVars, scheduleVars, accountsVars, memberVars>>
  \/ /\ part = "accounts" /\ AccountsNext
     /\ UNCHANGED <<part, draftingVars, scheduleVars, pricingVars, memberVars>>
  \/ /\ part = "members" /\ MembersNext
     /\ UNCHANGED <<part, draftingVars, scheduleVars, pricingVars, accountsVars>>

\* The sync of the schedules is itself on a schedule, and the queue runs the jobs it
\* has taken; in the other parts none of it takes place.
SchedulesFairness ==
  /\ WF_scheduleVars(part = "schedules" /\ SyncStep)
  /\ \A s \in Scanners : WF_scheduleVars(part = "schedules" /\ PollStep(s))

FairSpec == Init /\ [][Next]_vars /\ DraftingFairness /\ SchedulesFairness

\* The module at work keeps its types and what its theorems rest on; the variables of
\* the others do not change.
JobsInv ==
  /\ part = "drafting" => DraftingInv
  /\ part = "schedules" => SchedulesInv
  /\ part = "pricing" => PricingInv
  /\ part = "accounts" => AccountsInv
  /\ part = "members" => MembersInv

=============================================================================
