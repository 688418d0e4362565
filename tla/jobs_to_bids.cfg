SPECIFICATION FairSpec
CONSTANTS
 f1 = f1
 u1 = u1
 none = none
 cheap = cheap
 rich = rich
 s1 = s1
 s2 = s2
 alice = alice
 bob = bob
 c1 = c1
 c2 = c2
 w1 = w1
 w2 = w2
 ann = ann
 ben = ben
 org1 = org1
 org2 = org2
 chat = chat
 code1 = code1
 code2 = code2
 click = click
 t1 = t1
 t2 = t2
 tg = tg
 Rows = {f1, u1}
 Upwork = {u1}
 Budgets = {cheap, rich}
 NoBudget = none
 Passing = {rich}
 Limit = 2
 Attempts = 2
 MaxRequests = 1
 MaxFaults = 1
 None = none
 Scanners = {s1, s2}
 Intervals = {60, 120}
 MaxOrders = 3
 MaxUpsets = 1
 Whole = 100
 RateScale = 2
 Deals <- MCDeals
 Offers <- MCOffers
 Bands <- MCBands
 Users = {alice, bob}
 Nobody = none
 Callbacks = {c1, c2}
 Workers = {w1, w2}
 MaxStarts = 2
 People = {ann, ben}
 Organisations = {org1, org2}
 Chats = {chat}
 Codes = {code1, code2}
 Clicks = {click}
 Changers = {t1, t2}
 Updates = {tg}
 Absent = none
 MaxChanges = 3
INVARIANTS
 JobsInv
 OneJudgementPerJob
 UsageCoversWork
 BidPricedAsJudged
 ChainUnbroken
 SearchBrackets
 TokenActsAsAccount
 OwnerRemains
 ChatDecisionsAllowed
PROPERTIES
 ChainSettles
 SchedulesFollow
 FoundedOutside
CHECK_DEADLOCK FALSE
