SPECIFICATION Spec
CONSTANTS
 q1 = q1
 q2 = q2
 m1 = m1
 m2 = m2
 bare = bare
 ready = ready
 typed = typed
 p1 = p1
 p2 = p2
 v1 = v1
 v2 = v2
 b1 = b1
 b2 = b2
 x = x
 y = y
 none = none
 o1 = o1
 o2 = o2
 k1 = k1
 h1 = h1
 r1 = r1
 r2 = r2
 l1 = l1
 t1 = t1
 t2 = t2
 n1 = n1
 n2 = n2
 n3 = n3
 a1 = a1
 a2 = a2
 j1 = j1
 j2 = j2
 j3 = j3
 Questions = {q1, q2}
 Typed = {typed}
 Threshold = 2
 Replies = {m1}
 Contents = {bare, ready}
 Complete = {ready}
 BriefRequests = {r1, r2}
 MaxVersions = 2
 Posts = {p1, p2}
 ByHand = {p2}
 Words = {v1, v2}
 PostRequests = {r1, r2}
 MaxChanges = 6
 MaxProjects = 2
 Bids = {b1, b2}
 Quotes = {x, y}
 NoQuote = none
 MaxQuotes = 3
 Orders = {o1, o2}
 Milestones = {k1}
 Handover = {h1}
 Value = 2
 OrderRequests = {r1, r2}
 MaxRequested = 6
 MaxPaid = 3
 Tabs = {r1, r2}
 Feed = {l1}
 Hourly = {}
 Tokens = {t1, t2}
 NoToken = none
 MonthlyLimit = 2
 MaxSent = 2
 MaxLogged = 2
 MaxTries = 2
 Letters = {m1, m2}
 Asked = {q1}
 Unread = none
 Notes = {n1, n2, n3}
 Talk <- MCTalk
 Runs = {r1, r2}
 Lookback = 1
 Lag = 1
 MaxClock = 3
 Variants = {a1, a2}
 Jobs = {j1, j2, j3}
 Desks = 2
 Editors = {x}
 MaxWordings = 2
 NoVariant = none
 Talks = {t1, t2, n1}
 Briefed = {t1, t2}
 Presses = {r1, r2}
 Blank = none
 Handlers = {r1, r2}
 MaxCheckouts = 2
 MaxNotices = 3
SYMMETRY Alike
VIEW StateAtWork
INVARIANTS
 FulfilmentInv
 ProjectsWereApproved
 OneProjectPerPost
 SettledAtQuote
 ChosenWhileLive
 PaidJobIsMarkedPaid
 PageBidsOnce
 StorageIsCurrent
 NothingKeptOfClient
 NothingSlipsBy
 RatesCompare
 FormsAreOfCurrent
 NoticeAppliedOnce
 MirrorsProvider
PROPERTIES
 LockedBriefStands
 OperatorAnswersStand
CHECK_DEADLOCK FALSE
