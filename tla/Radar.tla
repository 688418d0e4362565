-------------------------------- MODULE Radar ---------------------------------
(***************************************************************************)
(* The radar page (apps/web/src/radar.js): the owner places bids from the  *)
(* browser with a token of his own, and everything the page keeps is in    *)
(* the browser's localStorage.                                             *)
(*                                                                         *)
(* A tab reads the storage when it opens; from then on it works on its own *)
(* copy and writes whole keys back, so two tabs overwrite each other.  A   *)
(* request in flight outlives the dialog it was made from, but not the     *)
(* tab.  One account, one month; bids on the projects of `Feed`.           *)
(***************************************************************************)
EXTENDS Integers, Sequences, FiniteSets

CONSTANTS
  Tabs,          \* tabs of the browser
  Feed,          \* projects shown
  Hourly,        \* those paid by the hour
  Tokens,        \* personal access tokens
  NoToken,
  MonthlyLimit,  \* bids a month
  MaxSent,       \* bound: bids on the site
  MaxLogged,     \* bound: entries of the log
  MaxTries       \* bound: bids and checks begun

ASSUME RadarAssumption ==
  /\ Hourly \subseteq Feed /\ Feed # {}
  /\ NoToken \notin Tokens
  /\ MonthlyLimit \in Nat /\ MaxSent \in Nat /\ MaxLogged \in Nat /\ MaxTries \in Nat

VARIABLES
  kept,       \* localStorage: radar.log (newest first) and radar.token
  tab,        \* the tabs: open, and their copies of the two
  placing,    \* Place now: its step, project and token
  checking,   \* a token being checked: its step, the token, pasted or saved
  sent,       \* the account's bids on the site, and whose doing they were
  transit,    \* projects of requests given up that may yet arrive
  accepted,   \* tokens the site accepts
  tries,      \* how many bids and checks were begun
  heard,      \* bids the page has had an answer about
  owners,     \* the token the owner saved last, if he did not remove it
  overwrote,  \* keys written by a tab that had not seen what was there
  raced       \* projects looked up while another request for them was on its way

siteVars == <<sent, transit, accepted>>
pastVars == <<heard, owners, overwrote, raced>>
radarVars == <<kept, tab, placing, checking, siteVars, tries, pastVars>>

Saved(k, p) == [token |-> k, problem |-> p]
Nothing == Saved(NoToken, FALSE)
AtRest == [step |-> "idle", project |-> CHOOSE p \in Feed : TRUE, token |-> NoToken]
Unchecked == [step |-> "idle", token |-> NoToken, pasted |-> FALSE]
Closed == [open |-> FALSE, log |-> <<>>, token |-> Nothing]

Logged(log, p) == \E i \in DOMAIN log : log[i].project = p
SentOn(p) == {i \in DOMAIN sent : sent[i].project = p}

\* The browser may hold a token already.
RadarInit ==
  /\ \E k \in Tokens \cup {NoToken} : kept = [log |-> <<>>, token |-> Saved(k, FALSE)]
  /\ tab = [t \in Tabs |-> Closed]
  /\ placing = [t \in Tabs |-> AtRest]
  /\ checking = [t \in Tabs |-> Unchecked]
  /\ sent = <<>> /\ transit = {} /\ accepted = Tokens
  /\ tries = 0 /\ heard = {} /\ owners = kept.token.token /\ overwrote = {} /\ raced = {}

-----------------------------------------------------------------------------
\* Tabs.
OpenTab(t) ==
  /\ ~tab[t].open
  /\ tab' = [tab EXCEPT ![t] = [open |-> TRUE, log |-> kept.log, token |-> kept.token]]
  /\ UNCHANGED <<kept, placing, checking, siteVars, tries, pastVars>>

\* What a tab was doing is given up; a bid it was sending may be on its way.
GiveUp(t) ==
  /\ placing' = [placing EXCEPT ![t] = AtRest]
  /\ checking' = [checking EXCEPT ![t] = Unchecked]
  /\ transit' \in
       IF placing[t].step = "create" THEN {transit, transit \cup {placing[t].project}} ELSE {transit}

CloseTab(t) ==
  /\ tab[t].open
  /\ tab' = [tab EXCEPT ![t] = Closed]
  /\ GiveUp(t)
  /\ UNCHANGED <<kept, sent, accepted, tries, pastVars>>

\* The log is written whole, from the tab's copy.
Keep(t, log) ==
  /\ Len(log) <= MaxLogged
  /\ tab' = [tab EXCEPT ![t].log = log]
  /\ kept' = [kept EXCEPT !.log = log]
  /\ overwrote' = IF tab[t].log = kept.log THEN overwrote ELSE overwrote \cup {"log"}

AddEntry(t, p, bid) == Keep(t, <<[project |-> p, bid |-> bid]>> \o tab[t].log)

\* A bid's status or award, typed on the Bids tab.
UpdateBid(t) ==
  /\ tab[t].open /\ tab[t].log # <<>>
  /\ Keep(t, tab[t].log)
  /\ UNCHANGED <<placing, checking, siteVars, tries, heard, owners, raced>>

\* "I placed this bid": the page takes the owner's word.
LogByHand(t, p) ==
  /\ tab[t].open /\ placing[t].step # "confirm"
  /\ AddEntry(t, p, 0)
  /\ UNCHANGED <<placing, checking, siteVars, tries, heard, owners, raced>>

\* The log of a backup, here an older part of the log, takes its place (the token
\* is not in it), and the page is loaded again.
Import(t) ==
  /\ tab[t].open /\ placing[t].step # "confirm"
  /\ \E n \in 1..Len(kept.log) :
       LET older == SubSeq(kept.log, n + 1, Len(kept.log)) IN
       /\ kept' = [kept EXCEPT !.log = older]
       /\ tab' = [tab EXCEPT ![t].log = older, ![t].token = kept.token]
       /\ heard' = {b \in heard : \E i \in DOMAIN older : older[i].bid = b}
  /\ GiveUp(t)
  /\ UNCHANGED <<sent, accepted, tries, owners, overwrote, raced>>

-----------------------------------------------------------------------------
Begin == tries < MaxTries /\ tries' = tries + 1

\* Place now: offered on a project without a log entry, with a token at hand.
Ready(t) == tab[t].token.token # NoToken /\ ~tab[t].token.problem

PressPlace(t, p) ==
  /\ tab[t].open /\ placing[t].step = "idle"
  /\ Ready(t) /\ p \notin Hourly /\ ~Logged(tab[t].log, p)
  /\ Len(tab[t].log) < MonthlyLimit
  /\ placing' = [placing EXCEPT ![t] =
       [step |-> "confirm", project |-> p, token |-> tab[t].token.token]]
  /\ Begin
  /\ UNCHANGED <<kept, tab, checking, siteVars, pastVars>>

Confirm(t) ==
  /\ placing[t].step = "confirm"
  /\ \/ placing' = [placing EXCEPT ![t].step = "find"]
     \/ placing' = [placing EXCEPT ![t] = AtRest]
  /\ UNCHANGED <<kept, tab, checking, siteVars, tries, pastVars>>

Over(t) == placing' = [placing EXCEPT ![t] = AtRest]

\* Faulty variant: the bid is placed without looking for an earlier one.
FindNotAsked(t) ==
  /\ placing[t].step = "find" /\ placing[t].token \in accepted
  /\ placing' = [placing EXCEPT ![t].step = "create"]
  /\ UNCHANGED <<kept, tab, checking, siteVars, tries, pastVars>>

\* The earlier bid that is found goes into the log.
FindNothing(t) ==
  LET p == placing[t].project
      busy == \E u \in Tabs \ {t} : placing[u].step = "create" /\ placing[u].project = p IN
  /\ placing[t].step = "find" /\ placing[t].token \in accepted
  /\ SentOn(p) = {}
  /\ placing' = [placing EXCEPT ![t].step = "create"]
  /\ raced' = IF busy \/ p \in transit THEN raced \cup {p} ELSE raced
  /\ UNCHANGED <<kept, tab, checking, siteVars, tries, heard, owners, overwrote>>

FindEarlier(t) ==
  LET p == placing[t].project IN
  /\ placing[t].step = "find" /\ placing[t].token \in accepted
  /\ \E i \in SentOn(p) : AddEntry(t, p, i) /\ heard' = heard \cup {i}
  /\ Over(t)
  /\ UNCHANGED <<checking, siteVars, tries, owners, raced>>

Reach(p, by) ==
  /\ Len(sent) < MaxSent
  /\ sent' = Append(sent, [project |-> p, by |-> by])

CreateBid(t) ==
  LET p == placing[t].project IN
  /\ placing[t].step = "create" /\ placing[t].token \in accepted
  /\ Reach(p, "page")
  /\ AddEntry(t, p, Len(sent'))
  /\ heard' = heard \cup {Len(sent')}
  /\ Over(t)
  /\ UNCHANGED <<checking, transit, accepted, tries, owners, raced>>

\* Fifteen seconds without an answer, or one that is of no use: nothing is logged.
\* The bid may be on the site, or may arrive there later.
NoAnswer(t) ==
  LET p == placing[t].project IN
  /\ placing[t].step \in {"find", "create"}
  /\ \/ UNCHANGED <<sent, transit>>
     \/ placing[t].step = "create" /\ Reach(p, "page") /\ UNCHANGED transit
     \/ placing[t].step = "create" /\ transit' = transit \cup {p} /\ UNCHANGED sent
  /\ Over(t)
  /\ UNCHANGED <<kept, tab, checking, accepted, tries, pastVars>>

\* The token is written from the tab's copy; a tab that has not seen the saved
\* one puts its own in its place.
KeepToken(t, saved) ==
  /\ tab' = [tab EXCEPT ![t].token = saved]
  /\ kept' = [kept EXCEPT !.token = saved]

Unseen(t) ==
  IF tab[t].token.token = kept.token.token THEN overwrote ELSE overwrote \cup {"token"}

\* Faulty variant: the token the bid was pressed with is put back, marked.
DeniedAsPressed(t) ==
  /\ placing[t].step \in {"find", "create"} /\ placing[t].token \notin accepted
  /\ KeepToken(t, Saved(placing[t].token, TRUE))
  /\ overwrote' = Unseen(t)
  /\ Over(t)
  /\ UNCHANGED <<checking, siteVars, tries, heard, owners, raced>>

\* HTTP 401: the token the tab holds by now, if any, is marked.
Denied(t) ==
  /\ placing[t].step \in {"find", "create"} /\ placing[t].token \notin accepted
  /\ IF tab[t].token = Nothing THEN UNCHANGED <<kept, tab, overwrote>>
     ELSE /\ KeepToken(t, [tab[t].token EXCEPT !.problem = TRUE])
          /\ overwrote' = Unseen(t)
  /\ Over(t)
  /\ UNCHANGED <<checking, siteVars, tries, heard, owners, raced>>

-----------------------------------------------------------------------------
\* The token: pasted, or checked again; the buttons are off meanwhile.
AskWhose(t, k, pasted) ==
  /\ tab[t].open /\ checking[t].step = "idle" /\ placing[t].step # "confirm"
  /\ pasted \/ tab[t].token.token = k
  /\ checking' = [checking EXCEPT ![t] = [step |-> "asked", token |-> k, pasted |-> pasted]]
  /\ Begin
  /\ UNCHANGED <<kept, tab, placing, siteVars, pastVars>>

Checked(t) == checking' = [checking EXCEPT ![t] = Unchecked]

TokenAccepted(t) ==
  LET c == checking[t] IN
  /\ c.step = "asked" /\ c.token \in accepted
  /\ KeepToken(t, Saved(c.token, FALSE))
  /\ Checked(t)
  /\ owners' = IF c.pasted THEN c.token ELSE owners
  /\ overwrote' = IF c.pasted THEN overwrote ELSE Unseen(t)
  /\ UNCHANGED <<placing, siteVars, tries, heard, raced>>

\* Refused, or the site is out of order; a pasted one is not kept.
TokenNotAccepted(t) ==
  /\ checking[t].step = "asked"
  /\ IF checking[t].pasted \/ tab[t].token = Nothing THEN UNCHANGED <<kept, tab, overwrote>>
     ELSE /\ KeepToken(t, [tab[t].token EXCEPT !.problem = TRUE])
          /\ overwrote' = Unseen(t)
  /\ Checked(t)
  /\ UNCHANGED <<placing, siteVars, tries, heard, owners, raced>>

TokenNotChecked(t) ==
  /\ checking[t].step = "asked"
  /\ Checked(t)
  /\ UNCHANGED <<kept, tab, placing, siteVars, tries, pastVars>>

RemoveToken(t) ==
  /\ tab[t].open /\ checking[t].step = "idle" /\ placing[t].step # "confirm"
  /\ tab[t].token # Nothing
  /\ KeepToken(t, Nothing)
  /\ owners' = NoToken
  /\ UNCHANGED <<placing, checking, siteVars, tries, heard, overwrote, raced>>

-----------------------------------------------------------------------------
\* The site.
Arrive(p) ==
  /\ p \in transit /\ Reach(p, "page")
  /\ transit' = transit \ {p}
  /\ UNCHANGED <<kept, tab, placing, checking, accepted, tries, pastVars>>

OwnerBids(p) ==
  /\ SentOn(p) = {} /\ Reach(p, "hand")
  /\ UNCHANGED <<kept, tab, placing, checking, transit, accepted, tries, pastVars>>

Revoke(k) ==
  /\ k \in accepted /\ accepted' = accepted \ {k}
  /\ UNCHANGED <<kept, tab, placing, checking, sent, transit, tries, pastVars>>

RadarNext ==
  \/ \E t \in Tabs :
       \/ OpenTab(t) \/ CloseTab(t) \/ UpdateBid(t) \/ Import(t)
       \/ \E p \in Feed : LogByHand(t, p) \/ PressPlace(t, p)
       \/ Confirm(t) \/ FindNothing(t) \/ FindEarlier(t) \/ CreateBid(t) \/ NoAnswer(t)
       \/ Denied(t) \/ TokenAccepted(t) \/ TokenNotAccepted(t) \/ TokenNotChecked(t)
       \/ \E k \in Tokens, pasted \in BOOLEAN : AskWhose(t, k, pasted)
       \/ RemoveToken(t)
  \/ \E p \in Feed : Arrive(p) \/ OwnerBids(p)
  \/ \E k \in Tokens : Revoke(k)

RadarSpec == RadarInit /\ [][RadarNext]_radarVars

-----------------------------------------------------------------------------
Entry == [project : Feed, bid : 0..MaxSent]
SavedTokens == [token : Tokens \cup {NoToken}, problem : BOOLEAN]

\* Every variable keeps its type.
RadarTypeOK ==
  /\ kept \in [log : Seq(Entry), token : SavedTokens]
  /\ tab \in [Tabs -> [open : BOOLEAN, log : Seq(Entry), token : SavedTokens]]
  /\ placing \in [Tabs -> [step : {"idle", "confirm", "find", "create"}, project : Feed,
                           token : Tokens \cup {NoToken}]]
  /\ checking \in [Tabs -> [step : {"idle", "asked"}, token : Tokens \cup {NoToken},
                            pasted : BOOLEAN]]
  /\ sent \in Seq([project : Feed, by : {"page", "hand"}]) /\ Len(sent) <= MaxSent
  /\ transit \subseteq Feed /\ accepted \subseteq Tokens
  /\ tries \in 0..MaxTries /\ heard \subseteq 1..MaxSent /\ owners \in Tokens \cup {NoToken}
  /\ overwrote \subseteq {"log", "token"} /\ raced \subseteq Feed

\* The page sends one bid per project, however often Place now is pressed after a
\* time-out, a closed tab or an import (radar.js:756 "looks for the bid first, so
\* it is never sent twice"), unless it looked while an earlier request, given up
\* or another tab's, was still on its way.
PageBidsOnce ==
  \A i, j \in DOMAIN sent :
    /\ sent[i].project = sent[j].project /\ sent[i].project \notin raced
    /\ sent[i].by = "page" /\ sent[j].by = "page"
    => i = j

\* A bid the page has had an answer about is in the browser's log, through every
\* tab opened, closed, reloaded and replaced meanwhile, unless a tab wrote its
\* copy over a log it had not seen; what a backup replaced is not asked for.
HeardBidIsLogged ==
  "log" \notin overwrote =>
    \A b \in heard : \E i \in DOMAIN kept.log : kept.log[i].bid = b

\* The browser holds the token the owner saved last, and none once he removed it
\* (radar.js:1961 "This browser forgets it"), whatever checks and bids were in
\* flight then, unless a tab that had not seen that wrote its own again.
TokenIsOwners ==
  "token" \notin overwrote => kept.token.token = owners

\* Both at once: what the browser keeps is what this page and its owner did last.
StorageIsCurrent == HeardBidIsLogged /\ TokenIsOwners

-----------------------------------------------------------------------------
\* What carries PageBidsOnce: of a project that no request raced for, the page has
\* one bid on the site, or one request on its way, or one tab that is sending.
Creating(p) == {t \in Tabs : placing[t].step = "create" /\ placing[t].project = p}
ByPage(p) == {i \in SentOn(p) : sent[i].by = "page"}
OneRequest == \A p \in Feed \ raced :
  /\ ByPage(p) # {} => p \notin transit /\ Creating(p) = {}
  /\ p \in transit => Creating(p) = {}
  /\ \A t, u \in Creating(p) : t = u

\* What carries TokenIsOwners: a token that is checked again is the one the tab holds.
ChecksOwnToken == \A t \in Tabs :
  /\ ~tab[t].open => checking[t].step = "idle"
  /\ checking[t].step = "asked" /\ ~checking[t].pasted => tab[t].token.token = checking[t].token

RadarInv == RadarTypeOK /\ OneRequest /\ PageBidsOnce /\ ChecksOwnToken /\ StorageIsCurrent

=============================================================================
