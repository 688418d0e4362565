------------------------- MODULE MarketplaceAccounts --------------------------
(***************************************************************************)
(* An organisation's account at a marketplace and its OAuth tokens         *)
(* (routes/platform-accounts.ts, upwork-accounts.ts, packages/freelancer   *)
(* and packages/upwork tokens.ts, migration 0017).                         *)
(*                                                                         *)
(* A person consents at the marketplace and comes back with a code; the    *)
(* identity behind it may be any of Users, and the answer may or may not   *)
(* bring a refresh token.  Workers read the tokens, renew the ones that    *)
(* lapse and act with them.  A token stands for the identity it acts as.   *)
(* One row per organisation and marketplace.                               *)
(***************************************************************************)
EXTENDS Integers, FiniteSets

CONSTANTS
  Users,       \* identities at the marketplace
  Nobody,
  Callbacks,   \* requests that may be in progress at once
  Workers,     \* jobs that may need a token at once
  MaxStarts    \* bound: connections started

ASSUME AccountsAssumption ==
  /\ Nobody \notin Users
  /\ MaxStarts \in Nat

AccountStatuses == {"none", "connected", "expired", "disconnected"}
Holders == Users \cup {Nobody}
CallSteps == {"idle", "exchange", "read", "store"}
WorkSteps == {"idle", "read", "renew", "use"}

VARIABLES
  account,             \* platform_accounts: status and external_user_id
  access, refresh,     \* the identities the two secrets act as
  lapsing,             \* less than a day of the access token's time is left
  waiting, starts,     \* an open platform_connect_attempt; how many there were
  callback, worker,    \* what is in progress
  overtaken            \* an identity was replaced while another's token lived on

tokenVars == <<access, refresh, lapsing>>
accountsVars ==
  <<account, tokenVars, waiting, starts, callback, worker, overtaken>>

NoCall == [step |-> "idle", user |-> Nobody, lasting |-> FALSE, found |-> FALSE]
NoWork == [step |-> "idle", token |-> Nobody]

AccountsInit ==
  /\ account = [status |-> "none", user |-> Nobody]
  /\ access = Nobody /\ refresh = Nobody /\ lapsing = FALSE
  /\ waiting = FALSE /\ starts = 0
  /\ callback = [c \in Callbacks |-> NoCall]
  /\ worker = [w \in Workers |-> NoWork]
  /\ overtaken = FALSE

-----------------------------------------------------------------------------
StartConnecting ==
  /\ starts < MaxStarts
  /\ waiting' = TRUE
  /\ starts' = starts + 1
  /\ UNCHANGED <<account, tokenVars, callback, worker, overtaken>>

\* Ten minutes are over.
AttemptLapses ==
  /\ waiting /\ waiting' = FALSE
  /\ UNCHANGED <<account, tokenVars, starts, callback, worker, overtaken>>

\* The person comes back: every open attempt is used up, and then the code.
ComeBack(c) ==
  /\ callback[c].step = "idle" /\ waiting
  /\ waiting' = FALSE
  /\ callback' = [callback EXCEPT ![c].step = "exchange"]
  /\ UNCHANGED <<account, tokenVars, starts, worker, overtaken>>

Exchange(c) ==
  /\ callback[c].step = "exchange"
  /\ \E u \in Users, lasting \in BOOLEAN :
       callback' = [callback EXCEPT ![c] =
         [step |-> "read", user |-> u, lasting |-> lasting, found |-> FALSE]]
  /\ UNCHANGED <<account, tokenVars, waiting, starts, worker, overtaken>>

\* The marketplace refuses, a query fails, the process dies: nothing is stored.
CallbackFails(c) ==
  /\ callback[c].step # "idle"
  /\ callback' = [callback EXCEPT ![c] = NoCall]
  /\ UNCHANGED <<account, tokenVars, waiting, starts, worker, overtaken>>

\* Refused while the account is connected as someone else.
ReadAccount(c) ==
  /\ callback[c].step = "read"
  /\ callback' = [callback EXCEPT ![c] =
       IF account.status = "connected" /\ account.user # callback[c].user THEN NoCall
       ELSE [@ EXCEPT !.step = "store", !.found = account.status # "none"]]
  /\ UNCHANGED <<account, tokenVars, waiting, starts, worker, overtaken>>

\* A second row is refused by the database.  No refresh token leaves the stored
\* one as it is.
StoreAccount(c) ==
  LET u == callback[c].user
      kept == ~callback[c].lasting /\ refresh \notin {u, Nobody} IN
  /\ callback[c].step = "store"
  /\ callback[c].found \/ account.status = "none"
  /\ account' = [status |-> "connected", user |-> u]
  /\ access' = u
  /\ refresh' = IF callback[c].lasting THEN u ELSE refresh
  /\ lapsing' = FALSE
  /\ callback' = [callback EXCEPT ![c] = NoCall]
  /\ overtaken' =
       \/ overtaken
       \/ kept /\ account.status # "disconnected"
       \/ \E w \in Workers : worker[w].step = "renew" /\ worker[w].token # u
  /\ UNCHANGED <<waiting, starts, worker>>

\* Faulty variant: the refresh token stays in the vault.
DisconnectKeepsRefresh ==
  /\ account.status # "none"
  /\ account' = [account EXCEPT !.status = "disconnected"]
  /\ access' = Nobody /\ lapsing' = FALSE
  /\ UNCHANGED <<refresh, waiting, starts, callback, worker, overtaken>>

Disconnect ==
  /\ account.status # "none"
  /\ account' = [account EXCEPT !.status = "disconnected"]
  /\ access' = Nobody /\ refresh' = Nobody /\ lapsing' = FALSE
  /\ UNCHANGED <<waiting, starts, callback, worker, overtaken>>

-----------------------------------------------------------------------------
TokenLapses ==
  /\ access # Nobody /\ ~lapsing /\ lapsing' = TRUE
  /\ UNCHANGED <<account, access, refresh, waiting, starts, callback, worker, overtaken>>

OnlyWorkers == UNCHANGED <<waiting, starts, callback, overtaken>>

Becomes(w, step, token) == worker' = [worker EXCEPT ![w] = [step |-> step, token |-> token]]

Expire == account' = [account EXCEPT !.status = "expired"]

\* The status, then the tokens, in a query each.
NeedToken(w) ==
  /\ worker[w].step = "idle" /\ account.status = "connected"
  /\ Becomes(w, "read", Nobody)
  /\ UNCHANGED <<account, tokenVars>> /\ OnlyWorkers

ReadTokens(w) ==
  /\ worker[w].step = "read"
  /\ \/ access = Nobody /\ Becomes(w, "idle", Nobody) /\ UNCHANGED account
     \/ access # Nobody /\ ~lapsing /\ Becomes(w, "use", access) /\ UNCHANGED account
     \/ access # Nobody /\ lapsing /\ refresh = Nobody /\ Becomes(w, "idle", Nobody) /\ Expire
     \/ access # Nobody /\ lapsing /\ refresh # Nobody /\ Becomes(w, "renew", refresh)
        /\ UNCHANGED account
  /\ UNCHANGED tokenVars /\ OnlyWorkers

\* The marketplace renews: both tokens, or the access token alone, are put away
\* and the account is connected, whatever it is by now.
Renewed(w) ==
  LET u == worker[w].token IN
  /\ worker[w].step = "renew"
  /\ account' = [account EXCEPT !.status = "connected"]
  /\ access' = u /\ lapsing' = FALSE
  /\ refresh' \in {u, refresh}
  /\ Becomes(w, "use", u)
  /\ OnlyWorkers

\* It refuses: the account is expired, whatever it is by now.
NotRenewed(w) ==
  /\ worker[w].step = "renew"
  /\ Expire
  /\ Becomes(w, "idle", Nobody)
  /\ UNCHANGED tokenVars /\ OnlyWorkers

\* It is not reached, or the process dies; or the token did its work.
LetGo(w) ==
  /\ worker[w].step # "idle"
  /\ Becomes(w, "idle", Nobody)
  /\ UNCHANGED <<account, tokenVars>> /\ OnlyWorkers

\* A poll whose token is refused marks the account, whatever it is by now.
Denied(w) ==
  /\ worker[w].step = "use"
  /\ Expire
  /\ Becomes(w, "idle", Nobody)
  /\ UNCHANGED tokenVars /\ OnlyWorkers

AccountsNext ==
  \/ StartConnecting \/ AttemptLapses \/ Disconnect \/ TokenLapses
  \/ \E c \in Callbacks :
       ComeBack(c) \/ Exchange(c) \/ CallbackFails(c) \/ ReadAccount(c) \/ StoreAccount(c)
  \/ \E w \in Workers :
       NeedToken(w) \/ ReadTokens(w) \/ Renewed(w) \/ NotRenewed(w) \/ LetGo(w) \/ Denied(w)

AccountsSpec == AccountsInit /\ [][AccountsNext]_accountsVars

-----------------------------------------------------------------------------
\* Every variable keeps its type.
AccountsTypeOK ==
  /\ account \in [status : AccountStatuses, user : Holders]
  /\ access \in Holders /\ refresh \in Holders /\ lapsing \in BOOLEAN
  /\ waiting \in BOOLEAN /\ starts \in 0..MaxStarts
  /\ callback \in [Callbacks -> [step : CallSteps, user : Holders,
                                 lasting : BOOLEAN, found : BOOLEAN]]
  /\ worker \in [Workers -> [step : WorkSteps, token : Holders]]
  /\ overtaken \in BOOLEAN

\* A connected account acts as the identity it shows and no other (platform-
\* accounts.ts: "one account per verified identity"), however connections,
\* disconnections and renewals interleave; except after another identity was
\* stored while a renewal of the old one's token was in flight, or over an
\* expired account's refresh token.  A disconnected account holds no token.
TokenActsAsAccount ==
  /\ account.status = "connected" /\ ~overtaken => access = account.user
  /\ account.status = "disconnected" => access = Nobody /\ refresh = Nobody

-----------------------------------------------------------------------------
\* What carries TokenActsAsAccount from step to step: until an identity has been
\* overtaken, the stored refresh token, and the one a worker has taken to renew,
\* are the account's own.
TokensInHandAreOwn ==
  ~overtaken =>
    /\ refresh \in {account.user, Nobody}
    /\ \A w \in Workers : worker[w].step = "renew" => worker[w].token = account.user

AccountsInv == AccountsTypeOK /\ TokenActsAsAccount /\ TokensInHandAreOwn

=============================================================================
