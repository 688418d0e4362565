--------------------------- MODULE AccountsProofs ----------------------------
(***************************************************************************)
(* What the accounts keep: that at the marketplace, and those of the       *)
(* members of organisations, for any number of people, requests and        *)
(* workers, whatever is repeated, late or refused.                         *)
(***************************************************************************)
EXTENDS MarketplaceAccounts, Members, TLAPS

-----------------------------------------------------------------------------
\* The account at the marketplace (MarketplaceAccounts).
\* Before an account is connected the invariant holds.
LEMMA InitAccounts == AccountsInit => AccountsInv
  <1> SUFFICES ASSUME AccountsInit PROVE AccountsInv
    OBVIOUS
  <1>1. account \in [status : AccountStatuses, user : Holders]
    BY DEF AccountsInit, AccountStatuses, Holders
  <1>2. starts \in 0..MaxStarts
    BY AccountsAssumption DEF AccountsInit
  <1>3. callback \in [Callbacks -> [step : CallSteps, user : Holders, lasting : BOOLEAN, found : BOOLEAN]]
    BY DEF AccountsInit, NoCall, Holders, CallSteps
  <1>4. worker \in [Workers -> [step : WorkSteps, token : Holders]]
    BY DEF AccountsInit, NoWork, Holders, WorkSteps
  <1>5. AccountsTypeOK
    BY <1>1, <1>2, <1>3, <1>4 DEF AccountsInit, AccountsTypeOK, Holders
  <1>6. TokenActsAsAccount /\ TokensInHandAreOwn
    BY DEF AccountsInit, TokenActsAsAccount, TokensInHandAreOwn, NoWork
  <1> QED BY <1>5, <1>6 DEF AccountsInv

-----------------------------------------------------------------------------
\* A person's steps keep the types.
LEMMA TypePerson ==
  ASSUME AccountsTypeOK,
         \/ StartConnecting \/ AttemptLapses \/ Disconnect \/ TokenLapses
         \/ \E c \in Callbacks :
              ComeBack(c) \/ Exchange(c) \/ CallbackFails(c) \/ ReadAccount(c) \/ StoreAccount(c)
  PROVE  AccountsTypeOK'
  <1> USE AccountsAssumption DEF AccountsTypeOK, tokenVars, AccountStatuses, Holders
  <1>1. CASE StartConnecting \/ AttemptLapses \/ TokenLapses
    <2>1. starts' \in 0..MaxStarts
      BY <1>1 DEF StartConnecting, AttemptLapses, TokenLapses
    <2>2. UNCHANGED <<account, access, refresh, callback, worker, overtaken>>
      BY <1>1 DEF StartConnecting, AttemptLapses, TokenLapses
    <2>3. waiting' \in BOOLEAN /\ lapsing' \in BOOLEAN
      BY <1>1, Zenon DEF StartConnecting, AttemptLapses, TokenLapses
    <2> QED BY <2>1, <2>2, <2>3
  <1>2. CASE Disconnect
    BY <1>2 DEF Disconnect
  <1>3. ASSUME NEW c \in Callbacks, ComeBack(c) PROVE AccountsTypeOK'
    <2>1. callback' \in [Callbacks -> [step : CallSteps, user : Holders, lasting : BOOLEAN, found : BOOLEAN]]
      BY <1>3 DEF ComeBack, CallSteps
    <2> QED BY <1>3, <2>1 DEF ComeBack
  <1>4. ASSUME NEW c \in Callbacks, Exchange(c) PROVE AccountsTypeOK'
    <2>1. PICK u \in Users, lasting \in BOOLEAN :
            callback' = [callback EXCEPT ![c] =
              [step |-> "read", user |-> u, lasting |-> lasting, found |-> FALSE]]
      BY <1>4 DEF Exchange
    <2>2. [step |-> "read", user |-> u, lasting |-> lasting, found |-> FALSE]
            \in [step : CallSteps, user : Holders, lasting : BOOLEAN, found : BOOLEAN]
      BY DEF CallSteps
    <2> QED BY <1>4, <2>1, <2>2 DEF Exchange
  <1>5. ASSUME NEW c \in Callbacks, CallbackFails(c) PROVE AccountsTypeOK'
    BY <1>5 DEF CallbackFails, NoCall, CallSteps
  <1>6. ASSUME NEW c \in Callbacks, ReadAccount(c) PROVE AccountsTypeOK'
    <2> DEFINE Calls == [step : CallSteps, user : Holders, lasting : BOOLEAN, found : BOOLEAN]
               found == account.status # "none"
               to == IF account.status = "connected" /\ account.user # callback[c].user THEN NoCall
                     ELSE [callback[c] EXCEPT !.step = "store", !.found = found]
    <2>1. found \in BOOLEAN
      OBVIOUS
    <2>2. callback[c] \in Calls
      OBVIOUS
    <2>3. [callback[c] EXCEPT !.step = "store", !.found = found] \in Calls
      <3> HIDE DEF found
      <3> QED BY <2>1, <2>2 DEF CallSteps
    <2>4. to \in Calls
      <3>1. NoCall \in Calls
        BY DEF NoCall, CallSteps
      <3> QED BY <3>1, <2>3
    <2>5. callback' = [callback EXCEPT ![c] = to]
      BY <1>6, Zenon DEF ReadAccount
    <2>6. callback' \in [Callbacks -> Calls]
      <3> HIDE DEF to, Calls
      <3>1. callback \in [Callbacks -> Calls]
        BY DEF Calls
      <3> QED BY <2>4, <2>5, <3>1
    <2> QED BY <1>6, <2>6 DEF ReadAccount
  <1>7. ASSUME NEW c \in Callbacks, StoreAccount(c) PROVE AccountsTypeOK'
    BY <1>7 DEF StoreAccount, NoCall, CallSteps
  <1> QED BY <1>1, <1>2, <1>3, <1>4, <1>5, <1>6, <1>7

\* A worker's steps keep the types.
LEMMA TypeWorker ==
  ASSUME AccountsTypeOK, NEW w \in Workers,
         \/ NeedToken(w) \/ ReadTokens(w) \/ Renewed(w)
         \/ NotRenewed(w) \/ LetGo(w) \/ Denied(w)
  PROVE  AccountsTypeOK'
  <1> USE DEF AccountsTypeOK, tokenVars, AccountStatuses, Holders, OnlyWorkers, Becomes, Expire, WorkSteps
  <1>1. CASE NeedToken(w) \/ LetGo(w)
    BY <1>1 DEF NeedToken, LetGo
  <1>2. CASE ReadTokens(w)
    BY <1>2 DEF ReadTokens
  <1>3. CASE Renewed(w)
    BY <1>3 DEF Renewed
  <1>4. CASE NotRenewed(w) \/ Denied(w)
    BY <1>4 DEF NotRenewed, Denied
  <1> QED BY <1>1, <1>2, <1>3, <1>4

\* Every step on an account keeps the types.
LEMMA TypeNext == AccountsTypeOK /\ [AccountsNext]_accountsVars => AccountsTypeOK'
  <1> SUFFICES ASSUME AccountsTypeOK, [AccountsNext]_accountsVars PROVE AccountsTypeOK'
    OBVIOUS
  <1>1. CASE UNCHANGED accountsVars
    BY <1>1 DEF AccountsTypeOK, accountsVars, tokenVars
  <1>2. CASE AccountsNext
    BY <1>2, TypePerson, TypeWorker DEF AccountsNext
  <1> QED BY <1>1, <1>2

-----------------------------------------------------------------------------
\* A new identity leaves nothing of another's behind, unless it overtakes it.
LEMMA TokensStore ==
  ASSUME AccountsInv, NEW c \in Callbacks, StoreAccount(c)
  PROVE  TokensInHandAreOwn'
  <1> DEFINE u == callback[c].user
  <1> SUFFICES ASSUME ~overtaken'
               PROVE  /\ refresh' \in {account'.user, Nobody}
                      /\ \A w \in Workers : worker'[w].step = "renew" => worker'[w].token = account'.user
    BY DEF TokensInHandAreOwn
  <1>1. account'.user = u /\ worker' = worker
    BY DEF StoreAccount
  <1>2. \A w \in Workers : worker[w].step = "renew" => worker[w].token = u
    BY DEF StoreAccount
  <1>3. refresh' \in {u, Nobody}
    <2>1. CASE callback[c].lasting
      BY <2>1 DEF StoreAccount
    <2>2. CASE ~callback[c].lasting /\ account.status = "disconnected"
      BY <2>2 DEF StoreAccount, AccountsInv, TokenActsAsAccount
    <2>3. CASE ~callback[c].lasting /\ account.status # "disconnected"
      BY <2>3 DEF StoreAccount
    <2> QED BY <2>1, <2>2, <2>3
  <1> QED BY <1>1, <1>2, <1>3

\* Every step leaves each caller with a token of the account it acts for.
LEMMA TokensNext == AccountsInv /\ [AccountsNext]_accountsVars => TokensInHandAreOwn'
  <1> SUFFICES ASSUME AccountsInv, [AccountsNext]_accountsVars PROVE TokensInHandAreOwn'
    OBVIOUS
  <1> USE DEF AccountsInv, TokensInHandAreOwn, tokenVars
  <1>1. CASE UNCHANGED accountsVars
    BY <1>1 DEF accountsVars
  <1>2. CASE StartConnecting \/ AttemptLapses \/ Disconnect \/ TokenLapses
    BY <1>2 DEF StartConnecting, AttemptLapses, Disconnect, TokenLapses, AccountsTypeOK
  <1>3. ASSUME NEW c \in Callbacks,
               ComeBack(c) \/ Exchange(c) \/ CallbackFails(c) \/ ReadAccount(c)
        PROVE  TokensInHandAreOwn'
    BY <1>3 DEF ComeBack, Exchange, CallbackFails, ReadAccount
  <1>4. ASSUME NEW c \in Callbacks, StoreAccount(c) PROVE TokensInHandAreOwn'
    BY <1>4, TokensStore
  <1>5. ASSUME NEW w \in Workers, NeedToken(w) \/ ReadTokens(w) PROVE TokensInHandAreOwn'
    BY <1>5 DEF NeedToken, ReadTokens, OnlyWorkers, Becomes, Expire, AccountsTypeOK
  <1>6. ASSUME NEW w \in Workers, Renewed(w) PROVE TokensInHandAreOwn'
    BY <1>6 DEF Renewed, OnlyWorkers, Becomes, AccountsTypeOK
  <1>7. ASSUME NEW w \in Workers, NotRenewed(w) \/ LetGo(w) \/ Denied(w) PROVE TokensInHandAreOwn'
    BY <1>7 DEF NotRenewed, LetGo, Denied, OnlyWorkers, Becomes, Expire, AccountsTypeOK
  <1> QED BY <1>1, <1>2, <1>3, <1>4, <1>5, <1>6, <1>7 DEF AccountsNext

\* Every step leaves the calls made with the account's own tokens.
LEMMA ActsNext == AccountsInv /\ [AccountsNext]_accountsVars => TokenActsAsAccount'
  <1> SUFFICES ASSUME AccountsInv, [AccountsNext]_accountsVars PROVE TokenActsAsAccount'
    OBVIOUS
  <1> USE DEF AccountsInv, TokenActsAsAccount, tokenVars
  <1>1. CASE UNCHANGED accountsVars
    BY <1>1 DEF accountsVars
  <1>2. CASE StartConnecting \/ AttemptLapses \/ Disconnect \/ TokenLapses
    BY <1>2 DEF StartConnecting, AttemptLapses, Disconnect, TokenLapses, AccountsTypeOK
  <1>3. ASSUME NEW c \in Callbacks,
               ComeBack(c) \/ Exchange(c) \/ CallbackFails(c) \/ ReadAccount(c)
        PROVE  TokenActsAsAccount'
    BY <1>3 DEF ComeBack, Exchange, CallbackFails, ReadAccount
  <1>4. ASSUME NEW c \in Callbacks, StoreAccount(c) PROVE TokenActsAsAccount'
    BY <1>4 DEF StoreAccount
  <1>5. ASSUME NEW w \in Workers, Renewed(w) PROVE TokenActsAsAccount'
    BY <1>5 DEF Renewed, OnlyWorkers, Becomes, TokensInHandAreOwn, AccountsTypeOK
  <1>6. ASSUME NEW w \in Workers,
               NeedToken(w) \/ ReadTokens(w) \/ NotRenewed(w) \/ LetGo(w) \/ Denied(w)
        PROVE  TokenActsAsAccount'
    BY <1>6 DEF NeedToken, ReadTokens, NotRenewed, LetGo, Denied, OnlyWorkers, Becomes, Expire,
                AccountsTypeOK
  <1> QED BY <1>1, <1>2, <1>3, <1>4, <1>5, <1>6 DEF AccountsNext

-----------------------------------------------------------------------------
\* Every step on an account keeps the invariant.
LEMMA NextAccounts == AccountsInv /\ [AccountsNext]_accountsVars => AccountsInv'
  BY TypeNext, TokensNext, ActsNext DEF AccountsInv

\* The inductive invariant of accounts holds of every reachable state.
THEOREM AccountsInvariance == AccountsSpec => []AccountsInv
  BY InitAccounts, NextAccounts, PTL DEF AccountsSpec

\* A connected account acts as the identity it shows, however connections,
\* disconnections and renewals interleave (tokens.ts, platform-accounts.ts), and
\* a disconnected one holds no token.
THEOREM ActsAsItself == AccountsSpec => []TokenActsAsAccount
  BY AccountsInvariance, PTL DEF AccountsInv

-----------------------------------------------------------------------------
\* Organisations, and who decides by chat (Members).
OrgInv == RowsHold /\ FoundingsHold /\ LeaversHold /\ OwnerRemains

ChangeStates ==
  [op : {"none", "found", "add", "set"}, org : AnyOrg, who : People \cup {Absent},
   to : Roles \cup {"none"}, click : Clicks \cup {Absent}]
HearingStates ==
  [what : {"none", "approve", "edit", "text"}, chat : Chats \cup {Absent},
   who : People \cup {Absent}, org : AnyOrg, role : Roles, bid : AnyOrg, since : BOOLEAN]

\* A transaction begins in a place that was free, and what was open stays.
LEMMA BeginOpens ==
  ASSUME MembersTypeOK, NEW c \in ChangeStates, Begin(c)
  PROVE  \E r \in Changers :
           /\ ~Open(r) /\ change'[r] = c
           /\ \A s \in Changers : s # r => change'[s] = change[s]
           /\ change' \in [Changers -> ChangeStates] /\ changes' \in 0..MaxChanges
  <1>1. PICK r \in Changers : ~Open(r) /\ change' = [change EXCEPT ![r] = c]
    BY DEF Begin
  <1>2. changes' \in 0..MaxChanges
    BY MembersAssumption DEF Begin, MembersTypeOK
  <1>3. change \in [Changers -> ChangeStates]
    BY DEF MembersTypeOK, ChangeStates
  <1>4. change' \in [Changers -> ChangeStates] /\ change'[r] = c
        /\ \A s \in Changers : s # r => change'[s] = change[s]
    BY <1>1, <1>3
  <1> QED BY <1>1, <1>2, <1>4

\* Updates about which something may have changed keep their type, and say so.
LEMMA UnsettleKeepsType ==
  ASSUME MembersTypeOK
  PROVE  /\ Unsettle \in [Updates -> HearingStates]
         /\ \A u \in Updates : Unsettle[u].what # "none" => Unsettle[u].since
  <1>1. hearing \in [Updates -> HearingStates]
    BY DEF MembersTypeOK, HearingStates
  <1>2. ASSUME NEW u \in Updates
        PROVE  Unsettle[u] \in HearingStates /\ (Unsettle[u].what # "none" => Unsettle[u].since)
    <2>1. hearing[u] \in HearingStates
      BY <1>1
    <2>2. CASE hearing[u] = Silence
      <3>1. Unsettle[u] = Silence
        BY <2>2 DEF Unsettle
      <3>2. Silence.what = "none"
        BY DEF Silence
      <3> QED BY <2>1, <2>2, <3>1, <3>2
    <2>3. CASE hearing[u] # Silence
      <3>1. Unsettle[u] = [hearing[u] EXCEPT !.since = TRUE]
        BY <2>3 DEF Unsettle
      <3> QED BY <2>1, <3>1 DEF HearingStates
    <2> QED BY <2>2, <2>3
  <1>3. Unsettle = [u \in Updates |-> Unsettle[u]]
    BY DEF Unsettle
  <1> QED BY <1>2, <1>3

\* A founding in hand is a change of an organisation not yet founded.
LEMMA FoundingTyped ==
  ASSUME NEW p \in People, NEW c \in Clicks \cup {Absent}, Unfounded # {}
  PROVE  /\ Founding(p, c) \in ChangeStates
         /\ Founding(p, c).op = "found" /\ Founding(p, c).org \in Unfounded
         /\ Founding(p, c).who = p /\ Founding(p, c).to = "owner"
  <1>1. PICK o \in Unfounded : o = CHOOSE x \in Unfounded : TRUE
    OBVIOUS
  <1>2. o \in Organisations
    BY <1>1 DEF Unfounded
  <1> QED BY <1>1, <1>2 DEF Founding, ChangeStates, Roles, AnyOrg

\* A change of one member's row is a change.
LEMMA RowChangeTyped ==
  ASSUME NEW o \in Organisations, NEW p \in People, NEW to \in Roles \cup {"none"},
         NEW what \in {"add", "set"}
  PROVE  [NoChange EXCEPT !.op = what, !.org = o, !.who = p, !.to = to] \in ChangeStates
  BY DEF NoChange, ChangeStates, AnyOrg

-----------------------------------------------------------------------------
\* Types.
LEMMA MembersInitTypes == MembersInit => MembersTypeOK
  <1> SUFFICES ASSUME MembersInit PROVE MembersTypeOK
    OBVIOUS
  <1>1. /\ founder \in [Organisations -> People \cup {Absent}]
        /\ role \in [Organisations -> [People -> Roles \cup {"none"}]]
        /\ code \in [Codes -> [of : People \cup {Absent}, good : BOOLEAN]]
    <2>1. PICK o \in AnyOrg, p \in People \cup {Absent} : Founded(o, p)
      BY DEF MembersInit, AnyOrg
    <2>2. founder \in [Organisations -> People \cup {Absent}]
      BY <2>1 DEF Founded
    <2>3. role \in [Organisations -> [People -> Roles \cup {"none"}]]
      BY <2>1 DEF Founded, Roles
    <2>4. PICK q \in {p, Absent} : code = [k \in Codes |-> [of |-> q, good |-> FALSE]]
      BY <2>1 DEF Founded
    <2>5. q \in People \cup {Absent}
      BY <2>1
    <2> QED BY <2>2, <2>3, <2>4, <2>5
  <1>2. NoChange \in ChangeStates
    BY DEF NoChange, ChangeStates, AnyOrg
  <1>3. Silence \in HearingStates
    BY DEF Silence, HearingStates, AnyOrg, Roles
  <1>4. change \in [Changers -> ChangeStates] /\ hearing \in [Updates -> HearingStates]
    BY <1>2, <1>3 DEF MembersInit
  <1>5. changes \in 0..MaxChanges
    BY MembersAssumption DEF MembersInit
  <1> QED BY <1>1, <1>4, <1>5 DEF MembersInit, MembersTypeOK, AnyOrg, ChangeStates, HearingStates

\* Resolving who speaks fills in one update and leaves the others.
LEMMA SpeakerTyped ==
  ASSUME MembersTypeOK, NEW u \in Updates, NEW c \in Chats, NEW heard \in HearingStates,
         Speaker(u, c, heard)
  PROVE  /\ hearing' \in [Updates -> HearingStates]
         /\ \A v \in Updates : v # u => hearing'[v] = hearing[v]
         /\ hearing'[u].org \in Organisations /\ hearing'[u].who \in People
         /\ role[hearing'[u].org][hearing'[u].who] = hearing'[u].role
  <1>1. PICK p \in People, o \in Organisations :
          /\ Best(p, o)
          /\ hearing' = [hearing EXCEPT ![u] =
               [heard EXCEPT !.chat = c, !.who = p, !.org = o, !.role = role[o][p]]]
    BY DEF Speaker
  <1>2. PICK k \in Roles : k = role[o][p]
    BY <1>1 DEF Best, MembersTypeOK
  <1>3. PICK h : h = [heard EXCEPT !.chat = c, !.who = p, !.org = o, !.role = k]
    OBVIOUS
  <1>4. h \in HearingStates /\ h.org = o /\ h.who = p /\ h.role = k
    BY <1>3 DEF HearingStates, AnyOrg
  <1>5. hearing \in [Updates -> HearingStates]
    BY DEF MembersTypeOK, HearingStates
  <1>6. hearing' = [hearing EXCEPT ![u] = h]
    BY <1>1, <1>2, <1>3
  <1> QED BY <1>2, <1>4, <1>5, <1>6

\* What an update is heard to say is one of the hearings.
LEMMA HeardIsTyped ==
  /\ \A what \in {"approve", "edit"}, o \in Organisations :
       [Silence EXCEPT !.what = what, !.bid = o] \in HearingStates
  /\ [Silence EXCEPT !.what = "text"] \in HearingStates
  <1>1. Silence \in HearingStates
    BY DEF Silence, HearingStates, AnyOrg, Roles
  <1> QED BY <1>1 DEF HearingStates, AnyOrg

\* Handling an update is over.
LEMMA HeardTyped ==
  ASSUME MembersTypeOK, NEW u \in Updates, Heard(u)
  PROVE  /\ hearing' \in [Updates -> HearingStates]
         /\ hearing'[u].what = "none"
         /\ \A v \in Updates : v # u => hearing'[v] = hearing[v]
  <1>1. Silence \in HearingStates /\ Silence.what = "none"
    BY DEF Silence, HearingStates, AnyOrg, Roles
  <1>2. hearing \in [Updates -> HearingStates]
    BY DEF MembersTypeOK, HearingStates
  <1> QED BY <1>1, <1>2 DEF Heard

\* Deciding records a truth value.
LEMMA DecideTyped ==
  ASSUME MembersTypeOK, NEW h, NEW bid, h.since \in BOOLEAN, Decide(h, bid)
  PROVE  rightly' \in BOOLEAN
  BY DEF Decide, MembersTypeOK

\* A transaction ends one way or the other.
LEMMA CommitShape ==
  ASSUME MembersTypeOK, RowsHold, NEW r \in Changers, Commit(r)
  PROVE  \E o \in Organisations, p \in People :
    /\ change[r].org = o /\ change[r].who = p
    /\ change'[r].op = "none" /\ change' \in [Changers -> ChangeStates]
    /\ \A s \in Changers : s # r => change'[s] = change[s]
    /\ role' \in [Organisations -> [People -> Roles \cup {"none"}]]
    /\ role'[o][p] = change[r].to
    /\ \A x \in Organisations, y \in People : <<x, y>> # <<o, p>> => role'[x][y] = role[x][y]
    /\ founder' \in [Organisations -> People \cup {Absent}]
    /\ change[r].op = "found" => founder'[o] = p
    /\ change[r].op # "found" => founder'[o] = founder[o]
    /\ \A x \in Organisations : x # o => founder'[x] = founder[x]
    /\ credited' \in [Clicks -> AnyOrg]
    /\ \A k \in Clicks : credited[k] # Absent => credited'[k] = credited[k]
  <1>1. PICK o \in Organisations, p \in People : change[r].org = o /\ change[r].who = p
    BY DEF RowsHold, Commit
  <1>2. NoChange \in ChangeStates /\ NoChange.op = "none"
    BY DEF NoChange, ChangeStates, AnyOrg
  <1>3. change \in [Changers -> ChangeStates]
    BY DEF MembersTypeOK, ChangeStates
  <1>4. PICK to \in Roles \cup {"none"} : to = change[r].to
    BY <1>3 DEF ChangeStates
  <1>5. /\ change'[r].op = "none" /\ change' \in [Changers -> ChangeStates]
        /\ \A s \in Changers : s # r => change'[s] = change[s]
    BY <1>2, <1>3 DEF Commit
  <1>6. role' = [role EXCEPT ![o][p] = to]
    BY <1>1, <1>4 DEF Commit
  <1>7. /\ role' \in [Organisations -> [People -> Roles \cup {"none"}]]
        /\ role'[o][p] = change[r].to
        /\ \A x \in Organisations, y \in People : <<x, y>> # <<o, p>> => role'[x][y] = role[x][y]
    BY <1>4, <1>6 DEF MembersTypeOK
  <1>8. /\ founder' \in [Organisations -> People \cup {Absent}]
        /\ change[r].op = "found" => founder'[o] = p
        /\ change[r].op # "found" => founder'[o] = founder[o]
        /\ \A x \in Organisations : x # o => founder'[x] = founder[x]
    BY <1>1 DEF Commit, MembersTypeOK
  <1>9. PICK k \in Clicks \cup {Absent} : k = change[r].click
    BY <1>3 DEF ChangeStates
  <1>10. /\ credited' \in [Clicks -> AnyOrg]
         /\ \A c \in Clicks : credited[c] # Absent => credited'[c] = credited[c]
    BY <1>1, <1>9, MembersAssumption DEF Commit, MembersTypeOK, AnyOrg
  <1> QED BY <1>1, <1>5, <1>7, <1>8, <1>10

\* Spending a code leaves the codes typed.
LEMMA SpentCode ==
  ASSUME MembersTypeOK, NEW k \in Codes, code' = [code EXCEPT ![k].good = FALSE]
  PROVE  code' \in [Codes -> [of : People \cup {Absent}, good : BOOLEAN]]
  <1>1. code \in [Codes -> [of : People \cup {Absent}, good : BOOLEAN]]
    BY DEF MembersTypeOK
  <1>2. [code[k] EXCEPT !.good = FALSE] \in [of : People \cup {Absent}, good : BOOLEAN]
    BY <1>1
  <1> QED BY <1>1, <1>2

\* Every step on members and updates keeps the types.
LEMMA MembersTypes ==
  ASSUME MembersTypeOK, RowsHold, MembersNext
  PROVE  MembersTypeOK'
  <1> USE DEF MembersTypeOK, orgVars, chatVars
  <1>1. /\ MembersTypeOK' <=>
           /\ role' \in [Organisations -> [People -> Roles \cup {"none"}]]
           /\ founder' \in [Organisations -> People \cup {Absent}]
           /\ credited' \in [Clicks -> AnyOrg]
           /\ change' \in [Changers -> ChangeStates]
           /\ changes' \in 0..MaxChanges
           /\ code' \in [Codes -> [of : People \cup {Absent}, good : BOOLEAN]]
           /\ chatOf' \in [People -> Chats \cup {Absent}]
           /\ shown' \subseteq Chats \X Organisations
           /\ prompt' \in [Chats -> AnyOrg]
           /\ hearing' \in [Updates -> HearingStates]
           /\ rightly' \in BOOLEAN /\ crossed' \subseteq Organisations
        /\ change \in [Changers -> ChangeStates] /\ hearing \in [Updates -> HearingStates]
    BY DEF ChangeStates, HearingStates
  <1>2. ASSUME NEW p \in People, NEW c \in Clicks \cup {Absent}, CreateOrg(p, c)
        PROVE  MembersTypeOK'
    <2>1. change' \in [Changers -> ChangeStates] /\ changes' \in 0..MaxChanges
      BY <1>2, FoundingTyped, BeginOpens DEF CreateOrg
    <2> QED BY <1>1, <1>2, <2>1 DEF CreateOrg
  <1>3. ASSUME NEW by \in People, NEW p \in People, NEW o \in Organisations,
               NEW to \in Roles, Invite(by, o, p, to)
        PROVE  MembersTypeOK'
    <2>1. change' \in [Changers -> ChangeStates] /\ changes' \in 0..MaxChanges
      BY <1>3, RowChangeTyped, BeginOpens DEF Invite
    <2> QED BY <1>1, <1>3, <2>1 DEF Invite
  <1>4. ASSUME NEW by \in People, NEW p \in People, NEW o \in Organisations,
               NEW to \in Roles \cup {"none"}, SetRole(by, o, p, to)
        PROVE  MembersTypeOK'
    <2>1. change' \in [Changers -> ChangeStates] /\ changes' \in 0..MaxChanges
      BY <1>4, RowChangeTyped, BeginOpens DEF SetRole
    <2> QED BY <1>1, <1>4, <2>1 DEF SetRole
  <1>5. ASSUME NEW r \in Changers, Commit(r)
        PROVE  MembersTypeOK'
    <2>1. /\ change' \in [Changers -> ChangeStates]
          /\ role' \in [Organisations -> [People -> Roles \cup {"none"}]]
          /\ founder' \in [Organisations -> People \cup {Absent}]
          /\ credited' \in [Clicks -> AnyOrg]
      BY <1>5, CommitShape
    <2>2. hearing' \in [Updates -> HearingStates]
      BY <1>5, UnsettleKeepsType DEF Commit
    <2> QED BY <1>1, <1>5, <2>1, <2>2 DEF Commit
  <1>6. ASSUME NEW r \in Changers, RollBack(r)
        PROVE  MembersTypeOK'
    <2>1. NoChange \in ChangeStates
      BY DEF NoChange, ChangeStates, AnyOrg
    <2>2. change' \in [Changers -> ChangeStates]
      BY <1>1, <1>6, <2>1 DEF RollBack
    <2> QED BY <1>1, <1>6, <2>2 DEF RollBack
  <1>7. ASSUME NEW p \in People, MakeCode(p)
        PROVE  MembersTypeOK'
    <2>1. code' \in [Codes -> [of : People \cup {Absent}, good : BOOLEAN]]
      BY <1>7 DEF MakeCode
    <2> QED BY <1>1, <1>7, <2>1 DEF MakeCode
  <1>8. ASSUME NEW k \in Codes, ExpireCode(k)
        PROVE  MembersTypeOK'
    <2>1. code' \in [Codes -> [of : People \cup {Absent}, good : BOOLEAN]]
      BY <1>8, SpentCode DEF ExpireCode
    <2> QED BY <1>1, <1>8, <2>1 DEF ExpireCode
  <1>9. ASSUME NEW k \in Codes, NEW c \in Chats, Link(c, k)
        PROVE  MembersTypeOK'
    <2>1. code' \in [Codes -> [of : People \cup {Absent}, good : BOOLEAN]]
      BY <1>9, SpentCode DEF Link
    <2>2. chatOf' \in [People -> Chats \cup {Absent}]
      BY <1>9 DEF Link
    <2>3. hearing' \in [Updates -> HearingStates]
      BY <1>9, UnsettleKeepsType DEF Link
    <2> QED BY <1>1, <1>9, <2>1, <2>2, <2>3 DEF Link
  <1>10. ASSUME NEW o \in Organisations, Notify(o)
        PROVE  MembersTypeOK'
    <2>1. shown' \subseteq Chats \X Organisations
      <3>1. \A p \in People : chatOf[p] \in Chats \cup {Absent}
        OBVIOUS
      <3>2. {chatOf[p] : p \in {p \in People : role[o][p] \in Approvers}} \ {Absent} \subseteq Chats
        BY <3>1
      <3> QED BY <1>10, <3>2 DEF Notify
    <2> QED BY <1>1, <1>10, <2>1 DEF Notify
  <1>11. ASSUME NEW c \in Chats, ShowQueue(c)
         PROVE  MembersTypeOK'
    <2>1. shown' \subseteq Chats \X Organisations
      BY <1>11 DEF ShowQueue
    <2> QED BY <1>1, <1>11, <2>1 DEF ShowQueue
  <1>12. ASSUME NEW u \in Updates, NEW c \in Chats, NEW o \in Organisations,
                NEW what \in {"approve", "edit"}, HearButton(u, c, o, what)
         PROVE  MembersTypeOK'
    <2>1. hearing' \in [Updates -> HearingStates]
      BY <1>12, SpeakerTyped, HeardIsTyped DEF HearButton
    <2> QED BY <1>1, <1>12, <2>1 DEF HearButton
  <1>13. ASSUME NEW u \in Updates, NEW c \in Chats, HearText(u, c)
         PROVE  MembersTypeOK'
    <2>1. hearing' \in [Updates -> HearingStates]
      BY <1>13, SpeakerTyped, HeardIsTyped DEF HearText
    <2> QED BY <1>1, <1>13, <2>1 DEF HearText
  <1>14. ASSUME NEW u \in Updates, hearing[u] \in HearingStates
         PROVE  hearing[u].since \in BOOLEAN /\ hearing[u].bid \in AnyOrg
    BY <1>14 DEF HearingStates
  <1>15. ASSUME NEW u \in Updates, PressApprove(u)
         PROVE  MembersTypeOK'
    <2>1. hearing' \in [Updates -> HearingStates]
      BY <1>15, HeardTyped DEF PressApprove
    <2>2. rightly' \in BOOLEAN
      BY <1>1, <1>14, <1>15, DecideTyped DEF PressApprove
    <2> QED BY <1>1, <1>15, <2>1, <2>2 DEF PressApprove
  <1>16. ASSUME NEW u \in Updates, PressEdit(u)
         PROVE  MembersTypeOK'
    <2>1. hearing' \in [Updates -> HearingStates]
      BY <1>16, HeardTyped DEF PressEdit
    <2>2. prompt' \in [Chats -> AnyOrg]
      BY <1>1, <1>14, <1>16 DEF PressEdit
    <2> QED BY <1>1, <1>16, <2>1, <2>2 DEF PressEdit
  <1>17. ASSUME NEW u \in Updates, AnswerPrompt(u)
         PROVE  MembersTypeOK'
    <2>1. hearing' \in [Updates -> HearingStates]
      BY <1>17, HeardTyped DEF AnswerPrompt
    <2>2. prompt' \in [Chats -> AnyOrg]
      BY <1>17 DEF AnswerPrompt, AnyOrg
    <2>3. rightly' \in BOOLEAN
      BY <1>1, <1>14, <1>17, DecideTyped DEF AnswerPrompt
    <2> QED BY <1>1, <1>17, <2>1, <2>2, <2>3 DEF AnswerPrompt
  <1>18. ASSUME NEW u \in Updates, Drop(u)
         PROVE  MembersTypeOK'
    <2>1. hearing' \in [Updates -> HearingStates]
      BY <1>18, HeardTyped DEF Drop, Heard
    <2> QED BY <1>1, <1>18, <2>1 DEF Drop
  <1> HIDE DEF MembersTypeOK, orgVars, chatVars
  <1> QED BY <1>2, <1>3, <1>4, <1>5, <1>6, <1>7, <1>8, <1>9, <1>10, <1>11, <1>12, <1>13,
             <1>15, <1>16, <1>17, <1>18 DEF MembersNext

-----------------------------------------------------------------------------
\* Organisations.
LEMMA NothingOnRowsMoves ==
  ASSUME OrgInv, UNCHANGED <<role, founder, change, crossed>>
  PROVE  OrgInv'
  BY DEF OrgInv, RowsHold, FoundingsHold, LeaversHold, OwnerRemains, Open, InAnyOrg, Owners,
         Leaves, Leaving

\* Beginning to found keeps the rows, foundings and leavers as they must be.
LEMMA CreateOrgHolds ==
  ASSUME MembersTypeOK, OrgInv, NEW p \in People, NEW c \in Clicks \cup {Absent}, CreateOrg(p, c)
  PROVE  OrgInv'
  <1>1. PICK f \in ChangeStates : f = Founding(p, c)
    BY FoundingTyped DEF CreateOrg
  <1>2. f.op = "found" /\ f.org \in Unfounded /\ f.who = p /\ f.to = "owner"
    BY <1>1, FoundingTyped DEF CreateOrg
  <1>3. PICK r \in Changers :
           /\ ~Open(r) /\ change'[r] = f
           /\ \A s \in Changers : s # r => change'[s] = change[s]
    BY <1>1, BeginOpens DEF CreateOrg
  <1>4. UNCHANGED <<role, founder, crossed>>
    BY DEF CreateOrg
  <1>5. /\ f.org \in Organisations /\ founder[f.org] = Absent
        /\ \A s \in Changers : change[s].op = "found" => change[s].org # f.org
    BY <1>2 DEF Unfounded
  <1>6. \A s \in Changers : change[s].op \in {"found", "add"} => change[s].who # p
    BY DEF CreateOrg, LockedBy
  <1>7. ~InAnyOrg(p)
    BY DEF CreateOrg
  <1>8. RowsHold'
    BY <1>2, <1>3, <1>4, <1>5 DEF OrgInv, RowsHold, Open
  <1>9. FoundingsHold'
    BY <1>2, <1>3, <1>4, <1>5, <1>6, <1>7 DEF OrgInv, FoundingsHold, InAnyOrg
  <1>10. \A o \in Organisations, s \in Changers : Leaves(s, o)' => s # r /\ Leaves(s, o)
    BY <1>2, <1>3, <1>4 DEF Leaves, Leaving, Owners
  <1>11. \A o \in Organisations : Owners(o)' = Owners(o)
    BY <1>4 DEF Owners
  <1>12. LeaversHold' /\ OwnerRemains'
    BY <1>3, <1>4, <1>10, <1>11 DEF OrgInv, LeaversHold, OwnerRemains
  <1> QED BY <1>8, <1>9, <1>12 DEF OrgInv

\* Inviting keeps the part of the invariant about organisations.
LEMMA InviteHolds ==
  ASSUME MembersTypeOK, OrgInv, NEW by \in People, NEW p \in People, NEW o \in Organisations,
         NEW to \in Roles, Invite(by, o, p, to)
  PROVE  OrgInv'
  <1>1. PICK f \in ChangeStates : f = [NoChange EXCEPT !.op = "add", !.org = o, !.who = p, !.to = to]
    BY RowChangeTyped
  <1>2. f.op = "add" /\ f.org = o /\ f.who = p /\ f.to = to
    BY <1>1 DEF NoChange
  <1>3. PICK r \in Changers :
           /\ ~Open(r) /\ change'[r] = f
           /\ \A s \in Changers : s # r => change'[s] = change[s]
    BY <1>1, BeginOpens DEF Invite
  <1>4. UNCHANGED <<role, founder, crossed>>
    BY DEF Invite
  <1>5. role[o][p] = "none" /\ founder[o] # Absent
    BY DEF Invite, OrgInv, FoundingsHold, Owners
  <1>6. /\ \A s \in Changers : change[s].op \in {"add", "set"} =>
             change[s].org # o \/ change[s].who # p
        /\ \A s \in Changers : change[s].op = "found" => change[s].who # p
    BY DEF Invite, RowTaken, LockedBy
  <1>7. RowsHold'
    BY <1>2, <1>3, <1>4, <1>5, <1>6 DEF OrgInv, RowsHold, Open
  <1>8. FoundingsHold'
    BY <1>2, <1>3, <1>4, <1>6 DEF OrgInv, FoundingsHold, InAnyOrg
  <1>9. \A x \in Organisations, s \in Changers : Leaves(s, x)' => s # r /\ Leaves(s, x)
    BY <1>2, <1>3, <1>4 DEF Leaves, Leaving, Owners
  <1>10. \A x \in Organisations : Owners(x)' = Owners(x)
    BY <1>4 DEF Owners
  <1>11. LeaversHold' /\ OwnerRemains'
    BY <1>3, <1>4, <1>9, <1>10 DEF OrgInv, LeaversHold, OwnerRemains
  <1> QED BY <1>7, <1>8, <1>11 DEF OrgInv

\* So does changing a role or removing a member, an owner's included.
LEMMA SetRoleHolds ==
  ASSUME MembersTypeOK, OrgInv, NEW by \in People, NEW p \in People, NEW o \in Organisations,
         NEW to \in Roles \cup {"none"}, SetRole(by, o, p, to)
  PROVE  OrgInv'
  <1>1. PICK f \in ChangeStates : f = [NoChange EXCEPT !.op = "set", !.org = o, !.who = p, !.to = to]
    BY RowChangeTyped
  <1>2. f.op = "set" /\ f.org = o /\ f.who = p /\ f.to = to
    BY <1>1 DEF NoChange
  <1>3. PICK r \in Changers :
           /\ ~Open(r) /\ change'[r] = f
           /\ \A s \in Changers : s # r => change'[s] = change[s]
    BY <1>1, BeginOpens DEF SetRole
  <1>4. UNCHANGED <<role, founder>>
    BY DEF SetRole
  <1>5. role[o][p] # "none" /\ founder[o] # Absent
    BY DEF SetRole, OrgInv, FoundingsHold
  <1>6. \A s \in Changers : change[s].op \in {"add", "set"} =>
             change[s].org # o \/ change[s].who # p
    BY DEF SetRole, RowTaken
  <1>7. RowsHold'
    BY <1>2, <1>3, <1>4, <1>5, <1>6 DEF OrgInv, RowsHold, Open
  <1>8. FoundingsHold'
    BY <1>2, <1>3, <1>4 DEF OrgInv, FoundingsHold, InAnyOrg
  <1>9. \A x \in Organisations, s \in Changers : Leaves(s, x)' =>
          \/ s # r /\ Leaves(s, x)
          \/ s = r /\ x = o /\ Leaving(o, p, to)
    BY <1>2, <1>3, <1>4 DEF Leaves, Leaving, Owners
  <1>10. \A x \in Organisations : Owners(x)' = Owners(x)
    BY <1>4 DEF Owners
  <1>11. crossed \subseteq crossed' /\ (Leaving(o, p, to) /\ LeavingNow(o) => o \in crossed')
    BY DEF SetRole
  <1>12. OwnerRemains'
    BY <1>4, <1>10, <1>11 DEF OrgInv, OwnerRemains
  <1>13. Leaving(o, p, to) => Owners(o) \ {p} # {}
    BY DEF SetRole
  <1>14. LeaversHold'
    <2> SUFFICES ASSUME NEW x \in Organisations \ crossed', NEW s \in Changers, Leaves(s, x)'
                 PROVE  /\ Owners(x)' \ {change'[s].who} # {}
                        /\ \A v \in Changers : Leaves(v, x)' => v = s
      BY DEF LeaversHold
    <2>1. CASE x = o /\ Leaving(o, p, to)
      <3>1. \A v \in Changers : ~Leaves(v, o)
        BY <1>11, <2>1 DEF LeavingNow, Leaves
      <3>2. \A v \in Changers : Leaves(v, x)' => v = r
        BY <1>9, <2>1, <3>1
      <3> QED BY <1>2, <1>3, <1>10, <1>13, <2>1, <3>2
    <2>2. CASE ~(x = o /\ Leaving(o, p, to))
      <3>1. \A v \in Changers : Leaves(v, x)' => v # r /\ Leaves(v, x)
        BY <1>9, <2>2
      <3>2. x \in Organisations \ crossed
        BY <1>11
      <3> QED BY <1>3, <1>10, <3>1, <3>2 DEF OrgInv, LeaversHold
    <2> QED BY <2>1, <2>2
  <1> QED BY <1>7, <1>8, <1>12, <1>14 DEF OrgInv

\* So does a change that is rolled back.
LEMMA RollBackHolds ==
  ASSUME MembersTypeOK, OrgInv, NEW r \in Changers, RollBack(r)
  PROVE  OrgInv'
  <1>1. /\ change'[r].op = "none"
        /\ \A s \in Changers : s # r => change'[s] = change[s]
    BY DEF RollBack, NoChange, MembersTypeOK
  <1>2. UNCHANGED <<role, founder, crossed>>
    BY DEF RollBack
  <1>3. RowsHold'
    BY <1>1, <1>2 DEF OrgInv, RowsHold, Open
  <1>4. FoundingsHold'
    BY <1>1, <1>2 DEF OrgInv, FoundingsHold, InAnyOrg
  <1>5. \A x \in Organisations, s \in Changers : Leaves(s, x)' => s # r /\ Leaves(s, x)
    BY <1>1, <1>2 DEF Leaves, Leaving, Owners
  <1>6. \A x \in Organisations : Owners(x)' = Owners(x)
    BY <1>2 DEF Owners
  <1>7. LeaversHold' /\ OwnerRemains'
    BY <1>1, <1>2, <1>5, <1>6 DEF OrgInv, LeaversHold, OwnerRemains
  <1> QED BY <1>3, <1>4, <1>7 DEF OrgInv

\* So does a change that commits, whichever committed before it.
LEMMA CommitHolds ==
  ASSUME MembersTypeOK, OrgInv, NEW r \in Changers, Commit(r)
  PROVE  OrgInv'
  <1> USE DEF OrgInv
  <1>1. PICK o \in Organisations, p \in People :
    /\ change[r].org = o /\ change[r].who = p
    /\ change'[r].op = "none"
    /\ \A s \in Changers : s # r => change'[s] = change[s]
    /\ role'[o][p] = change[r].to
    /\ \A x \in Organisations, y \in People : <<x, y>> # <<o, p>> => role'[x][y] = role[x][y]
    /\ change[r].op = "found" => founder'[o] = p
    /\ change[r].op # "found" => founder'[o] = founder[o]
    /\ \A x \in Organisations : x # o => founder'[x] = founder[x]
    BY CommitShape
  <1>2. UNCHANGED crossed /\ change[r].op \in {"found", "add", "set"}
    BY DEF Commit, Open, MembersTypeOK
  <1>3. \A x \in Organisations : founder[x] # Absent => founder'[x] = founder[x]
    BY <1>1 DEF FoundingsHold
  <1>4. founder'[o] # Absent
    BY <1>1, <1>2, MembersAssumption DEF RowsHold
  \* Nothing open is about the row that was written, save another founding.
  <1>5. ASSUME NEW s \in Changers, s # r, change[s].op \in {"add", "set"}
        PROVE  change[s].org # o \/ change[s].who # p
    <2>1. CASE change[r].op = "found"
      BY <1>1, <1>5, <2>1 DEF RowsHold, FoundingsHold
    <2>2. CASE change[r].op \in {"add", "set"}
      BY <1>1, <1>5, <2>2 DEF RowsHold
    <2> QED BY <1>2, <2>1, <2>2
  <1>6. ASSUME NEW s \in Changers, s # r, change[s].op = "found"
        PROVE  change[s].org # o /\ change[s].who # p
    <2>1. CASE change[r].op = "found"
      BY <1>1, <1>6, <2>1 DEF FoundingsHold
    <2>2. CASE change[r].op = "add"
      BY <1>1, <1>6, <2>2 DEF RowsHold, FoundingsHold
    <2>3. CASE change[r].op = "set"
      BY <1>1, <1>6, <2>3 DEF RowsHold, FoundingsHold, InAnyOrg
    <2> QED BY <1>2, <2>1, <2>2, <2>3
  <1>7. \A s \in Changers : change'[s].op # "none" => s # r /\ change'[s] = change[s]
    BY <1>1
  <1>8. RowsHold'
    <2>1. \A s \in Changers : change'[s].op # "none" =>
            change'[s].org \in Organisations /\ change'[s].who \in People
      BY <1>7 DEF RowsHold, Open
    <2>2. \A s, v \in Changers :
            /\ change'[s].op \in {"add", "set"} /\ change'[v].op \in {"add", "set"}
            /\ change'[s].org = change'[v].org /\ change'[s].who = change'[v].who
            => s = v
      BY <1>7 DEF RowsHold
    <2>3. ASSUME NEW s \in Changers, change'[s].op \in {"add", "set"}
          PROVE  /\ founder'[change'[s].org] # Absent
                 /\ change'[s].op = "add" => role'[change'[s].org][change'[s].who] = "none"
                 /\ change'[s].op = "set" => role'[change'[s].org][change'[s].who] # "none"
      <3>1. s # r /\ change'[s] = change[s]
        BY <1>7, <2>3
      <3>2. change[s].org \in Organisations /\ change[s].who \in People
        BY <2>1, <2>3, <3>1
      <3>3. role'[change[s].org][change[s].who] = role[change[s].org][change[s].who]
        BY <1>1, <1>5, <2>3, <3>1, <3>2
      <3>4. founder[change[s].org] # Absent
        BY <2>3, <3>1 DEF RowsHold
      <3>5. founder'[change[s].org] # Absent
        BY <1>3, <3>2, <3>4
      <3> QED BY <2>3, <3>1, <3>3, <3>5 DEF RowsHold
    <2> QED BY <2>1, <2>2, <2>3 DEF RowsHold, Open
  <1>9. FoundingsHold'
    <2>1. \A x \in Organisations : founder'[x] = Absent => \A y \in People : role'[x][y] = "none"
      BY <1>1, <1>4 DEF FoundingsHold
    <2>2. ASSUME NEW s \in Changers, change'[s].op = "found"
          PROVE  /\ founder'[change'[s].org] = Absent /\ change'[s].to = "owner"
                 /\ \A x \in Organisations : role'[x][change'[s].who] = "none"
      <3>1. s # r /\ change'[s] = change[s]
        BY <1>7, <2>2
      <3>2. change[s].org # o /\ change[s].who # p
        BY <1>6, <2>2, <3>1
      <3>3. change[s].org \in Organisations /\ change[s].who \in People
        BY <2>2, <3>1 DEF RowsHold, Open
      <3> QED BY <1>1, <2>2, <3>1, <3>2, <3>3 DEF FoundingsHold, InAnyOrg
    <2>3. \A s, v \in Changers : change'[s].op = "found" =>
            /\ change'[v].op = "found" /\ change'[v].org = change'[s].org => v = s
            /\ change'[v].op \in {"found", "add"} /\ change'[v].who = change'[s].who => v = s
      BY <1>7 DEF FoundingsHold
    <2> QED BY <2>1, <2>2, <2>3 DEF FoundingsHold, InAnyOrg
  <1>10. \A x \in Organisations \ {o} : Owners(x)' = Owners(x)
    BY <1>1 DEF Owners
  <1>11. Owners(o)' = IF change[r].to = "owner" THEN Owners(o) \cup {p} ELSE Owners(o) \ {p}
    BY <1>1 DEF Owners
  <1>12. ASSUME NEW s \in Changers, NEW x \in Organisations, Leaves(s, x)'
         PROVE  Leaves(s, x) /\ s # r /\ change'[s] = change[s] /\ (x = o => change[s].who # p)
    <2>1. change'[s].op = "set" /\ change'[s].org = x /\ change'[s].who \in Owners(x)'
          /\ change'[s].to # "owner"
      BY <1>12 DEF Leaves, Leaving
    <2>2. s # r /\ change'[s] = change[s]
      BY <1>7, <2>1
    <2>3. x = o => change[s].who # p
      BY <1>5, <2>1, <2>2
    <2>4. change[s].who \in Owners(x)
      BY <1>10, <1>11, <2>1, <2>2, <2>3
    <2> QED BY <2>1, <2>2, <2>3, <2>4 DEF Leaves, Leaving
  <1>13. ASSUME NEW x \in Organisations \ crossed, founder'[x] # Absent
         PROVE  Owners(x)' # {}
    <2>1. CASE x # o
      BY <1>1, <1>10, <1>13, <2>1 DEF OwnerRemains
    <2>2. CASE x = o /\ change[r].to = "owner"
      BY <1>11, <2>2
    <2>3. CASE x = o /\ change[r].to # "owner"
      <3>1. change[r].op # "found" /\ founder[o] # Absent
        BY <1>1, <1>2, <2>3 DEF FoundingsHold, RowsHold
      <3>2. CASE p \in Owners(o)
        <4>1. change[r].op = "set"
          BY <1>1, <1>2, <3>1, <3>2 DEF RowsHold, Owners
        <4>2. Leaves(r, o)
          BY <1>1, <2>3, <3>2, <4>1 DEF Leaves, Leaving
        <4> QED BY <1>1, <1>11, <2>3, <4>2 DEF LeaversHold
      <3>3. CASE p \notin Owners(o)
        BY <1>11, <2>3, <3>1, <3>3 DEF OwnerRemains
      <3> QED BY <3>2, <3>3
    <2> QED BY <2>1, <2>2, <2>3
  <1>14. OwnerRemains'
    BY <1>2, <1>13 DEF OwnerRemains
  <1>15. LeaversHold'
    <2> SUFFICES ASSUME NEW x \in Organisations \ crossed, NEW s \in Changers, Leaves(s, x)'
                 PROVE  /\ Owners(x)' \ {change'[s].who} # {}
                        /\ \A v \in Changers : Leaves(v, x)' => v = s
      BY <1>2 DEF LeaversHold
    <2>1. Leaves(s, x) /\ s # r /\ change'[s] = change[s] /\ (x = o => change[s].who # p)
      BY <1>12
    <2>2. /\ Owners(x) \ {change[s].who} # {}
          /\ \A v \in Changers : Leaves(v, x) => v = s
      BY <2>1 DEF LeaversHold
    <2>3. Owners(x)' \ {change[s].who} # {}
      <3>1. CASE x # o
        BY <1>10, <2>2, <3>1
      <3>2. CASE x = o /\ change[r].to = "owner"
        BY <1>11, <2>2, <3>2
      <3>3. CASE x = o /\ change[r].to # "owner"
        <4>1. ~Leaves(r, o)
          BY <2>1, <2>2, <3>3
        <4>2. p \notin Owners(o)
          <5>1. change[r].op = "found" \/ change[r].op = "add" => role[o][p] = "none"
            BY <1>1 DEF RowsHold, FoundingsHold
          <5> QED BY <1>1, <1>2, <3>3, <4>1, <5>1 DEF Leaves, Leaving, Owners
        <4> QED BY <1>11, <2>2, <3>3, <4>2
      <3> QED BY <3>1, <3>2, <3>3
    <2> QED BY <1>12, <2>1, <2>2, <2>3
  <1> QED BY <1>8, <1>9, <1>14, <1>15

\* Every step keeps the part of the invariant about organisations.
LEMMA MembersOrgStep ==
  ASSUME MembersTypeOK, OrgInv, [MembersNext]_memberVars
  PROVE  OrgInv'
  <1>1. CASE UNCHANGED memberVars
    BY <1>1, NothingOnRowsMoves DEF memberVars, orgVars
  <1>2. CASE MembersNext
    <2>1. ASSUME NEW p \in People, NEW c \in Clicks \cup {Absent}, CreateOrg(p, c)
          PROVE  OrgInv'
      BY <2>1, CreateOrgHolds
    <2>2. ASSUME NEW by \in People, NEW p \in People, NEW o \in Organisations,
                 \/ \E to \in Roles : Invite(by, o, p, to)
                 \/ \E to \in Roles \cup {"none"} : SetRole(by, o, p, to)
          PROVE  OrgInv'
      BY <2>2, InviteHolds, SetRoleHolds
    <2>3. ASSUME NEW r \in Changers, Commit(r) \/ RollBack(r)
          PROVE  OrgInv'
      BY <2>3, CommitHolds, RollBackHolds
    <2>4. CASE UNCHANGED orgVars
      BY <2>4, NothingOnRowsMoves DEF orgVars
    <2>5. \/ \E p \in People, c \in Clicks \cup {Absent} : CreateOrg(p, c)
          \/ \E by, p \in People, o \in Organisations :
               \/ \E to \in Roles : Invite(by, o, p, to)
               \/ \E to \in Roles \cup {"none"} : SetRole(by, o, p, to)
          \/ \E r \in Changers : Commit(r) \/ RollBack(r)
          \/ UNCHANGED orgVars
      BY <1>2 DEF MembersNext, MakeCode, ExpireCode, Link, Notify, ShowQueue, HearButton,
                  HearText, PressApprove, PressEdit, AnswerPrompt, Drop
    <2> QED BY <2>1, <2>2, <2>3, <2>4, <2>5
  <1> QED BY <1>1, <1>2

-----------------------------------------------------------------------------
\* Chats.
LEMMA DecidedRightly ==
  ASSUME MembersTypeOK, HearsRight, ChatDecisionsAllowed,
         NEW u \in Updates, hearing[u].what # "none", NEW bid,
         \/ MayApprove(hearing[u]) /\ Decide(hearing[u], bid)
         \/ UNCHANGED rightly
  PROVE  rightly'
  <1>1. hearing[u].since \in BOOLEAN
    BY DEF MembersTypeOK
  <1>2. CASE UNCHANGED rightly
    BY <1>2 DEF ChatDecisionsAllowed
  <1>3. CASE /\ MayApprove(hearing[u]) /\ hearing[u].org = bid
             /\ rightly' = (hearing[u].since \/ role[bid][hearing[u].who] \in Approvers)
    <2>1. CASE hearing[u].since
      BY <1>3, <2>1
    <2>2. CASE ~hearing[u].since
      <3>1. role[hearing[u].org][hearing[u].who] = hearing[u].role
        BY <2>2 DEF HearsRight
      <3> QED BY <1>3, <3>1 DEF MayApprove
    <2> QED BY <2>1, <2>2
  <1> QED BY <1>2, <1>3 DEF Decide

\* Hearing one update keeps the others as they were resolved.
LEMMA HearingHolds ==
  ASSUME MembersTypeOK, HearsRight, NEW u \in Updates, UNCHANGED role,
         \A v \in Updates : v # u => hearing'[v] = hearing[v],
         \/ hearing'[u].what = "none"
         \/ /\ hearing'[u].org \in Organisations /\ hearing'[u].who \in People
            /\ role[hearing'[u].org][hearing'[u].who] = hearing'[u].role
  PROVE  HearsRight'
  <1> SUFFICES ASSUME NEW v \in Updates, hearing'[v].what # "none", ~hearing'[v].since
               PROVE  /\ hearing'[v].org \in Organisations /\ hearing'[v].who \in People
                      /\ role[hearing'[v].org][hearing'[v].who] = hearing'[v].role
    BY DEF HearsRight
  <1>1. CASE v = u
    BY <1>1
  <1>2. CASE v # u
    BY <1>2 DEF HearsRight
  <1> QED BY <1>1, <1>2

\* A role that changes makes every hearing in hand outdated, and marked so.
LEMMA UnsettledHolds ==
  ASSUME MembersTypeOK, hearing' = Unsettle
  PROVE  HearsRight'
  BY UnsettleKeepsType DEF HearsRight

\* Every step keeps the part of the invariant about decisions by chat.
LEMMA MembersChatStep ==
  ASSUME MembersTypeOK, HearsRight, ChatDecisionsAllowed, [MembersNext]_memberVars
  PROVE  HearsRight' /\ ChatDecisionsAllowed'
  <1> USE DEF orgVars, chatVars
  <1>1. ASSUME UNCHANGED <<role, hearing, rightly>>
        PROVE  HearsRight' /\ ChatDecisionsAllowed'
    BY <1>1 DEF HearsRight, ChatDecisionsAllowed
  <1>2. ASSUME hearing' = Unsettle, UNCHANGED rightly
        PROVE  HearsRight' /\ ChatDecisionsAllowed'
    BY <1>2, UnsettledHolds DEF ChatDecisionsAllowed
  <1>3. CASE UNCHANGED memberVars
    BY <1>1, <1>3 DEF memberVars
  <1>4. ASSUME NEW p \in People, NEW c \in Clicks \cup {Absent}, CreateOrg(p, c)
        PROVE  HearsRight' /\ ChatDecisionsAllowed'
    BY <1>1, <1>4 DEF CreateOrg
  <1>5. ASSUME NEW by \in People, NEW p \in People, NEW o \in Organisations,
               \/ \E to \in Roles : Invite(by, o, p, to)
               \/ \E to \in Roles \cup {"none"} : SetRole(by, o, p, to)
        PROVE  HearsRight' /\ ChatDecisionsAllowed'
    BY <1>1, <1>5 DEF Invite, SetRole
  <1>6. ASSUME NEW r \in Changers, Commit(r) \/ RollBack(r)
        PROVE  HearsRight' /\ ChatDecisionsAllowed'
    BY <1>1, <1>2, <1>6 DEF Commit, RollBack
  <1>7. ASSUME NEW p \in People, MakeCode(p)
        PROVE  HearsRight' /\ ChatDecisionsAllowed'
    BY <1>1, <1>7 DEF MakeCode
  <1>8. ASSUME NEW k \in Codes, ExpireCode(k) \/ \E c \in Chats : Link(c, k)
        PROVE  HearsRight' /\ ChatDecisionsAllowed'
    BY <1>1, <1>2, <1>8 DEF ExpireCode, Link
  <1>9. ASSUME NEW o \in Organisations, Notify(o)
        PROVE  HearsRight' /\ ChatDecisionsAllowed'
    BY <1>1, <1>9 DEF Notify
  <1>10. ASSUME NEW c \in Chats, ShowQueue(c)
         PROVE  HearsRight' /\ ChatDecisionsAllowed'
    BY <1>1, <1>10 DEF ShowQueue
  <1>11. ASSUME NEW u \in Updates, NEW c \in Chats,
                \/ \E o \in Organisations, what \in {"approve", "edit"} : HearButton(u, c, o, what)
                \/ HearText(u, c)
         PROVE  HearsRight' /\ ChatDecisionsAllowed'
    <2>1. \E heard \in HearingStates : Speaker(u, c, heard)
      BY <1>11, HeardIsTyped DEF HearButton, HearText
    <2>2. UNCHANGED <<role, rightly>>
      BY <1>11 DEF HearButton, HearText
    <2> QED BY <2>1, <2>2, SpeakerTyped, HearingHolds DEF ChatDecisionsAllowed
  <1>12. ASSUME NEW u \in Updates, PressApprove(u) \/ PressEdit(u) \/ AnswerPrompt(u) \/ Drop(u)
         PROVE  HearsRight' /\ ChatDecisionsAllowed'
    <2>1. Heard(u) /\ UNCHANGED role
      BY <1>12 DEF PressApprove, PressEdit, AnswerPrompt, Drop, Heard
    <2>2. HearsRight'
      BY <2>1, HeardTyped, HearingHolds
    <2>3. CASE PressApprove(u)
      <3>1. \/ MayApprove(hearing[u]) /\ Decide(hearing[u], hearing[u].bid)
            \/ UNCHANGED rightly
        BY <2>3 DEF PressApprove
      <3>2. hearing[u].what # "none"
        BY <2>3 DEF PressApprove
      <3> QED BY <2>2, <3>1, <3>2, DecidedRightly DEF ChatDecisionsAllowed
    <2>4. CASE AnswerPrompt(u)
      <3>1. \/ /\ MayApprove(hearing[u])
               /\ Decide(hearing[u], prompt[hearing[u].chat])
            \/ UNCHANGED rightly
        BY <2>4 DEF AnswerPrompt
      <3>2. hearing[u].what # "none"
        BY <2>4 DEF AnswerPrompt
      <3> QED BY <2>2, <3>1, <3>2, DecidedRightly DEF ChatDecisionsAllowed
    <2>5. CASE PressEdit(u) \/ Drop(u)
      BY <2>2, <2>5 DEF PressEdit, Drop, ChatDecisionsAllowed
    <2> QED BY <1>12, <2>2, <2>3, <2>4, <2>5
  <1> HIDE DEF orgVars, chatVars
  <1> QED BY <1>3, <1>4, <1>5, <1>6, <1>7, <1>8, <1>9, <1>10, <1>11, <1>12 DEF MembersNext

\* Before any member joins the invariant holds.
LEMMA MembersInitHolds == MembersInit => MembersInv
  <1> SUFFICES ASSUME MembersInit PROVE MembersInv
    OBVIOUS
  <1>1. MembersTypeOK
    BY MembersInitTypes
  <1>2. \A r \in Changers : change[r].op = "none"
    BY DEF MembersInit, NoChange
  <1>3. \A u \in Updates : hearing[u].what = "none"
    BY DEF MembersInit, Silence
  <1>4. PICK o \in AnyOrg, p \in People \cup {Absent} :
          Founded(o, p) /\ (p = Absent => o = Absent)
    BY MembersAssumption DEF MembersInit, AnyOrg
  <1>5. \A x \in Organisations :
          \/ founder[x] = Absent /\ \A y \in People : role[x][y] = "none"
          \/ p \in People /\ role[x][p] = "owner" /\ founder[x] = p
    BY <1>4, MembersAssumption DEF Founded, AnyOrg
  <1>6. RowsHold /\ LeaversHold
    BY <1>2 DEF RowsHold, LeaversHold, Open, Leaves
  <1>7. FoundingsHold
    BY <1>2, <1>5, MembersAssumption DEF FoundingsHold
  <1>8. OwnerRemains
    BY <1>5 DEF OwnerRemains, Owners
  <1>9. HearsRight /\ ChatDecisionsAllowed
    BY <1>3 DEF HearsRight, ChatDecisionsAllowed, MembersInit
  <1> QED BY <1>1, <1>6, <1>7, <1>8, <1>9 DEF MembersInv

\* Every step on members and updates keeps the invariant.
LEMMA MembersNextHolds == MembersInv /\ [MembersNext]_memberVars => MembersInv'
  <1> SUFFICES ASSUME MembersInv, [MembersNext]_memberVars PROVE MembersInv'
    OBVIOUS
  <1>1. MembersTypeOK /\ OrgInv /\ HearsRight /\ ChatDecisionsAllowed
    BY DEF MembersInv, OrgInv
  <1>2. MembersTypeOK'
    <2>1. CASE MembersNext
      BY <1>1, <2>1, MembersTypes DEF OrgInv
    <2>2. CASE UNCHANGED memberVars
      BY <1>1, <2>2 DEF memberVars, orgVars, chatVars, MembersTypeOK
    <2> QED BY <2>1, <2>2
  <1>3. OrgInv'
    BY <1>1, MembersOrgStep
  <1>4. HearsRight' /\ ChatDecisionsAllowed'
    BY <1>1, MembersChatStep
  <1> QED BY <1>2, <1>3, <1>4 DEF MembersInv, OrgInv

\* The invariant holds of every reachable state.
LEMMA MembersInvariant == MembersSpec => []MembersInv
  BY MembersInitHolds, MembersNextHolds, PTL DEF MembersSpec

\* However owners promote, demote and remove each other and themselves (SetRole, the
\* trigger of 0009_auth.sql), every organisation keeps an owner, unless two of its
\* owners were being removed at once.
THEOREM OrganisationKeepsOwner == MembersSpec => []OwnerRemains
  <1>1. MembersInv => OwnerRemains
    BY DEF MembersInv
  <1> QED BY <1>1, MembersInvariant, PTL

\* A bid is decided on by chat only by somebody who may approve in its organisation
\* (handleCallback, handleText of engine.ts), save for what changes under one update.
THEOREM ChatDecidersMayApprove == MembersSpec => []ChatDecisionsAllowed
  <1>1. MembersInv => ChatDecisionsAllowed
    BY DEF MembersInv
  <1> QED BY <1>1, MembersInvariant, PTL

\* app.create_org founds nothing for somebody who is in an organisation, whoever adds
\* the person elsewhere meanwhile, and a credited click stays credited.
THEOREM NobodyFoundsFromWithin == MembersSpec => FoundedOutside
  <1> DEFINE Step ==
        /\ \A o \in Organisations : founder[o] # founder'[o] => ~InAnyOrg(founder'[o])
        /\ \A c \in Clicks : credited[c] # Absent => credited'[c] = credited[c]
  <1>1. ASSUME MembersInv, [MembersNext]_memberVars
        PROVE  [Step]_memberVars
    <2>1. MembersTypeOK /\ RowsHold /\ FoundingsHold
      BY <1>1 DEF MembersInv
    <2>2. CASE UNCHANGED <<founder, credited>>
      BY <2>2
    <2>3. ASSUME NEW r \in Changers, Commit(r)
          PROVE  Step
      <3>1. PICK o \in Organisations, p \in People :
              /\ change[r].org = o /\ change[r].who = p
              /\ change[r].op = "found" => founder'[o] = p
              /\ change[r].op # "found" => founder'[o] = founder[o]
              /\ \A x \in Organisations : x # o => founder'[x] = founder[x]
              /\ \A k \in Clicks : credited[k] # Absent => credited'[k] = credited[k]
        BY <2>1, <2>3, CommitShape
      <3>2. change[r].op = "found" => ~InAnyOrg(p)
        BY <2>1, <3>1 DEF FoundingsHold
      <3> QED BY <3>1, <3>2
    <2>4. CASE UNCHANGED memberVars
      BY <2>2, <2>4 DEF memberVars, orgVars
    <2>5. CASE MembersNext
      <3>1. ASSUME \/ \E p \in People, c \in Clicks \cup {Absent} : CreateOrg(p, c)
                   \/ \E by, p \in People, o \in Organisations, to \in Roles : Invite(by, o, p, to)
                   \/ \E by, p \in People, o \in Organisations, to \in Roles \cup {"none"} :
                        SetRole(by, o, p, to)
                   \/ \E r \in Changers : RollBack(r)
            PROVE  UNCHANGED <<founder, credited>>
        BY <3>1 DEF CreateOrg, Invite, SetRole, RollBack
      <3>2. ASSUME \/ \E p \in People : MakeCode(p)
                   \/ \E k \in Codes : ExpireCode(k) \/ \E c \in Chats : Link(c, k)
                   \/ \E o \in Organisations : Notify(o)
                   \/ \E c \in Chats : ShowQueue(c)
            PROVE  UNCHANGED <<founder, credited>>
        BY <3>2 DEF orgVars, MakeCode, ExpireCode, Link, Notify, ShowQueue
      <3>3. ASSUME \E u \in Updates :
                     \/ \E c \in Chats, o \in Organisations, what \in {"approve", "edit"} :
                          HearButton(u, c, o, what)
                     \/ \E c \in Chats : HearText(u, c)
                     \/ PressApprove(u) \/ PressEdit(u) \/ AnswerPrompt(u) \/ Drop(u)
            PROVE  UNCHANGED <<founder, credited>>
        BY <3>3 DEF orgVars, HearButton, HearText, PressApprove, PressEdit, AnswerPrompt, Drop
      <3> QED BY <2>2, <2>3, <2>5, <3>1, <3>2, <3>3 DEF MembersNext
    <2> HIDE DEF Step
    <2> QED BY <1>1, <2>4, <2>5
  <1> QED BY <1>1, MembersInvariant, PTL DEF MembersSpec, FoundedOutside

=============================================================================
