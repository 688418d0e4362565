------------------------------- MODULE Members --------------------------------
(***************************************************************************)
(* People, organisations and chats: app.create_org (0039_terms_acceptance. *)
(* sql), memberships changed by owners under row-level security with the   *)
(* trigger that keeps an owner (0009_auth.sql), link codes                 *)
(* (apps/api/src/routes/telegram.ts) and the Telegram bot that decides on  *)
(* bids for the person a chat is linked to (apps/telegram/src/engine.ts).  *)
(*                                                                         *)
(* A change of memberships is a transaction under READ COMMITTED: it       *)
(* begins with its checks on what is committed and the locks it takes, and *)
(* is seen by others when it commits.  The bot reads who is speaking, and  *)
(* acts on it later, as the service, which no row-level security stops.    *)
(* Of a bid, here one per organisation, only its organisation is kept;     *)
(* what becomes of it is in BidSubmission.                                 *)
(***************************************************************************)
EXTENDS Integers, FiniteSets

CONSTANTS
  People, Organisations, Chats,
  Codes,        \* link codes that may be made
  Clicks,       \* referral clicks
  Changers,     \* transactions open at once
  Updates,      \* updates of Telegram handled at once
  Absent,       \* no person, organisation, chat or click
  MaxChanges    \* bound: transactions begun

ASSUME MembersAssumption ==
  /\ Absent \notin People \cup Organisations \cup Chats \cup Clicks
  /\ MaxChanges \in Nat

VARIABLES
  role,       \* memberships: the role in every organisation, or none
  founder,    \* organisations: who made them, Absent before
  credited,   \* attribution: the organisation a click is attached to
  change,     \* open transactions
  changes,    \* how many were begun
  code,       \* telegram_link_codes: whose they are, and whether one is still good
  chatOf,     \* users.telegram_chat_id
  shown,      \* cards with buttons lying in chats, <<chat, organisation of the bid>>
  prompt,     \* telegram_pending: the bid (its organisation) a chat is asked about
  hearing,    \* updates being handled, with what was read about the speaker
  rightly,    \* whether the last decision made by chat was the speaker's to make
  crossed     \* organisations two owners of which were being removed at once

orgVars == <<role, founder, credited, change, changes, crossed>>
chatVars == <<code, chatOf, shown, prompt, hearing, rightly>>
memberVars == <<orgVars, chatVars>>

Roles == {"owner", "operator", "viewer"}
Approvers == {"owner", "operator"}   \* canApprove, app.can_write
NoChange == [op |-> "none", org |-> Absent, who |-> Absent, to |-> "none", click |-> Absent]
Silence == [what |-> "none", chat |-> Absent, who |-> Absent, org |-> Absent,
            role |-> "viewer", bid |-> Absent, since |-> FALSE]

\* Somebody may have founded one organisation, and spent codes, before.
Founded(o, p) ==
  /\ founder = [q \in Organisations |-> IF q = o THEN p ELSE Absent]
  /\ role = [q \in Organisations |-> [r \in People |-> IF q = o /\ r = p THEN "owner" ELSE "none"]]
  /\ code \in {[k \in Codes |-> [of |-> q, good |-> FALSE]] : q \in {p, Absent}}

MembersInit ==
  /\ \/ \E o \in Organisations, p \in People : Founded(o, p)
     \/ Founded(Absent, Absent)
  /\ credited = [c \in Clicks |-> Absent]
  /\ change = [r \in Changers |-> NoChange] /\ changes = 0
  /\ chatOf = [p \in People |-> Absent]
  /\ shown = {} /\ prompt = [c \in Chats |-> Absent]
  /\ hearing = [u \in Updates |-> Silence]
  /\ rightly = TRUE /\ crossed = {}

-----------------------------------------------------------------------------
\* Transactions on memberships.
InAnyOrg(p) == \E o \in Organisations : role[o][p] # "none"
Owners(o) == {p \in People : role[o][p] = "owner"}
Open(r) == change[r].op # "none"

\* Names of rows and transactions are made up; any unused one will do.
Begin(c) ==
  /\ \E r \in Changers : ~Open(r)
  /\ changes < MaxChanges
  /\ change' = [change EXCEPT ![CHOOSE r \in Changers : ~Open(r)] = c]
  /\ changes' = changes + 1

\* The person's own row is locked for update by create_org, and for key share by a
\* membership that refers to it; the two wait for each other.
LockedBy(ops, p) == \E r \in Changers : change[r].op \in ops /\ change[r].who = p

Unfounded == {o \in Organisations : founder[o] = Absent}
           \ {change[r].org : r \in {r \in Changers : change[r].op = "found"}}
Founding(p, c) ==
  [op |-> "found", org |-> CHOOSE o \in Unfounded : TRUE, who |-> p, to |-> "owner", click |-> c]

\* Faulty variant: the person's row is read without a lock.
CreateOrgUnlocked(p, c) ==
  /\ Unfounded # {} /\ ~InAnyOrg(p)
  /\ Begin(Founding(p, c))
  /\ UNCHANGED <<role, founder, credited, crossed, chatVars>>

\* app.create_org, for the person whose session it is; someone in any organisation
\* is refused.  A new organisation is a row of its own.
CreateOrg(p, c) ==
  /\ Unfounded # {} /\ ~LockedBy({"found", "add"}, p) /\ ~InAnyOrg(p)
  /\ Begin(Founding(p, c))
  /\ UNCHANGED <<role, founder, credited, crossed, chatVars>>

RowTaken(o, p) ==
  \E r \in Changers : change[r].op \in {"add", "set"} /\ change[r].org = o /\ change[r].who = p

Invite(by, o, p, to) ==
  /\ by \in Owners(o)
  /\ role[o][p] = "none" /\ ~RowTaken(o, p) /\ ~LockedBy({"found"}, p)
  /\ Begin([NoChange EXCEPT !.op = "add", !.org = o, !.who = p, !.to = to])
  /\ UNCHANGED <<role, founder, credited, crossed, chatVars>>

Leaving(o, p, to) == p \in Owners(o) /\ to # "owner"
LeavingNow(o) == \E r \in Changers :
  change[r].op = "set" /\ change[r].org = o /\ Leaving(o, change[r].who, change[r].to)

\* Faulty variant: the count of the owners that remain has the one leaving in it.
SetRoleCountsAll(by, o, p, to) ==
  /\ by \in Owners(o) /\ role[o][p] # "none" /\ ~RowTaken(o, p)
  /\ Leaving(o, p, to) => Owners(o) # {}
  /\ Begin([NoChange EXCEPT !.op = "set", !.org = o, !.who = p, !.to = to])
  /\ crossed' = IF Leaving(o, p, to) /\ LeavingNow(o) THEN crossed \cup {o} ELSE crossed
  /\ UNCHANGED <<role, founder, credited, chatVars>>

\* A role changed or, with "none", a membership deleted.  The trigger counts the
\* other owners that are committed; it locks none of them.
SetRole(by, o, p, to) ==
  /\ by \in Owners(o) /\ role[o][p] # "none" /\ ~RowTaken(o, p)
  /\ Leaving(o, p, to) => Owners(o) \ {p} # {}
  /\ Begin([NoChange EXCEPT !.op = "set", !.org = o, !.who = p, !.to = to])
  /\ crossed' = IF Leaving(o, p, to) /\ LeavingNow(o) THEN crossed \cup {o} ELSE crossed
  /\ UNCHANGED <<role, founder, credited, chatVars>>

\* What an update read about its speaker may be out of date from here on.
Unsettle == [u \in Updates |-> IF hearing[u] = Silence THEN Silence ELSE [hearing[u] EXCEPT !.since = TRUE]]

Commit(r) ==
  LET c == change[r] IN
  /\ Open(r)
  /\ role' = [role EXCEPT ![c.org][c.who] = c.to]
  /\ founder' = IF c.op = "found" THEN [founder EXCEPT ![c.org] = c.who] ELSE founder
  /\ credited' = IF c.click # Absent /\ credited[c.click] = Absent
                 THEN [credited EXCEPT ![c.click] = c.org] ELSE credited
  /\ change' = [change EXCEPT ![r] = NoChange]
  /\ hearing' = Unsettle
  /\ UNCHANGED <<changes, crossed, code, chatOf, shown, prompt, rightly>>

RollBack(r) ==
  /\ Open(r)
  /\ change' = [change EXCEPT ![r] = NoChange]
  /\ UNCHANGED <<role, founder, credited, changes, crossed, chatVars>>

-----------------------------------------------------------------------------
\* Chats.
MakeCode(p) ==
  LET unused == {k \in Codes : code[k].of = Absent} IN
  /\ unused # {}
  /\ \E o \in Organisations : role[o][p] \in Approvers
  /\ code' = [code EXCEPT ![CHOOSE k \in unused : TRUE] = [of |-> p, good |-> TRUE]]
  /\ UNCHANGED <<orgVars, chatOf, shown, prompt, hearing, rightly>>

ExpireCode(k) ==
  /\ code[k].good
  /\ code' = [code EXCEPT ![k].good = FALSE]
  /\ UNCHANGED <<orgVars, chatOf, shown, prompt, hearing, rightly>>

\* /start <code>: the code is claimed, and the chat leaves whoever had it.
Link(c, k) ==
  LET p == code[k].of IN
  /\ code[k].good
  /\ code' = [code EXCEPT ![k].good = FALSE]
  /\ chatOf' = [q \in People |-> IF q = p THEN c ELSE IF chatOf[q] = c THEN Absent ELSE chatOf[q]]
  /\ hearing' = Unsettle
  /\ UNCHANGED <<orgVars, shown, prompt, rightly>>

\* notifyQueued: the card of a bid goes to every linked chat that may approve.
Notify(o) ==
  LET to == {chatOf[p] : p \in {p \in People : role[o][p] \in Approvers}} \ {Absent} IN
  /\ to # {} /\ shown' = shown \cup (to \X {o})
  /\ UNCHANGED <<orgVars, code, chatOf, prompt, hearing, rightly>>

\* linkedUser: the person of the chat, and the membership with the highest role.
Rank(r) == CASE r = "owner" -> 2 [] r = "operator" -> 1 [] OTHER -> 0
Best(p, o) ==
  /\ role[o][p] # "none"
  /\ \A q \in Organisations : role[q][p] # "none" => Rank(role[q][p]) <= Rank(role[o][p])

\* /queue: the cards of the speaker's organisation, whatever the role.
ShowQueue(c) ==
  /\ \E p \in People, o \in Organisations :
       chatOf[p] = c /\ Best(p, o) /\ shown' = shown \cup {<<c, o>>}
  /\ UNCHANGED <<orgVars, code, chatOf, prompt, hearing, rightly>>

Speaker(u, c, heard) ==
  \E p \in People, o \in Organisations :
    /\ chatOf[p] = c /\ Best(p, o)
    /\ hearing' = [hearing EXCEPT ![u] =
         [heard EXCEPT !.chat = c, !.who = p, !.org = o, !.role = role[o][p]]]

\* A button under a card, or a text where one is asked for.
HearButton(u, c, o, what) ==
  /\ hearing[u] = Silence /\ <<c, o>> \in shown
  /\ Speaker(u, c, [Silence EXCEPT !.what = what, !.bid = o])
  /\ UNCHANGED <<orgVars, code, chatOf, shown, prompt, rightly>>

HearText(u, c) ==
  /\ hearing[u] = Silence /\ prompt[c] # Absent
  /\ Speaker(u, c, [Silence EXCEPT !.what = "text"])
  /\ UNCHANGED <<orgVars, code, chatOf, shown, prompt, rightly>>

\* The update fails or its process dies; Telegram is answered, or sends it again.
Drop(u) ==
  /\ hearing[u] # Silence
  /\ hearing' = [hearing EXCEPT ![u] = Silence]
  /\ UNCHANGED <<orgVars, code, chatOf, shown, prompt, rightly>>

Heard(u) == hearing' = [hearing EXCEPT ![u] = Silence]
MayApprove(h) == h.role \in Approvers

\* approveBid, editBid and rejectBid change a bid of the speaker's organisation, if
\* its state allows it.
Decide(h, bid) ==
  \/ UNCHANGED rightly
  \/ h.org = bid /\ rightly' = (h.since \/ role[bid][h.who] \in Approvers)

PressApprove(u) ==
  LET h == hearing[u] IN
  /\ h.what = "approve" /\ Heard(u)
  /\ IF MayApprove(h) THEN Decide(h, h.bid) ELSE UNCHANGED rightly
  /\ UNCHANGED <<orgVars, code, chatOf, shown, prompt>>

PressEdit(u) ==
  LET h == hearing[u] IN
  /\ h.what = "edit" /\ Heard(u)
  /\ prompt' = IF MayApprove(h) THEN [prompt EXCEPT ![h.chat] = h.bid] ELSE prompt
  /\ UNCHANGED <<orgVars, code, chatOf, shown, rightly>>

\* Faulty variant: the role is held when the button is pressed only.
AnswerUnchecked(u) ==
  LET h == hearing[u] IN
  /\ h.what = "text" /\ Heard(u)
  /\ IF prompt[h.chat] = Absent THEN UNCHANGED <<prompt, rightly>>
     ELSE /\ prompt' = [prompt EXCEPT ![h.chat] = Absent]
          /\ Decide(h, prompt[h.chat])
  /\ UNCHANGED <<orgVars, code, chatOf, shown>>

\* The text answers whatever the chat is asked by now; the role is held again.
AnswerPrompt(u) ==
  LET h == hearing[u] IN
  /\ h.what = "text" /\ Heard(u)
  /\ IF prompt[h.chat] = Absent THEN UNCHANGED <<prompt, rightly>>
     ELSE /\ prompt' = [prompt EXCEPT ![h.chat] = Absent]
          /\ IF MayApprove(h) THEN Decide(h, prompt[h.chat]) ELSE UNCHANGED rightly
  /\ UNCHANGED <<orgVars, code, chatOf, shown>>

MembersNext ==
  \/ \E p \in People, c \in Clicks \cup {Absent} : CreateOrg(p, c)
  \/ \E by, p \in People, o \in Organisations :
       \/ \E to \in Roles : Invite(by, o, p, to)
       \/ \E to \in Roles \cup {"none"} : SetRole(by, o, p, to)
  \/ \E r \in Changers : Commit(r) \/ RollBack(r)
  \/ \E p \in People : MakeCode(p)
  \/ \E k \in Codes :
       \/ ExpireCode(k)
       \/ \E c \in Chats : Link(c, k)
  \/ \E o \in Organisations : Notify(o)
  \/ \E c \in Chats : ShowQueue(c)
  \/ \E u \in Updates :
       \/ \E c \in Chats, o \in Organisations, what \in {"approve", "edit"} : HearButton(u, c, o, what)
       \/ \E c \in Chats : HearText(u, c)
       \/ PressApprove(u) \/ PressEdit(u) \/ AnswerPrompt(u) \/ Drop(u)

MembersSpec == MembersInit /\ [][MembersNext]_memberVars

-----------------------------------------------------------------------------
AnyOrg == Organisations \cup {Absent}

\* Every variable keeps its type.
MembersTypeOK ==
  /\ role \in [Organisations -> [People -> Roles \cup {"none"}]]
  /\ founder \in [Organisations -> People \cup {Absent}]
  /\ credited \in [Clicks -> AnyOrg]
  /\ change \in [Changers ->
       [op : {"none", "found", "add", "set"}, org : AnyOrg, who : People \cup {Absent},
        to : Roles \cup {"none"}, click : Clicks \cup {Absent}]]
  /\ changes \in 0..MaxChanges
  /\ code \in [Codes -> [of : People \cup {Absent}, good : BOOLEAN]]
  /\ chatOf \in [People -> Chats \cup {Absent}]
  /\ shown \subseteq Chats \X Organisations
  /\ prompt \in [Chats -> AnyOrg]
  /\ hearing \in [Updates ->
       [what : {"none", "approve", "edit", "text"}, chat : Chats \cup {Absent},
        who : People \cup {Absent}, org : AnyOrg, role : Roles, bid : AnyOrg, since : BOOLEAN]]
  /\ rightly \in BOOLEAN /\ crossed \subseteq Organisations

\* "An org must keep at least one owner" (0009_auth.sql:78), however owners promote,
\* demote and remove each other and themselves, unless two of them were being
\* removed at once: the trigger counts without a lock.
OwnerRemains ==
  \A o \in Organisations \ crossed : founder[o] # Absent => Owners(o) # {}

\* "One self-service org per person" (0032_org_signup.sql:11): no organisation is
\* founded by somebody who is in one, however often the form is sent and whoever
\* adds the person elsewhere meanwhile; and a click that was credited stays so.
FoundedOutside ==
  [][/\ \A o \in Organisations : founder[o] # founder'[o] => ~InAnyOrg(founder'[o])
     /\ \A c \in Clicks : credited[c] # Absent => credited'[c] = credited[c]]_memberVars

\* "An approval is refused for a role that may not approve" (engine.ts:22): a bid is
\* decided on by chat only by somebody who may approve in its organisation, also
\* when the button was pressed before a demotion, or by the person the chat was
\* linked to before; what changes while a single update is handled is excused.
ChatDecisionsAllowed == rightly

-----------------------------------------------------------------------------
\* What carries OwnerRemains: a row is changed by one transaction at a time, an
\* organisation is founded by one, and the one owner on the way out leaves another.
Leaves(r, o) ==
  change[r].op = "set" /\ change[r].org = o /\ Leaving(o, change[r].who, change[r].to)

RowsHold ==
  /\ \A r \in Changers : Open(r) => change[r].org \in Organisations /\ change[r].who \in People
  /\ \A r, s \in Changers :
       /\ change[r].op \in {"add", "set"} /\ change[s].op \in {"add", "set"}
       /\ change[r].org = change[s].org /\ change[r].who = change[s].who
       => r = s
  /\ \A r \in Changers : change[r].op = "add" =>
       /\ founder[change[r].org] # Absent /\ role[change[r].org][change[r].who] = "none"
  /\ \A r \in Changers : change[r].op = "set" =>
       /\ founder[change[r].org] # Absent /\ role[change[r].org][change[r].who] # "none"

FoundingsHold ==
  /\ \A o \in Organisations : founder[o] = Absent => \A p \in People : role[o][p] = "none"
  /\ \A r \in Changers : change[r].op = "found" =>
       /\ founder[change[r].org] = Absent /\ change[r].to = "owner"
       /\ ~InAnyOrg(change[r].who)
       /\ \A s \in Changers :
            /\ change[s].op = "found" /\ change[s].org = change[r].org => s = r
            /\ change[s].op \in {"found", "add"} /\ change[s].who = change[r].who => s = r

LeaversHold ==
  \A o \in Organisations \ crossed : \A r \in Changers : Leaves(r, o) =>
    /\ Owners(o) \ {change[r].who} # {}
    /\ \A s \in Changers : Leaves(s, o) => s = r

\* What carries ChatDecisionsAllowed: what was read of a speaker is still so.
HearsRight == \A u \in Updates :
  hearing[u].what # "none" /\ ~hearing[u].since =>
    /\ hearing[u].org \in Organisations /\ hearing[u].who \in People
    /\ role[hearing[u].org][hearing[u].who] = hearing[u].role

MembersInv ==
  /\ MembersTypeOK /\ RowsHold /\ FoundingsHold /\ LeaversHold /\ OwnerRemains
  /\ HearsRight /\ ChatDecisionsAllowed

=============================================================================
