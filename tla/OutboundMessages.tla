-------------------------- MODULE OutboundMessages --------------------------
(***************************************************************************)
(* Replies to clients: the people who draft, approve, edit and reject      *)
(* (apps/api/src/routes/messages.ts), the send-message queue and worker    *)
(* (apps/workers/src/send-message.ts), and the two jobs that write the     *)
(* same rows: the inbox poll, which stores what it sees on the marketplace *)
(* (inbox-sync.ts), and retention, which redacts a conversation nobody has *)
(* touched for the whole period (packages/db/src/retention.ts).            *)
(*                                                                         *)
(* Each reply has its own job, so an attempt is named by its reply.        *)
(***************************************************************************)
EXTENDS Integers, Sequences, FiniteSets

CONSTANTS
  Replies,      \* messages of the app, direction out
  Threads,
  ThreadOf,     \* the thread each reply is written on
  Client,       \* who writes the other messages of a thread
  Redacted,     \* the text retention leaves behind
  Attempts,     \* BullMQ attempts of a job (queues.ts)
  MaxStalled,   \* BullMQ maxStalledCount
  MaxWords,     \* bound: per reply, versions of its words
  MaxInbound,   \* bound: messages of clients
  Retention,    \* whether the organisation has set a retention period
  Polling,      \* whether the inbox poll runs
  Faults        \* whether queries fail, processes die and answers get lost

ASSUME ConstantsAssumption ==
  /\ ThreadOf \in [Replies -> Threads]
  /\ Client \notin Replies
  /\ Redacted \notin Nat
  /\ Attempts \in Nat \ {0}
  /\ MaxStalled \in Nat
  /\ MaxWords \in [Replies -> Nat \ {0}]
  /\ MaxInbound \in Nat
  /\ Retention \in BOOLEAN /\ Polling \in BOOLEAN /\ Faults \in BOOLEAN

VARIABLES
  body, version,                              \* the messages rows: the words, and
  approved, rejected, failed, sentAs, wiped,  \* how many were written so far
  stored,                                     \* rows of origin platform
  idle, closed, redacted,                     \* the threads rows
  pendingAdd,                                 \* approvals not yet enqueued
  jobState, attemptsMade, stalled,            \* BullMQ's job per reply
  pc, read, answer,                           \* the attempt and its locals
  purge, due,                                 \* the retention run
  wire,                                       \* the marketplace's messages
  consent, tried                              \* history: words approved, words last loaded

rowVars == <<body, version, approved, rejected, failed, sentAs, wiped>>
threadVars == <<idle, closed, redacted>>
jobVars == <<jobState, attemptsMade, stalled>>
attemptVars == <<pc, read, answer>>
purgeVars == <<purge, due>>
history == <<consent, tried>>
vars == <<rowVars, stored, threadVars, pendingAdd, jobVars, attemptVars,
          purgeVars, wire, history>>

\* Words are numbered as they are written; 0 is a reply nobody has drafted yet.
Versions == UNION {0..MaxWords[m] : m \in Replies}

Init ==
  /\ body = [m \in Replies |-> 0] /\ version = [m \in Replies |-> 0]
  /\ approved = {} /\ rejected = {} /\ failed = {} /\ wiped = {}
  /\ sentAs = [m \in Replies |-> 0]
  /\ stored = {}
  /\ idle = {} /\ closed = {} /\ redacted = {}
  /\ pendingAdd = {}
  /\ jobState = [m \in Replies |-> "none"]
  /\ attemptsMade = [m \in Replies |-> 0]
  /\ stalled = [m \in Replies |-> 0]
  /\ pc = [m \in Replies |-> "idle"]
  /\ read = [m \in Replies |-> 0]
  /\ answer = [m \in Replies |-> 0]
  /\ purge = "idle" /\ due = {}
  /\ wire = <<>>
  /\ consent = {} /\ tried = [m \in Replies |-> 0]

-----------------------------------------------------------------------------
(***************************************************************************)
(* People: outboundMessageState decides what a reply may still become.     *)
(***************************************************************************)
Drafted == {m \in Replies : body[m] # 0}
Sent == {m \in Replies : sentAs[m] # 0}
Queued == Drafted \ (Sent \cup rejected \cup failed \cup approved)

Write(m) ==
  /\ version[m] < MaxWords[m]
  /\ version' = [version EXCEPT ![m] = @ + 1]
  /\ body' = [body EXCEPT ![m] = version[m] + 1]

Draft(m) ==
  /\ body[m] = 0
  /\ Write(m)
  /\ UNCHANGED <<approved, rejected, failed, sentAs, wiped, stored, threadVars,
                 pendingAdd, jobVars, attemptVars, purgeVars, wire, history>>

Approve(m) ==
  /\ m \in Queued
  /\ approved' = approved \cup {m}
  /\ consent' = consent \cup {<<m, body[m]>>}
  /\ pendingAdd' = pendingAdd \cup {m}
  /\ UNCHANGED <<body, version, rejected, failed, sentAs, wiped, stored, threadVars,
                 jobVars, attemptVars, purgeVars, wire, tried>>

\* The reason for the rejection is written to failure_reason.
Reject(m) ==
  /\ m \in Drafted \ (Sent \cup rejected)
  /\ rejected' = rejected \cup {m}
  /\ failed' = failed \cup {m}
  /\ approved' = approved \ {m}
  /\ UNCHANGED <<body, version, sentAs, wiped, stored, threadVars, pendingAdd, jobVars,
                 attemptVars, purgeVars, wire, history>>

\* Faulty variant: new words keep the approval of the old ones.
EditKeepsApproval(m) ==
  /\ m \in Drafted \ Sent
  /\ Write(m)
  /\ rejected' = rejected \ {m}
  /\ failed' = failed \ {m}
  /\ UNCHANGED <<approved, sentAs, wiped, stored, threadVars, pendingAdd,
                 jobVars, attemptVars, purgeVars, wire, history>>

Edit(m) ==
  /\ m \in Drafted \ Sent
  /\ Write(m)
  /\ approved' = approved \ {m}
  /\ rejected' = rejected \ {m}
  /\ failed' = failed \ {m}
  /\ UNCHANGED <<sentAs, wiped, stored, threadVars, pendingAdd, jobVars,
                 attemptVars, purgeVars, wire, history>>

-----------------------------------------------------------------------------
(***************************************************************************)
(* The queue.  A finished job keeps its id, and an add under it is dropped,*)
(* until a thousand later jobs have pushed it out.                         *)
(***************************************************************************)
Enqueue(m) ==
  /\ m \in pendingAdd
  /\ pendingAdd' = pendingAdd \ {m}
  /\ jobState' = IF jobState[m] = "none" THEN [jobState EXCEPT ![m] = "waiting"]
                 ELSE jobState
  /\ UNCHANGED <<rowVars, stored, threadVars, attemptsMade, stalled, attemptVars,
                 purgeVars, wire, history>>

LoseEnqueue(m) ==
  /\ Faults
  /\ m \in pendingAdd
  /\ pendingAdd' = pendingAdd \ {m}
  /\ UNCHANGED <<rowVars, stored, threadVars, jobVars, attemptVars, purgeVars,
                 wire, history>>

ForgetJob(m) ==
  /\ jobState[m] = "finished"
  /\ jobState' = [jobState EXCEPT ![m] = "none"]
  /\ UNCHANGED <<rowVars, stored, threadVars, pendingAdd, attemptsMade, stalled,
                 attemptVars, purgeVars, wire, history>>

Take(m) ==
  /\ jobState[m] = "waiting"
  /\ jobState' = [jobState EXCEPT ![m] = "active"]
  /\ pc' = [pc EXCEPT ![m] = "load"]
  /\ UNCHANGED <<rowVars, stored, threadVars, pendingAdd, attemptsMade, stalled,
                 read, answer, purgeVars, wire, history>>

Forget(m) ==
  /\ pc' = [pc EXCEPT ![m] = "idle"]
  /\ read' = [read EXCEPT ![m] = 0]
  /\ answer' = [answer EXCEPT ![m] = 0]

Finish(m) ==
  /\ jobState' = [jobState EXCEPT ![m] = "finished"]
  /\ attemptsMade' = [attemptsMade EXCEPT ![m] = 0]
  /\ stalled' = [stalled EXCEPT ![m] = 0]

\* Faulty variant: the attempt is not counted.
RetryUncounted(m) ==
  /\ jobState' = [jobState EXCEPT ![m] = "waiting"]
  /\ UNCHANGED <<attemptsMade, stalled>>
  /\ Forget(m)

\* Faulty variant: one attempt too many.
RetryOnceMore(m) ==
  /\ \/ /\ attemptsMade[m] < Attempts
        /\ jobState' = [jobState EXCEPT ![m] = "waiting"]
        /\ attemptsMade' = [attemptsMade EXCEPT ![m] = @ + 1]
        /\ UNCHANGED stalled
     \/ attemptsMade[m] >= Attempts /\ Finish(m)
  /\ Forget(m)

\* The attempt threw: the queue tries again, or the job has failed.
Retry(m) ==
  /\ \/ /\ attemptsMade[m] + 1 < Attempts
        /\ jobState' = [jobState EXCEPT ![m] = "waiting"]
        /\ attemptsMade' = [attemptsMade EXCEPT ![m] = @ + 1]
        /\ UNCHANGED stalled
     \/ attemptsMade[m] + 1 >= Attempts /\ Finish(m)
  /\ Forget(m)

\* A query of the attempt fails, or its answer is lost after it took effect.
DatabaseFails(m) ==
  /\ Faults
  /\ pc[m] \in {"load", "prepare", "mark", "thread", "refuse", "note"}
  /\ Retry(m)
  /\ UNCHANGED <<rowVars, stored, threadVars, pendingAdd, purgeVars, wire, history>>

Crash(m) ==
  /\ Faults
  /\ pc[m] # "idle"
  /\ \/ /\ stalled[m] < MaxStalled
        /\ jobState' = [jobState EXCEPT ![m] = "waiting"]
        /\ stalled' = [stalled EXCEPT ![m] = @ + 1]
        /\ UNCHANGED attemptsMade
     \/ stalled[m] >= MaxStalled /\ Finish(m)
  /\ Forget(m)
  /\ UNCHANGED <<rowVars, stored, threadVars, pendingAdd, purgeVars, wire, history>>

-----------------------------------------------------------------------------
(***************************************************************************)
(* sendMessage, one action per awaited step that reads or changes state.   *)
(***************************************************************************)
Goto(m, label) == pc' = [pc EXCEPT ![m] = label]

\* Sent, rejected or unapproved: nothing to do.
Load(m) ==
  /\ pc[m] = "load"
  /\ \/ /\ m \in approved \ (Sent \cup rejected)
        /\ read' = [read EXCEPT ![m] = body[m]]
        /\ tried' = [tried EXCEPT ![m] = body[m]]
        /\ Goto(m, "prepare")
     \/ /\ m \notin approved \ (Sent \cup rejected)
        /\ Goto(m, "note")
        /\ UNCHANGED <<read, tried>>
  /\ UNCHANGED <<rowVars, stored, threadVars, pendingAdd, jobVars, answer,
                 purgeVars, wire, consent>>

\* The live gate, the account and its token.
Prepare(m) ==
  /\ pc[m] = "prepare"
  /\ \/ /\ \E label \in {"note", "refuse", "post"} : Goto(m, label)
        /\ UNCHANGED <<jobVars, read, answer>>
     \/ Retry(m)
  /\ UNCHANGED <<rowVars, stored, threadVars, pendingAdd, purgeVars, wire, history>>

Posted(m) == Append(wire, [of |-> m, words |-> read[m]])

\* Accepted with an id; accepted without an answer; refused for good; or refused
\* for now, a rate limit or a failure on the way.
Post(m) ==
  /\ pc[m] = "post"
  /\ \/ /\ wire' = Posted(m)
        /\ answer' = [answer EXCEPT ![m] = Len(wire) + 1]
        /\ Goto(m, "mark")
        /\ UNCHANGED <<jobVars, read>>
     \/ Faults /\ wire' = Posted(m) /\ Retry(m)
     \/ Goto(m, "refuse") /\ UNCHANGED <<jobVars, read, answer, wire>>
     \/ Retry(m) /\ UNCHANGED wire
  /\ UNCHANGED <<rowVars, stored, threadVars, pendingAdd, purgeVars, history>>

\* What the row's constraints allow: outbound_requires_approval, and one row per
\* marketplace message (messages_thread_external_message_idx).
Markable(m) == m \in approved /\ answer[m] \notin stored

\* Faulty variant: no unique index on the marketplace's id.
MarkSentTwiceStored(m) ==
  /\ pc[m] = "mark"
  /\ \/ /\ m \in approved
        /\ sentAs' = [sentAs EXCEPT ![m] = answer[m]]
        /\ failed' = failed \ {m}
        /\ Goto(m, "thread")
        /\ UNCHANGED <<jobVars, read, answer>>
     \/ /\ m \notin approved
        /\ Retry(m)
        /\ UNCHANGED <<sentAs, failed>>
  /\ UNCHANGED <<body, version, approved, rejected, wiped, stored, threadVars, pendingAdd,
                 purgeVars, wire, history>>

MarkSent(m) ==
  /\ pc[m] = "mark"
  /\ \/ /\ Markable(m)
        /\ sentAs' = [sentAs EXCEPT ![m] = answer[m]]
        /\ failed' = failed \ {m}
        /\ Goto(m, "thread")
        /\ UNCHANGED <<jobVars, read, answer>>
     \/ /\ ~Markable(m)
        /\ Retry(m)
        /\ UNCHANGED <<sentAs, failed>>
  /\ UNCHANGED <<body, version, approved, rejected, wiped, stored, threadVars, pendingAdd,
                 purgeVars, wire, history>>

\* The thread has new activity; a closed one stays closed.
MarkThread(m) ==
  /\ pc[m] = "thread"
  /\ idle' = idle \ {ThreadOf[m]}
  /\ Goto(m, "note")
  /\ UNCHANGED <<rowVars, stored, closed, redacted, pendingAdd, jobVars, read,
                 answer, purgeVars, wire, history>>

\* fail(): the reason is written whatever the row has become.
Refuse(m) ==
  /\ pc[m] = "refuse"
  /\ failed' = failed \cup {m}
  /\ Goto(m, "note")
  /\ UNCHANGED <<body, version, approved, rejected, sentAs, wiped, stored, threadVars,
                 pendingAdd, jobVars, read, answer, purgeVars, wire, history>>

Return(m) ==
  /\ pc[m] = "note"
  /\ Finish(m)
  /\ Forget(m)
  /\ UNCHANGED <<rowVars, stored, threadVars, pendingAdd, purgeVars, wire, history>>

-----------------------------------------------------------------------------
(***************************************************************************)
(* The marketplace, the inbox poll and retention.                          *)
(***************************************************************************)
ThreadOn(i) == IF wire[i].of = Client THEN wire[i].on ELSE ThreadOf[wire[i].of]

ClientWrites(t) ==
  /\ Cardinality({i \in DOMAIN wire : wire[i].of = Client}) < MaxInbound
  /\ wire' = Append(wire, [of |-> Client, on |-> t])
  /\ UNCHANGED <<rowVars, stored, threadVars, pendingAdd, jobVars, attemptVars,
                 purgeVars, history>>

\* What a poll that saw the first n messages has to store: no row has their id.
Unstored(n) == (1..n) \ (stored \cup {sentAs[m] : m \in Replies})

\* Faulty variant: a new message on a redacted thread leaves it redacted.
StoreKeepsRedaction(n) ==
  LET new == Unstored(n)
      touched == {ThreadOn(i) : i \in new} IN
  /\ Polling
  /\ new # {}
  /\ stored' = stored \cup new
  /\ idle' = idle \ touched
  /\ closed' = closed \ touched
  /\ UNCHANGED <<rowVars, redacted, pendingAdd, jobVars, attemptVars, purgeVars,
                 wire, history>>

\* One transaction stores what was listed; a new message opens its thread again.
\* Listing changes nothing and the marketplace only adds, so a listing of the
\* first n messages, however old, is the choice of n.
Store(n) ==
  LET new == Unstored(n)
      touched == {ThreadOn(i) : i \in new} IN
  /\ Polling
  /\ new # {}
  /\ stored' = stored \cup new
  /\ idle' = idle \ touched
  /\ closed' = closed \ touched
  /\ redacted' = redacted \ touched
  /\ UNCHANGED <<rowVars, pendingAdd, jobVars, attemptVars, purgeVars, wire, history>>

\* The whole retention period passes without activity, and no contract rides on
\* the thread.
BecomeIdle(t) ==
  /\ Retention
  /\ t \notin idle
  /\ idle' = idle \cup {t}
  /\ UNCHANGED <<rowVars, stored, closed, redacted, pendingAdd, jobVars,
                 attemptVars, purgeVars, wire, history>>

CloseIdle ==
  /\ Retention
  /\ purge = "idle"
  /\ purge' = "redact"
  /\ closed' = closed \cup (idle \ redacted)
  /\ UNCHANGED <<rowVars, stored, idle, redacted, pendingAdd, jobVars, attemptVars,
                 due, wire, history>>

RedactThreads ==
  LET found == (closed \cap idle) \ redacted IN
  /\ purge = "redact"
  /\ redacted' = redacted \cup found
  /\ due' = found
  /\ purge' = IF found = {} THEN "idle" ELSE "messages"
  /\ UNCHANGED <<rowVars, stored, idle, closed, pendingAdd, jobVars, attemptVars,
                 wire, history>>

RedactMessages ==
  LET found == {m \in Drafted \ wiped : ThreadOf[m] \in due} IN
  /\ purge = "messages"
  /\ body' = [m \in Replies |-> IF m \in found THEN Redacted ELSE body[m]]
  /\ wiped' = wiped \cup found
  /\ purge' = "idle" /\ due' = {}
  /\ UNCHANGED <<version, approved, rejected, failed, sentAs, stored, threadVars,
                 pendingAdd, jobVars, attemptVars, wire, history>>

PurgeDies ==
  /\ Faults
  /\ purge # "idle"
  /\ purge' = "idle" /\ due' = {}
  /\ UNCHANGED <<rowVars, stored, threadVars, pendingAdd, jobVars, attemptVars,
                 wire, history>>

-----------------------------------------------------------------------------
People(m) == Draft(m) \/ Approve(m) \/ Reject(m) \/ Edit(m)

Queue(m) == Enqueue(m) \/ LoseEnqueue(m) \/ ForgetJob(m) \/ Take(m)

Step(m) ==
  \/ Load(m) \/ Prepare(m) \/ Post(m) \/ MarkSent(m) \/ MarkThread(m)
  \/ Refuse(m) \/ Return(m)

Purge == CloseIdle \/ RedactThreads \/ RedactMessages \/ PurgeDies

Next ==
  \/ \E m \in Replies : People(m) \/ Queue(m) \/ Step(m) \/ DatabaseFails(m) \/ Crash(m)
  \/ \E t \in Threads : ClientWrites(t) \/ BecomeIdle(t)
  \/ \E n \in DOMAIN wire : Store(n)
  \/ Purge

Spec == Init /\ [][Next]_vars

\* A waiting job is taken, an attempt goes on; nobody else has to act.
Fairness == \A m \in Replies : WF_vars(Take(m) \/ Step(m))

FairSpec == Spec /\ Fairness

-----------------------------------------------------------------------------
WireMessage == [of : Replies, words : Versions \cup {Redacted}]
               \cup [of : {Client}, on : Threads]

TypeOK ==
  /\ body \in [Replies -> Versions \cup {Redacted}]
  /\ version \in [Replies -> Versions]
  /\ approved \subseteq Drafted /\ rejected \subseteq Drafted
  /\ failed \subseteq Drafted /\ wiped \subseteq Drafted
  /\ sentAs \in [Replies -> Nat]
  /\ stored \subseteq DOMAIN wire
  /\ idle \subseteq Threads /\ closed \subseteq Threads /\ redacted \subseteq Threads
  /\ pendingAdd \subseteq Replies
  /\ jobState \in [Replies -> {"none", "waiting", "active", "finished"}]
  /\ attemptsMade \in [Replies -> 0..(Attempts - 1)]
  /\ stalled \in [Replies -> 0..MaxStalled]
  /\ pc \in [Replies -> {"idle", "load", "prepare", "post", "mark", "thread",
                         "refuse", "note"}]
  /\ read \in [Replies -> Versions \cup {Redacted}]
  /\ answer \in [Replies -> Nat]
  /\ purge \in {"idle", "redact", "messages"}
  /\ due \subseteq Threads
  /\ wire \in Seq(WireMessage)
  /\ consent \subseteq Replies \X (Versions \cup {Redacted})
  /\ tried \in [Replies -> Versions \cup {Redacted}]

-----------------------------------------------------------------------------
\* Whatever edits and rejections overtake the sender, the client gets words that
\* were approved for that reply, or the text retention left in their place.
PostedWordsWereApproved ==
  \A i \in DOMAIN wire : wire[i].of \in Replies =>
    <<wire[i].of, wire[i].words>> \in consent \/ wire[i].words = Redacted

\* A sent reply names its own marketplace message, and no other row has it: the
\* sender and the inbox poll never both record one message.
SentRowNamesItsMessage ==
  /\ \A m \in Sent : sentAs[m] \in DOMAIN wire /\ wire[sentAs[m]].of = m
  /\ \A m \in Sent : sentAs[m] \notin stored

\* D-048: "a sent message can be changed by none of them": neither people nor a
\* second attempt change it; only retention takes its words away.
SentIsFinal ==
  [][\A m \in Replies : sentAs[m] # 0 =>
       /\ sentAs'[m] = sentAs[m]
       /\ body'[m] \in {body[m], Redacted}
       /\ m \in approved' /\ m \notin rejected']_vars

\* D-076: a new message opens a redacted thread again and its period starts anew:
\* no thread is open and at the same time counted as redacted, or retention would
\* never look at it again.  The automatic reply, which opens a thread and leaves the
\* mark (auto-reply.ts:289), is not a writer of this module.
RedactedIsClosed == redacted \subseteq closed

\* A send job that is waiting ends, whatever the marketplace and the database do.
SendEnds == \A m \in Replies :
  jobState[m] = "waiting" ~> jobState[m] \in {"none", "finished"}

-----------------------------------------------------------------------------
\* What carries the safety properties from step to step: the words of an approved
\* row, and of an attempt before its post, were approved; an attempt that has
\* passed its load works on a row that is drafted and not sent, and its answer
\* names its own message; a sent row keeps its approval.
ConsentIsCarried == \A m \in Replies :
  /\ m \in approved => <<m, body[m]>> \in consent \/ body[m] = Redacted
  /\ pc[m] \in {"prepare", "post"} => <<m, read[m]>> \in consent \/ read[m] = Redacted

AttemptsAreOpen == \A m \in Replies :
  /\ pc[m] \in {"prepare", "post", "mark", "refuse"} => m \in Drafted \ Sent
  /\ pc[m] = "mark" => answer[m] \in DOMAIN wire /\ wire[answer[m]].of = m

SentIsApproved == Sent \subseteq approved /\ approved \cap rejected = {}

\* All of it at once, with the types: no step of people, attempts, the poll or
\* retention leads out of it.  A message that arrives on a thread marked redacted
\* and leaves the mark (inbox-sync.ts:426), or a sent row whose message the poll
\* has stored as somebody else's (send-message.ts:212), does.
OutboundInv ==
  /\ TypeOK /\ ConsentIsCarried /\ AttemptsAreOpen /\ SentIsApproved
  /\ PostedWordsWereApproved /\ SentRowNamesItsMessage /\ RedactedIsClosed

-----------------------------------------------------------------------------
\* What the source says and the code does not keep.

\* send-message.ts: "Edit the message and approve it again."  When words nobody has
\* tried to send are approved and handed over while no attempt runs, a job waits
\* for them afterwards: the queue does not drop the hand-over.
ApprovedAgainIsQueued ==
  [][\A m \in approved :
       /\ m \in pendingAdd \ pendingAdd'
       /\ pc[m] = "idle"
       /\ tried[m] # body[m]
       => jobState'[m] = "waiting"]_vars

\* send-message.ts: "One send per message": no words of a reply reach the client
\* twice, though nothing fails and no answer gets lost.
OneSendPerMessage == \A i, j \in DOMAIN wire :
  wire[i].of \in Replies /\ wire[i] = wire[j] => i = j

=============================================================================
