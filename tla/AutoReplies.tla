----------------------------- MODULE AutoReplies -----------------------------
(***************************************************************************)
(* The inbox poll (apps/workers/src/inbox-sync.ts) and the automatic first *)
(* reply (apps/workers/src/auto-reply.ts) it hands new messages to.  The   *)
(* poll lists, stores in one transaction and only then hands over; the     *)
(* auto-reply worker records that the thread has had its reply, sends it,  *)
(* and takes the record back when sending fails.                           *)
(*                                                                         *)
(* Each client message has its own auto-reply job, so an attempt is named  *)
(* by its message.  One organisation and one account are modelled; what    *)
(* people write is one action, and OutboundMessages has the rest of it.    *)
(***************************************************************************)
EXTENDS Integers, Sequences, FiniteSets

CONSTANTS
  Inbound,      \* client messages
  Threads,
  ThreadOf,     \* the thread of each client message
  None,         \* "no message"
  Attempts,     \* BullMQ attempts of a job
  MaxStalled,   \* BullMQ maxStalledCount
  LostAnswers   \* whether the answer to an accepted reply may get lost

ASSUME ConstantsAssumption ==
  /\ ThreadOf \in [Inbound -> Threads]
  /\ None \notin Inbound
  /\ Attempts \in Nat \ {0}
  /\ MaxStalled \in Nat
  /\ LostAnswers \in BOOLEAN

VARIABLES
  written,                          \* client messages on the marketplace
  stored,                           \* their rows
  observed,                         \* rows of origin platform for our own replies
  closed, replied, online,          \* threads; somebody wrote; somebody is there
  autoRow, sentAs, record,          \* the reply's row, and auto_reply_sends
  poll, listed, alerts,             \* the poll and its locals
  jobState, attemptsMade, stalled,  \* BullMQ's job per client message
  pc, answer, after,                \* the attempt and its locals
  posted                            \* automatic replies on the marketplace

rowVars == <<stored, observed, autoRow, sentAs, record>>
peopleVars == <<written, closed, replied, online>>
pollVars == <<poll, listed, alerts>>
jobVars == <<jobState, attemptsMade, stalled>>
attemptVars == <<pc, answer, after>>
vars == <<rowVars, peopleVars, pollVars, jobVars, attemptVars, posted>>

Nothing == [inbound |-> {}, replies |-> {}]

PostedOn(t) == {n \in DOMAIN posted : posted[n] = t}

Init ==
  /\ written = {} /\ stored = {} /\ observed = {}
  /\ closed = {} /\ replied = {} /\ online = FALSE
  /\ autoRow = [i \in Inbound |-> "none"]
  /\ sentAs = [i \in Inbound |-> 0]
  /\ record = [t \in Threads |-> None]
  /\ poll = "idle" /\ listed = Nothing /\ alerts = {}
  /\ jobState = [i \in Inbound |-> "none"]
  /\ attemptsMade = [i \in Inbound |-> 0]
  /\ stalled = [i \in Inbound |-> 0]
  /\ pc = [i \in Inbound |-> "idle"]
  /\ answer = [i \in Inbound |-> 0]
  /\ after = [i \in Inbound |-> "none"]
  /\ posted = <<>>

-----------------------------------------------------------------------------
\* The world: clients write, somebody of the organisation writes on a thread,
\* the offline window passes, retention closes a thread.
ClientWrites(i) ==
  /\ i \notin written
  /\ written' = written \cup {i}
  /\ UNCHANGED <<closed, replied, online, rowVars, pollVars, jobVars, attemptVars, posted>>

OperatorWrites(t) ==
  /\ t \notin replied \/ ~online
  /\ replied' = replied \cup {t}
  /\ online' = TRUE
  /\ UNCHANGED <<written, closed, rowVars, pollVars, jobVars, attemptVars, posted>>

OfflineWindowPasses ==
  /\ online
  /\ online' = FALSE
  /\ UNCHANGED <<written, closed, replied, rowVars, pollVars, jobVars, attemptVars, posted>>

CloseThread(t) ==
  /\ t \notin closed
  /\ closed' = closed \cup {t}
  /\ UNCHANGED <<written, replied, online, rowVars, pollVars, jobVars, attemptVars, posted>>

-----------------------------------------------------------------------------
\* The poll of the account.
List ==
  /\ poll = "idle"
  /\ poll' = "store"
  /\ listed' = [inbound |-> written, replies |-> DOMAIN posted]
  /\ UNCHANGED <<alerts, rowVars, peopleVars, jobVars, attemptVars, posted>>

\* Faulty variant: the transaction is rolled back, the alerts are kept.
StoreRolledBack ==
  /\ poll = "store"
  /\ alerts' = listed.inbound \ stored
  /\ poll' = "handOver"
  /\ listed' = Nothing
  /\ UNCHANGED <<rowVars, peopleVars, jobVars, attemptVars, posted>>

\* Faulty variant: what arrives on a closed thread is passed over.
StoreSkipsClosed ==
  LET new == {i \in listed.inbound \ stored : ThreadOf[i] \notin closed} IN
  /\ poll = "store"
  /\ stored' = stored \cup new
  /\ alerts' = new
  /\ poll' = "handOver"
  /\ listed' = Nothing
  /\ UNCHANGED <<observed, autoRow, sentAs, record, peopleVars, jobVars,
                 attemptVars, posted>>

\* One transaction: a marketplace message is stored once, and opens its thread.
Store ==
  LET new == listed.inbound \ stored
      ours == listed.replies \ (observed \cup {sentAs[i] : i \in Inbound}) IN
  /\ poll = "store"
  /\ stored' = stored \cup new
  /\ observed' = observed \cup ours
  /\ closed' = closed \ ({ThreadOf[i] : i \in new} \cup {posted[n] : n \in ours})
  /\ alerts' = new
  /\ poll' = "handOver"
  /\ listed' = Nothing
  /\ UNCHANGED <<autoRow, sentAs, record, written, replied, online, jobVars,
                 attemptVars, posted>>

HandOver(i) ==
  /\ poll = "handOver"
  /\ i \in alerts
  /\ alerts' = alerts \ {i}
  /\ jobState' = IF jobState[i] = "none" THEN [jobState EXCEPT ![i] = "waiting"]
                 ELSE jobState
  /\ UNCHANGED <<poll, listed, rowVars, peopleVars, attemptsMade, stalled,
                 attemptVars, posted>>

PollForgets ==
  /\ poll' = "idle"
  /\ listed' = Nothing
  /\ alerts' = {}
  /\ UNCHANGED <<rowVars, peopleVars, jobVars, attemptVars, posted>>

PollReturns == poll = "handOver" /\ alerts = {} /\ PollForgets

\* A listing is refused, a query fails or the process dies; the next poll starts
\* over, and finds stored what was stored.
PollFails == poll # "idle" /\ PollForgets

-----------------------------------------------------------------------------
\* The queue.
Take(i) ==
  /\ jobState[i] = "waiting"
  /\ jobState' = [jobState EXCEPT ![i] = "active"]
  /\ pc' = [pc EXCEPT ![i] = "load"]
  /\ UNCHANGED <<rowVars, peopleVars, pollVars, attemptsMade, stalled, answer,
                 after, posted>>

Forget(i) ==
  /\ pc' = [pc EXCEPT ![i] = "idle"]
  /\ answer' = [answer EXCEPT ![i] = 0]
  /\ after' = [after EXCEPT ![i] = "none"]

Finish(i) ==
  /\ jobState' = [jobState EXCEPT ![i] = "finished"]
  /\ attemptsMade' = [attemptsMade EXCEPT ![i] = 0]
  /\ stalled' = [stalled EXCEPT ![i] = 0]

Retry(i) ==
  /\ \/ /\ attemptsMade[i] + 1 < Attempts
        /\ jobState' = [jobState EXCEPT ![i] = "waiting"]
        /\ attemptsMade' = [attemptsMade EXCEPT ![i] = @ + 1]
        /\ UNCHANGED stalled
     \/ attemptsMade[i] + 1 >= Attempts /\ Finish(i)
  /\ Forget(i)

\* A query fails, or its answer is lost after it took effect; not the answer of
\* the marketplace.
DatabaseFails(i) ==
  /\ pc[i] \notin {"idle", "post", "end"}
  /\ Retry(i)
  /\ UNCHANGED <<rowVars, peopleVars, pollVars, posted>>

Crash(i) ==
  /\ pc[i] # "idle"
  /\ \/ /\ stalled[i] < MaxStalled
        /\ jobState' = [jobState EXCEPT ![i] = "waiting"]
        /\ stalled' = [stalled EXCEPT ![i] = @ + 1]
        /\ UNCHANGED attemptsMade
     \/ stalled[i] >= MaxStalled /\ Finish(i)
  /\ Forget(i)
  /\ UNCHANGED <<rowVars, peopleVars, pollVars, posted>>

-----------------------------------------------------------------------------
\* autoReply, one action per awaited step that reads or changes shared state.
Goto(i, label) == pc' = [pc EXCEPT ![i] = label]

T(i) == ThreadOf[i]

Load(i) ==
  /\ pc[i] = "load"
  /\ Goto(i, IF T(i) \in closed THEN "note" ELSE "check")
  /\ UNCHANGED <<rowVars, peopleVars, pollVars, jobVars, answer, after, posted>>

\* A reply is configured and approved, the thread has had none, nobody has
\* written on it, and nothing has left the organisation for the whole window.
OutRowOn(t) ==
  t \in replied \/ \E i \in Inbound : T(i) = t /\ autoRow[i] # "none"

Check(i) ==
  /\ pc[i] = "check"
  /\ \/ /\ record[T(i)] = None /\ ~OutRowOn(T(i)) /\ ~online
        /\ Goto(i, "record")
     \/ Goto(i, "note")
  /\ UNCHANGED <<rowVars, peopleVars, pollVars, jobVars, answer, after, posted>>

\* Faulty variant: no unique key on the thread.
RecordAnyway(i) ==
  /\ pc[i] = "record"
  /\ autoRow' = [autoRow EXCEPT ![i] = "stored"]
  /\ record' = [record EXCEPT ![T(i)] = i]
  /\ Goto(i, "gate")
  /\ UNCHANGED <<stored, observed, sentAs, peopleVars, pollVars, jobVars, answer,
                 after, posted>>

\* Reply and record in one transaction; the unique key on the thread decides.
Record(i) ==
  /\ pc[i] = "record"
  /\ \/ /\ record[T(i)] = None
        /\ autoRow' = [autoRow EXCEPT ![i] = "stored"]
        /\ record' = [record EXCEPT ![T(i)] = i]
        /\ Goto(i, "gate")
     \/ /\ record[T(i)] # None
        /\ Goto(i, "note")
        /\ UNCHANGED <<autoRow, record>>
  /\ UNCHANGED <<stored, observed, sentAs, peopleVars, pollVars, jobVars, answer,
                 after, posted>>

UndoThen(i, what) ==
  /\ Goto(i, "undo")
  /\ after' = [after EXCEPT ![i] = what]

\* A closed live gate leaves the record; a missing account, client or token
\* takes it back, and a token that could not be asked for is tried again.
Gate(i) ==
  /\ pc[i] = "gate"
  /\ \/ \E label \in {"note", "post"} : Goto(i, label) /\ UNCHANGED after
     \/ \E what \in {"return", "retry"} : UndoThen(i, what)
  /\ UNCHANGED <<rowVars, peopleVars, pollVars, jobVars, answer, posted>>

\* Faulty variant: the reply is taken back as soon as it was sent.
PostThenUndo(i) ==
  /\ pc[i] = "post"
  /\ posted' = Append(posted, T(i))
  /\ UndoThen(i, "return")
  /\ UNCHANGED <<rowVars, peopleVars, pollVars, jobVars, answer>>

Post(i) ==
  /\ pc[i] = "post"
  /\ \/ /\ posted' = Append(posted, T(i))
        /\ answer' = [answer EXCEPT ![i] = Len(posted) + 1]
        /\ Goto(i, "mark")
        /\ UNCHANGED after
     \/ /\ LostAnswers
        /\ posted' = Append(posted, T(i))
        /\ UndoThen(i, "retry")
        /\ UNCHANGED answer
     \/ /\ \E what \in {"return", "retry"} : UndoThen(i, what)
        /\ UNCHANGED <<posted, answer>>
  /\ UNCHANGED <<rowVars, peopleVars, pollVars, jobVars>>

\* Faulty variant: no unique index on the marketplace's id.
MarkTwiceStored(i) ==
  /\ pc[i] = "mark"
  /\ autoRow' = [autoRow EXCEPT ![i] = "sent"]
  /\ sentAs' = [sentAs EXCEPT ![i] = answer[i]]
  /\ online' = TRUE
  /\ Goto(i, "thread")
  /\ UNCHANGED <<stored, observed, record, written, closed, replied, pollVars, jobVars,
                 answer, after, posted>>

\* The row is refused when the poll has stored the message under its id.
Mark(i) ==
  /\ pc[i] = "mark"
  /\ \/ /\ answer[i] \notin observed
        /\ autoRow' = [autoRow EXCEPT ![i] = "sent"]
        /\ sentAs' = [sentAs EXCEPT ![i] = answer[i]]
        /\ online' = TRUE
        /\ Goto(i, "thread")
        /\ UNCHANGED <<jobVars, answer, after>>
     \/ /\ answer[i] \in observed
        /\ Retry(i)
        /\ UNCHANGED <<autoRow, sentAs, online>>
  /\ UNCHANGED <<stored, observed, record, written, closed, replied, pollVars, posted>>

\* The thread is open again, whatever it had become.
MarkThread(i) ==
  /\ pc[i] = "thread"
  /\ closed' = closed \ {T(i)}
  /\ Goto(i, "note")
  /\ UNCHANGED <<rowVars, written, replied, online, pollVars, jobVars, answer, after,
                 posted>>

\* undo: two deletes.
DeleteRecord(i) ==
  /\ pc[i] = "undo"
  /\ record' = [t \in Threads |-> IF record[t] = i THEN None ELSE record[t]]
  /\ Goto(i, "delete")
  /\ UNCHANGED <<stored, observed, autoRow, sentAs, peopleVars, pollVars, jobVars,
                 answer, after, posted>>

\* The outcome is noted before the attempt returns or throws for good, and on
\* the way to another try: then it throws.
DeleteReply(i) ==
  /\ pc[i] = "delete"
  /\ autoRow' = [autoRow EXCEPT ![i] = "none"]
  /\ Goto(i, IF after[i] = "retry" THEN "end" ELSE "note")
  /\ UNCHANGED <<stored, observed, sentAs, record, peopleVars, pollVars, jobVars,
                 answer, after, posted>>

Throw(i) ==
  /\ pc[i] = "end"
  /\ Retry(i)
  /\ UNCHANGED <<rowVars, peopleVars, pollVars, posted>>

Return(i) ==
  /\ pc[i] = "note"
  /\ Finish(i)
  /\ Forget(i)
  /\ UNCHANGED <<rowVars, peopleVars, pollVars, posted>>

-----------------------------------------------------------------------------
Poll == List \/ Store \/ PollReturns \/ \E i \in Inbound : HandOver(i)

Step(i) ==
  \/ Load(i) \/ Check(i) \/ Record(i) \/ Gate(i) \/ Post(i) \/ Mark(i)
  \/ MarkThread(i) \/ DeleteRecord(i) \/ DeleteReply(i) \/ Throw(i) \/ Return(i)

Next ==
  \/ \E i \in Inbound : ClientWrites(i) \/ Take(i) \/ Step(i) \/ DatabaseFails(i) \/ Crash(i)
  \/ \E t \in Threads : OperatorWrites(t) \/ CloseThread(t)
  \/ OfflineWindowPasses
  \/ Poll \/ PollFails

Spec == Init /\ [][Next]_vars

\* The scheduler starts a poll every two minutes and does not always fail it; a
\* waiting job is taken and an attempt goes on.
Fairness ==
  /\ WF_vars(Poll) /\ SF_vars(Store)
  /\ \A i \in Inbound : WF_vars(Take(i) \/ Step(i))

FairSpec == Spec /\ Fairness

-----------------------------------------------------------------------------
RowsOK ==
  /\ stored \subseteq written /\ written \subseteq Inbound
  /\ observed \subseteq DOMAIN posted
  /\ closed \subseteq Threads /\ replied \subseteq Threads
  /\ online \in BOOLEAN
  /\ autoRow \in [Inbound -> {"none", "stored", "sent"}]
  /\ sentAs \in [Inbound -> Nat]
  /\ record \in [Threads -> Inbound \cup {None}]
  /\ poll \in {"idle", "store", "handOver"}
  /\ listed \in [inbound : SUBSET written, replies : SUBSET DOMAIN posted]
  /\ alerts \subseteq stored
  /\ posted \in Seq(Threads)

QueueOK ==
  /\ jobState \in [Inbound -> {"none", "waiting", "active", "finished"}]
  /\ attemptsMade \in [Inbound -> 0..(Attempts - 1)]
  /\ stalled \in [Inbound -> 0..MaxStalled]

Labels == {"idle", "load", "check", "record", "gate", "post", "mark", "thread",
           "undo", "delete", "end", "note"}

AttemptOK ==
  /\ pc \in [Inbound -> Labels]
  /\ answer \in [Inbound -> Nat]
  /\ after \in [Inbound -> {"none", "return", "retry"}]

TypeOK == RowsOK /\ QueueOK /\ AttemptOK

\* D-047, "once per thread": two messages of one client, retries, crashes at any
\* point and concurrent workers never send a thread a second automatic reply.
OneAutoReplyPerThread == \A t \in Threads : Cardinality(PostedOn(t)) <= 1

\* A thread that got its automatic reply is on record as having had it, so that
\* no later message of the client brings another: a record is only taken back
\* for a reply that was not sent.
ReplyIsOnRecord == \A t \in Threads : PostedOn(t) # {} => record[t] # None

\* A reply recorded as sent names its own marketplace message, and the poll has
\* not stored that message as one of somebody else's.
SentRowNamesItsMessage == \A i \in Inbound : autoRow[i] = "sent" =>
  sentAs[i] \in PostedOn(T(i)) \ observed

\* Polls that fail, overlap with replies and start over lose no client message:
\* again and again they have caught up (every client writes once).  And an
\* auto-reply job ends, also when undoing fails half-way: again and again no job
\* is waiting or running.
InboxSettles ==
  /\ []<>(written \subseteq stored)
  /\ []<>(\A i \in Inbound : jobState[i] \in {"none", "finished"})

-----------------------------------------------------------------------------
(***************************************************************************)
(* The inductive invariant behind the theorems of AutoReplyProofs.         *)
(***************************************************************************)
Holding == {"gate", "post", "mark", "thread", "undo"}

\* An attempt between recording and the end of sending or undoing is the one on
\* record for its thread.
HoldsTheRecord ==
  /\ \A t \in Threads : record[t] # None => T(record[t]) = t
  /\ \A i \in Inbound : pc[i] \in Holding => record[T(i)] = i

\* The attempt that has marked, or is about to mark, knows its own message.
AnswerIsOwn == \A i \in Inbound : pc[i] = "mark" => answer[i] \in PostedOn(T(i))

\* Without lost answers nothing was posted on the thread of an attempt that is
\* about to post, or that takes its record back.
NothingPostedYet == \A i \in Inbound :
  pc[i] \in {"gate", "post", "undo"} => PostedOn(T(i)) = {}

Posts == \A m, n \in DOMAIN posted : posted[m] = posted[n] => m = n

RowInv == TypeOK /\ HoldsTheRecord /\ AnswerIsOwn /\ SentRowNamesItsMessage

OnceInv == NothingPostedYet /\ ReplyIsOnRecord /\ Posts

\* What every attempt relies on, at once: it holds the record of its thread, what it
\* has posted is its own, and a thread that got its reply is on record
\* (auto-reply.ts:168), however polls and attempts fail, die and start over.
AutoReplyInv == RowInv /\ OnceInv

=============================================================================
