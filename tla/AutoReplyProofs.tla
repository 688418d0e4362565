-------------------------- MODULE AutoReplyProofs --------------------------
(***************************************************************************)
(* What AutoReplies keeps for any number of client messages, threads,      *)
(* attempts and stalls, whatever fails or dies.                            *)
(***************************************************************************)
EXTENDS AutoReplies, FiniteSetTheorems, TLAPS

\* The first poll starts with nothing stored and nothing sent.
LEMMA InitRowInv == Init => RowInv
  <1> SUFFICES ASSUME Init PROVE RowInv
    OBVIOUS
  <1>1. DOMAIN posted = {} /\ posted \in Seq(Threads)
    BY DEF Init
  <1>2. RowsOK
    BY <1>1 DEF Init, RowsOK, Nothing
  <1>3. QueueOK /\ AttemptOK
    BY ConstantsAssumption DEF Init, QueueOK, AttemptOK, Labels
  <1>4. HoldsTheRecord /\ AnswerIsOwn /\ SentRowNamesItsMessage
    BY DEF Init, HoldsTheRecord, AnswerIsOwn, SentRowNamesItsMessage, Holding
  <1> QED BY <1>2, <1>3, <1>4 DEF RowInv, TypeOK

\* Where a job of BullMQ may end up when its attempt ends.
LEMMA FinishQueue ==
  ASSUME QueueOK, NEW i \in Inbound, Finish(i)
  PROVE  QueueOK'
  BY ConstantsAssumption DEF QueueOK, Finish

\* A job that is tried again has an attempt left.
LEMMA RetryQueue ==
  ASSUME QueueOK, NEW i \in Inbound, Retry(i)
  PROVE  QueueOK'
  <1>1. CASE Finish(i)
    BY <1>1, FinishQueue
  <1>2. CASE /\ attemptsMade[i] + 1 < Attempts
             /\ jobState' = [jobState EXCEPT ![i] = "waiting"]
             /\ attemptsMade' = [attemptsMade EXCEPT ![i] = @ + 1]
             /\ UNCHANGED stalled
    <2>1. attemptsMade[i] + 1 \in 0..(Attempts - 1)
      BY <1>2, ConstantsAssumption DEF QueueOK
    <2> QED BY <1>2, <2>1 DEF QueueOK
  <1> QED BY <1>1, <1>2 DEF Retry

\* A process that dies is counted as a stall, up to the limit.
LEMMA CrashQueue ==
  ASSUME QueueOK, NEW i \in Inbound, Crash(i)
  PROVE  QueueOK'
  <1>1. CASE Finish(i)
    BY <1>1, FinishQueue
  <1>2. CASE /\ stalled[i] < MaxStalled
             /\ jobState' = [jobState EXCEPT ![i] = "waiting"]
             /\ stalled' = [stalled EXCEPT ![i] = @ + 1]
             /\ UNCHANGED attemptsMade
    <2>1. stalled[i] + 1 \in 0..MaxStalled
      BY <1>2, ConstantsAssumption DEF QueueOK
    <2> QED BY <1>2, <2>1 DEF QueueOK
  <1> QED BY <1>1, <1>2 DEF Crash

\* A forgotten attempt is idle.
LEMMA ForgetAttempt ==
  ASSUME AttemptOK, NEW i \in Inbound, Forget(i)
  PROVE  AttemptOK'
  BY DEF AttemptOK, Labels, Forget

\* A step that ends an attempt without touching a row: a failing query, a dead
\* process, a throw or a return.
Ends(i) == DatabaseFails(i) \/ Crash(i) \/ Throw(i) \/ Return(i)

\* The end of an attempt changes only its own job and its own locals.
LEMMA EndsFrame ==
  ASSUME TypeOK, NEW i \in Inbound, Ends(i)
  PROVE  /\ TypeOK'
         /\ pc' = [pc EXCEPT ![i] = "idle"]
         /\ answer' = [answer EXCEPT ![i] = 0]
         /\ UNCHANGED <<rowVars, posted>>
  <1>1. /\ Forget(i)
        /\ UNCHANGED <<rowVars, peopleVars, pollVars, posted>>
        /\ Retry(i) \/ Finish(i) \/ Crash(i)
    BY DEF Ends, DatabaseFails, Crash, Throw, Return, Retry
  <1>2. QueueOK' /\ AttemptOK'
    BY <1>1, FinishQueue, RetryQueue, CrashQueue, ForgetAttempt DEF TypeOK
  <1>3. RowsOK'
    BY <1>1 DEF TypeOK, RowsOK, rowVars, peopleVars, pollVars
  <1> QED BY <1>1, <1>2, <1>3 DEF TypeOK, Forget

\* Appending a reply adds the last index, for its own thread.
LEMMA PostAppends ==
  ASSUME RowsOK, NEW t \in Threads, posted' = Append(posted, t)
  PROVE  /\ posted' \in Seq(Threads)
         /\ DOMAIN posted' = DOMAIN posted \cup {Len(posted) + 1}
         /\ Len(posted) + 1 \in Nat /\ Len(posted) + 1 \notin DOMAIN posted
         /\ posted'[Len(posted) + 1] = t
         /\ \A n \in DOMAIN posted : posted'[n] = posted[n]
  BY DEF RowsOK

\* What people write, windows that pass and threads that close keep the types.
LEMMA TypeWorld ==
  ASSUME TypeOK,
         \/ \E i \in Inbound : ClientWrites(i)
         \/ \E t \in Threads : OperatorWrites(t) \/ CloseThread(t)
         \/ OfflineWindowPasses
  PROVE  TypeOK'
  <1>1. QueueOK' /\ AttemptOK'
    BY DEF TypeOK, QueueOK, AttemptOK, jobVars, attemptVars, ClientWrites,
           OperatorWrites, CloseThread, OfflineWindowPasses
  <1>2. ASSUME NEW i \in Inbound, ClientWrites(i) PROVE RowsOK'
    BY <1>2 DEF TypeOK, RowsOK, rowVars, pollVars, ClientWrites
  <1>3. ASSUME NEW t \in Threads, OperatorWrites(t) \/ CloseThread(t) PROVE RowsOK'
    BY <1>3 DEF TypeOK, RowsOK, rowVars, pollVars, OperatorWrites, CloseThread
  <1>4. ASSUME OfflineWindowPasses PROVE RowsOK'
    BY <1>4 DEF TypeOK, RowsOK, rowVars, pollVars, OfflineWindowPasses
  <1> QED BY <1>1, <1>2, <1>3, <1>4 DEF TypeOK

\* The poll lists what is there, stores what it listed, and hands over what it
\* stored.
LEMMA TypePoll ==
  ASSUME TypeOK, Poll \/ PollFails
  PROVE  TypeOK'
  <1> USE DEF TypeOK
  <1>1. AttemptOK'
    BY DEF AttemptOK, attemptVars, Poll, PollFails, List, Store, PollReturns,
           PollForgets, HandOver
  <1>2. QueueOK'
    BY DEF QueueOK, jobVars, Poll, PollFails, List, Store, PollReturns,
           PollForgets, HandOver
  <1> USE DEF RowsOK, rowVars, peopleVars
  <1>3. ASSUME List PROVE RowsOK'
    BY <1>3 DEF List
  <1>4. ASSUME Store PROVE RowsOK'
    BY <1>4 DEF Store, Nothing
  <1>5. ASSUME PollReturns \/ PollFails PROVE RowsOK'
    BY <1>5 DEF PollReturns, PollFails, PollForgets, Nothing
  <1>6. ASSUME NEW i \in Inbound, HandOver(i) PROVE RowsOK'
    BY <1>6 DEF HandOver
  <1> QED BY <1>1, <1>2, <1>3, <1>4, <1>5, <1>6 DEF Poll

\* The first steps of an attempt, up to the gate, keep the types.
LEMMA TypeEarly ==
  ASSUME TypeOK, NEW i \in Inbound,
         Take(i) \/ Load(i) \/ Check(i) \/ Record(i) \/ Gate(i)
  PROVE  TypeOK'
  <1>1. T(i) \in Threads
    BY ConstantsAssumption DEF T
  <1>2. QueueOK'
    BY DEF TypeOK, QueueOK, jobVars, Take, Load, Check, Record, Gate
  <1>3. AttemptOK'
    BY DEF TypeOK, AttemptOK, Labels, Take, Load, Check, Record, Gate, Goto, UndoThen
  <1>4. RowsOK'
    <2>1. CASE Record(i)
      BY <2>1, <1>1 DEF TypeOK, RowsOK, peopleVars, pollVars, Record
    <2>2. CASE Take(i) \/ Load(i) \/ Check(i) \/ Gate(i)
      BY <2>2 DEF TypeOK, RowsOK, rowVars, peopleVars, pollVars, Take, Load, Check, Gate
    <2> QED BY <2>1, <2>2
  <1> QED BY <1>2, <1>3, <1>4 DEF TypeOK

\* Sending keeps the types.
LEMMA TypePost ==
  ASSUME TypeOK, NEW i \in Inbound, Post(i)
  PROVE  TypeOK'
  <1>1. T(i) \in Threads
    BY ConstantsAssumption DEF T
  <1>2. QueueOK'
    BY DEF TypeOK, QueueOK, jobVars, Post
  <1>3. Len(posted) + 1 \in Nat
    BY DEF TypeOK, RowsOK
  <1>4. AttemptOK'
    BY <1>3 DEF TypeOK, AttemptOK, Labels, Post, Goto, UndoThen
  <1>5. posted' \in Seq(Threads) /\ DOMAIN posted \subseteq DOMAIN posted'
    <2>1. posted' = posted \/ posted' = Append(posted, T(i))
      BY DEF Post
    <2> QED BY <2>1, <1>1, PostAppends DEF TypeOK, RowsOK
  <1>6. RowsOK'
    BY <1>5 DEF TypeOK, RowsOK, Post, rowVars, peopleVars, pollVars
  <1> QED BY <1>2, <1>4, <1>6 DEF TypeOK

\* Recording the outcome of sending keeps the types, also when it is refused.
LEMMA TypeMark ==
  ASSUME TypeOK, NEW i \in Inbound, Mark(i)
  PROVE  TypeOK'
  <1>1. CASE Retry(i) /\ UNCHANGED <<autoRow, sentAs, online>>
    <2>1. QueueOK' /\ AttemptOK'
      BY <1>1, RetryQueue, ForgetAttempt DEF TypeOK, Retry
    <2>2. RowsOK'
      BY <1>1 DEF Mark, TypeOK, RowsOK, pollVars
    <2> QED BY <2>1, <2>2 DEF TypeOK
  <1>2. CASE /\ autoRow' = [autoRow EXCEPT ![i] = "sent"]
             /\ sentAs' = [sentAs EXCEPT ![i] = answer[i]]
             /\ online' = TRUE
             /\ Goto(i, "thread")
             /\ UNCHANGED <<jobVars, answer, after>>
    <2>1. QueueOK' /\ AttemptOK'
      BY <1>2 DEF TypeOK, QueueOK, AttemptOK, Labels, jobVars, Goto
    <2>2. RowsOK'
      BY <1>2 DEF Mark, TypeOK, RowsOK, AttemptOK, pollVars
    <2> QED BY <2>1, <2>2 DEF TypeOK
  <1> QED BY <1>1, <1>2 DEF Mark

\* The last steps of an attempt, and undoing, keep the types.
LEMMA TypeLate ==
  ASSUME TypeOK, NEW i \in Inbound,
         MarkThread(i) \/ DeleteRecord(i) \/ DeleteReply(i)
  PROVE  TypeOK'
  <1>1. QueueOK' /\ AttemptOK'
    BY DEF TypeOK, QueueOK, AttemptOK, Labels, jobVars, Goto, MarkThread, DeleteRecord,
           DeleteReply
  <1>2. ASSUME MarkThread(i) PROVE RowsOK'
    BY <1>2 DEF TypeOK, RowsOK, rowVars, pollVars, MarkThread
  <1>3. ASSUME DeleteRecord(i) PROVE RowsOK'
    BY <1>3 DEF TypeOK, RowsOK, peopleVars, pollVars, DeleteRecord
  <1>4. ASSUME DeleteReply(i) PROVE RowsOK'
    BY <1>4 DEF TypeOK, RowsOK, peopleVars, pollVars, DeleteReply
  <1> QED BY <1>1, <1>2, <1>3, <1>4 DEF TypeOK

\* Every step keeps the types.
LEMMA TypeNext ==
  ASSUME TypeOK, [Next]_vars
  PROVE  TypeOK'
  <1>1. CASE UNCHANGED vars
    BY <1>1 DEF vars, rowVars, peopleVars, pollVars, jobVars, attemptVars, TypeOK,
                RowsOK, QueueOK, AttemptOK
  <1>2. CASE Poll \/ PollFails
    BY <1>2, TypePoll
  <1>3. ASSUME NEW i \in Inbound, Take(i) \/ Step(i) \/ DatabaseFails(i) \/ Crash(i)
        PROVE  TypeOK'
    BY <1>3, EndsFrame, TypeEarly, TypePost, TypeMark, TypeLate DEF Step, Ends
  <1>4. CASE \/ \E i \in Inbound : ClientWrites(i)
             \/ \E t \in Threads : OperatorWrites(t) \/ CloseThread(t)
             \/ OfflineWindowPasses
    BY <1>4, TypeWorld
  <1> QED BY <1>1, <1>2, <1>3, <1>4 DEF Next

-----------------------------------------------------------------------------
\* What a step that touches neither rows, posts nor the locals of an attempt
\* cannot disturb.
Quiet == UNCHANGED <<autoRow, sentAs, record, pc, answer, posted>>

\* People and the poll leave the attempts alone, but for the poll that stores.
LEMMA WorldIsQuiet ==
  ASSUME \/ \E i \in Inbound : ClientWrites(i)
         \/ \E t \in Threads : OperatorWrites(t) \/ CloseThread(t)
         \/ OfflineWindowPasses \/ Poll \/ PollFails \/ UNCHANGED vars
  PROVE  Quiet
  BY DEF Quiet, ClientWrites, OperatorWrites, CloseThread, OfflineWindowPasses, Poll,
         PollFails, List, Store, PollReturns, PollForgets, HandOver, vars, rowVars,
         peopleVars, pollVars, jobVars, attemptVars

\* What is on the marketplace stays there, and a new reply is on its own thread.
LEMMA PostedAfter ==
  ASSUME RowsOK, NEW t \in Threads, posted' = Append(posted, t)
  PROVE  \A u \in Threads :
           PostedOn(u)' = IF u = t THEN PostedOn(u) \cup {Len(posted) + 1}
                                   ELSE PostedOn(u)
  BY PostAppends DEF PostedOn

\* The attempt that holds a thread's record is the only one, and no step takes
\* the record from it.
LEMMA HoldsNext ==
  ASSUME TypeOK, HoldsTheRecord, [Next]_vars
  PROVE  HoldsTheRecord'
  <1> USE DEF HoldsTheRecord, Holding
  <1>t. \A i \in Inbound : T(i) \in Threads /\ i # None
    BY ConstantsAssumption DEF T
  <1>p. pc \in [Inbound -> Labels] /\ record \in [Threads -> Inbound \cup {None}]
    BY DEF TypeOK, RowsOK, AttemptOK
  <1>1. CASE Quiet
    BY <1>1 DEF Quiet, T
  <1>2. ASSUME NEW i \in Inbound, Ends(i) PROVE HoldsTheRecord'
    BY <1>2, <1>p, EndsFrame DEF rowVars, T
  <1>3. ASSUME NEW i \in Inbound, Take(i) \/ Load(i) \/ Check(i) PROVE HoldsTheRecord'
    BY <1>3, <1>p DEF Take, Load, Check, Goto, rowVars, T
  <1>4. ASSUME NEW i \in Inbound, Record(i) PROVE HoldsTheRecord'
    BY <1>4, <1>t, <1>p DEF Record, Goto, T
  <1>5. ASSUME NEW i \in Inbound, Gate(i) \/ Post(i) PROVE HoldsTheRecord'
    BY <1>5, <1>p DEF Gate, Post, UndoThen, Goto, rowVars, T
  <1>6. ASSUME NEW i \in Inbound, Mark(i) PROVE HoldsTheRecord'
    BY <1>6, <1>p DEF Mark, Retry, Forget, Goto, T
  <1>7. ASSUME NEW i \in Inbound, MarkThread(i) \/ DeleteReply(i) PROVE HoldsTheRecord'
    BY <1>7, <1>p DEF MarkThread, DeleteReply, Goto, rowVars, T
  <1>8. ASSUME NEW i \in Inbound, DeleteRecord(i) PROVE HoldsTheRecord'
    <2>1. \A j \in Inbound : pc'[j] \in Holding => j # i /\ record[T(j)] = j
      BY <1>8, <1>p DEF DeleteRecord, Goto, T
    <2>2. \A t \in Threads : record'[t] = IF record[t] = i THEN None ELSE record[t]
      BY <1>8 DEF DeleteRecord
    <2>3. \A j \in Inbound : pc'[j] \in Holding => record'[T(j)] = j
      BY <2>1, <2>2, <1>t
    <2>4. \A t \in Threads : record'[t] # None => T(record'[t]) = t
      BY <2>2, <1>p
    <2> QED BY <2>3, <2>4 DEF T
  <1> QED
    BY <1>1, <1>2, <1>3, <1>4, <1>5, <1>6, <1>7, <1>8, WorldIsQuiet
    DEF Next, Step, Ends

\* The answer an attempt is about to record is that of its own reply.
LEMMA AnswerNext ==
  ASSUME TypeOK, AnswerIsOwn, [Next]_vars
  PROVE  AnswerIsOwn'
  <1> USE DEF AnswerIsOwn
  <1>t. \A i \in Inbound : T(i) \in Threads
    BY ConstantsAssumption DEF T
  <1>p. pc \in [Inbound -> Labels] /\ answer \in [Inbound -> Nat]
    BY DEF TypeOK, AttemptOK
  <1>1. CASE Quiet
    BY <1>1 DEF Quiet, T, PostedOn
  <1>2. ASSUME NEW i \in Inbound, Ends(i) PROVE AnswerIsOwn'
    BY <1>2, <1>p, EndsFrame DEF T, PostedOn
  <1>3. ASSUME NEW i \in Inbound,
               \/ Take(i) \/ Load(i) \/ Check(i) \/ Record(i) \/ Gate(i)
               \/ MarkThread(i) \/ DeleteRecord(i) \/ DeleteReply(i)
        PROVE  AnswerIsOwn'
    BY <1>3, <1>p DEF Take, Load, Check, Record, Gate, MarkThread, DeleteRecord,
       DeleteReply, Goto, UndoThen, T, PostedOn
  <1>4. ASSUME NEW i \in Inbound, Mark(i) PROVE AnswerIsOwn'
    BY <1>4, <1>p DEF Mark, Retry, Forget, Goto, T, PostedOn
  <1>5. ASSUME NEW i \in Inbound, Post(i) PROVE AnswerIsOwn'
    <2>1. CASE posted' = posted
      BY <1>5, <2>1, <1>p DEF Post, UndoThen, Goto, T, PostedOn
    <2>2. CASE posted' = Append(posted, T(i))
      <3>1. \A j \in Inbound : PostedOn(T(j)) \subseteq PostedOn(T(j))'
        BY <2>2, <1>t, PostedAfter DEF TypeOK, T
      <3>2. Len(posted) + 1 \in PostedOn(T(i))'
        BY <2>2, <1>t, PostedAfter DEF TypeOK, T
      <3>3. \A j \in Inbound : pc'[j] = "mark" =>
              answer'[j] = IF j = i THEN Len(posted) + 1 ELSE answer[j]
        BY <1>5, <1>p DEF Post, UndoThen, Goto
      <3>4. \A j \in Inbound : pc'[j] = "mark" => j = i \/ pc[j] = "mark"
        BY <1>5, <1>p DEF Post, UndoThen, Goto
      <3> QED BY <3>1, <3>2, <3>3, <3>4 DEF T
    <2> QED BY <1>5, <2>1, <2>2 DEF Post
  <1> QED BY <1>1, <1>2, <1>3, <1>4, <1>5, WorldIsQuiet DEF Next, Step, Ends

\* A sent row keeps naming its message: the poll passes over what a row names,
\* and a reply whose message the poll has already stored is not marked.
LEMMA SentNext ==
  ASSUME TypeOK, AnswerIsOwn, SentRowNamesItsMessage, [Next]_vars
  PROVE  SentRowNamesItsMessage'
  <1> USE DEF SentRowNamesItsMessage
  <1>t. \A i \in Inbound : T(i) \in Threads
    BY ConstantsAssumption DEF T
  <1>p. /\ pc \in [Inbound -> Labels] /\ answer \in [Inbound -> Nat]
        /\ autoRow \in [Inbound -> {"none", "stored", "sent"}] /\ sentAs \in [Inbound -> Nat]
        /\ observed \subseteq DOMAIN posted
    BY DEF TypeOK, RowsOK, AttemptOK
  <1>1. CASE UNCHANGED <<autoRow, sentAs, posted, observed>>
    BY <1>1 DEF T, PostedOn
  <1>2. CASE Store
    BY <1>2 DEF Store, T, PostedOn
  <1>3. ASSUME NEW i \in Inbound, Post(i) PROVE SentRowNamesItsMessage'
    <2>1. UNCHANGED <<autoRow, sentAs, observed>>
      BY <1>3 DEF Post, rowVars
    <2>2. \A j \in Inbound : PostedOn(T(j)) \subseteq PostedOn(T(j))'
      BY <1>3, <1>t, PostedAfter DEF Post, TypeOK, PostedOn, T
    <2> QED BY <2>1, <2>2 DEF T
  <1>4. ASSUME NEW i \in Inbound, Mark(i) PROVE SentRowNamesItsMessage'
    BY <1>4, <1>p DEF Mark, AnswerIsOwn, T, PostedOn
  <1>5. ASSUME NEW i \in Inbound, Record(i) \/ DeleteReply(i)
        PROVE  SentRowNamesItsMessage'
    BY <1>5, <1>p DEF Record, DeleteReply, T, PostedOn
  <1>6. ASSUME NEW i \in Inbound,
               \/ Take(i) \/ Load(i) \/ Check(i) \/ Gate(i) \/ MarkThread(i)
               \/ DeleteRecord(i) \/ Ends(i)
        PROVE  UNCHANGED <<autoRow, sentAs, posted, observed>>
    BY <1>6, EndsFrame DEF Take, Load, Check, Gate, MarkThread, DeleteRecord, rowVars
  <1>7. ASSUME \/ \E i \in Inbound : ClientWrites(i) \/ HandOver(i)
               \/ \E t \in Threads : OperatorWrites(t) \/ CloseThread(t)
               \/ OfflineWindowPasses \/ List \/ PollReturns \/ PollFails
               \/ UNCHANGED vars
        PROVE  UNCHANGED <<autoRow, sentAs, posted, observed>>
    BY <1>7 DEF ClientWrites, HandOver, OperatorWrites, CloseThread, rowVars, vars,
       OfflineWindowPasses, List, PollReturns, PollFails, PollForgets
  <1> QED
    BY <1>1, <1>2, <1>3, <1>4, <1>5, <1>6, <1>7 DEF Next, Step, Poll, Ends

\* The invariant that holds whether or not answers get lost.
LEMMA RowNext == RowInv /\ [Next]_vars => RowInv'
  BY TypeNext, HoldsNext, AnswerNext, SentNext DEF RowInv

\* A reply recorded as sent names a message of ours on its own thread, which
\* the poll has not stored as somebody else's: for any number of clients,
\* threads, retries and crashes, and also when answers get lost.
THEOREM SentRowsHold == Spec => []SentRowNamesItsMessage
  <1>1. RowInv => SentRowNamesItsMessage
    BY DEF RowInv
  <1> QED BY <1>1, InitRowInv, RowNext, PTL DEF Spec

\* Every variable of the poll, the queue and the attempts keeps its type.
THEOREM TypeCorrect == Spec => []TypeOK
  <1>1. RowInv => TypeOK
    BY DEF RowInv
  <1> QED BY <1>1, InitRowInv, RowNext, PTL DEF Spec

-----------------------------------------------------------------------------
\* Where a reply is sent, or a record taken back, nothing has been sent: the
\* attempt found no record of another reply, and it is the only one that holds
\* the thread's record since.
LEMMA NothingPostedNext ==
  ASSUME TypeOK, HoldsTheRecord, NothingPostedYet, ReplyIsOnRecord, ~LostAnswers,
         [Next]_vars
  PROVE  NothingPostedYet'
  <1> USE DEF NothingPostedYet
  <1>t. \A i \in Inbound : T(i) \in Threads
    BY ConstantsAssumption DEF T
  <1>p. pc \in [Inbound -> Labels]
    BY DEF TypeOK, AttemptOK
  <1>1. CASE Quiet
    BY <1>1 DEF Quiet, T, PostedOn
  <1>2. ASSUME NEW i \in Inbound, Ends(i) PROVE NothingPostedYet'
    BY <1>2, <1>p, EndsFrame DEF T, PostedOn
  <1>3. ASSUME NEW i \in Inbound,
               \/ Take(i) \/ Load(i) \/ Check(i) \/ Gate(i) \/ MarkThread(i)
               \/ DeleteRecord(i) \/ DeleteReply(i)
        PROVE  NothingPostedYet'
    BY <1>3, <1>p DEF Take, Load, Check, Gate, MarkThread, DeleteRecord, DeleteReply,
       Goto, UndoThen, T, PostedOn
  <1>4. ASSUME NEW i \in Inbound, Mark(i) PROVE NothingPostedYet'
    BY <1>4, <1>p DEF Mark, Retry, Forget, Goto, T, PostedOn
  <1>5. ASSUME NEW i \in Inbound, Record(i) PROVE NothingPostedYet'
    BY <1>5, <1>t, <1>p DEF Record, Goto, ReplyIsOnRecord, T, PostedOn
  <1>6. ASSUME NEW i \in Inbound, Post(i) PROVE NothingPostedYet'
    <2>1. CASE posted' = posted
      BY <1>6, <2>1, <1>p DEF Post, UndoThen, Goto, T, PostedOn
    <2>2. CASE posted' = Append(posted, T(i)) /\ Goto(i, "mark")
      <3>1. \A j \in Inbound :
              pc'[j] \in {"gate", "post", "undo"} => j # i /\ PostedOn(T(j)) = {}
        BY <2>2, <1>p DEF Goto
      <3>2. \A j \in Inbound : pc'[j] \in {"gate", "post", "undo"} => T(j) # T(i)
        BY <1>6, <3>1, <2>2, <1>p DEF Post, Goto, HoldsTheRecord, Holding
      <3>3. \A j \in Inbound : T(j) # T(i) => PostedOn(T(j))' = PostedOn(T(j))
        BY <2>2, <1>t, PostedAfter DEF TypeOK, T
      <3> QED BY <3>1, <3>2, <3>3 DEF T
    <2> QED BY <1>6, <2>1, <2>2 DEF Post
  <1> QED BY <1>1, <1>2, <1>3, <1>4, <1>5, <1>6, WorldIsQuiet DEF Next, Step, Ends

\* A record is only taken back by the attempt that made it, which has sent
\* nothing.
LEMMA OnRecordNext ==
  ASSUME TypeOK, HoldsTheRecord, NothingPostedYet, ReplyIsOnRecord, [Next]_vars
  PROVE  ReplyIsOnRecord'
  <1> USE DEF ReplyIsOnRecord
  <1>t. \A i \in Inbound : T(i) \in Threads /\ i # None
    BY ConstantsAssumption DEF T
  <1>p. record \in [Threads -> Inbound \cup {None}]
    BY DEF TypeOK, RowsOK
  <1>1. CASE UNCHANGED <<posted, record>>
    BY <1>1 DEF PostedOn
  <1>2. ASSUME NEW i \in Inbound, Record(i) PROVE ReplyIsOnRecord'
    BY <1>2, <1>t, <1>p DEF Record, PostedOn
  <1>3. ASSUME NEW i \in Inbound, Post(i) PROVE ReplyIsOnRecord'
    <2>1. UNCHANGED record /\ record[T(i)] # None
      BY <1>3, <1>t DEF Post, rowVars, HoldsTheRecord, Holding
    <2>2. \A t \in Threads : t = T(i) \/ PostedOn(t)' = PostedOn(t)
      BY <1>3, <1>t, PostedAfter DEF Post, TypeOK, PostedOn
    <2> QED BY <2>1, <2>2
  <1>4. ASSUME NEW i \in Inbound, DeleteRecord(i) PROVE ReplyIsOnRecord'
    <2>1. UNCHANGED posted /\ PostedOn(T(i)) = {}
      BY <1>4 DEF DeleteRecord, NothingPostedYet
    <2>2. \A t \in Threads : record[t] = i => T(i) = t
      BY <1>t DEF HoldsTheRecord
    <2>3. \A t \in Threads : record'[t] = IF record[t] = i THEN None ELSE record[t]
      BY <1>4 DEF DeleteRecord
    <2> QED BY <2>1, <2>2, <2>3 DEF PostedOn
  <1>5. ASSUME NEW i \in Inbound,
               \/ Take(i) \/ Load(i) \/ Check(i) \/ Gate(i) \/ Mark(i)
               \/ MarkThread(i) \/ DeleteReply(i) \/ Ends(i)
        PROVE  UNCHANGED <<posted, record>>
    BY <1>5, EndsFrame DEF Take, Load, Check, Gate, Mark, MarkThread, DeleteReply, rowVars
  <1> QED
    BY <1>1, <1>2, <1>3, <1>4, <1>5, WorldIsQuiet DEF Next, Step, Ends, Quiet

\* What is sent is the first reply of its thread.
LEMMA PostsNext ==
  ASSUME TypeOK, NothingPostedYet, Posts, [Next]_vars
  PROVE  Posts'
  <1>t. \A i \in Inbound : T(i) \in Threads
    BY ConstantsAssumption DEF T
  <1>1. CASE UNCHANGED posted
    BY <1>1 DEF Posts
  <1>2. ASSUME NEW i \in Inbound, Post(i), posted' = Append(posted, T(i))
        PROVE  Posts'
    <2>1. \A n \in DOMAIN posted : posted[n] # T(i)
      BY <1>2 DEF Post, NothingPostedYet, PostedOn
    <2>2. /\ DOMAIN posted' = DOMAIN posted \cup {Len(posted) + 1}
          /\ posted'[Len(posted) + 1] = T(i)
          /\ \A n \in DOMAIN posted : posted'[n] = posted[n]
      BY <1>2, <1>t, PostAppends DEF TypeOK
    <2> QED BY <2>1, <2>2 DEF Posts
  <1>3. ASSUME NEW i \in Inbound, Post(i) PROVE UNCHANGED posted \/ posted' = Append(posted, T(i))
    BY <1>3 DEF Post
  <1>4. ASSUME NEW i \in Inbound,
               \/ Take(i) \/ Load(i) \/ Check(i) \/ Record(i) \/ Gate(i) \/ Mark(i)
               \/ MarkThread(i) \/ DeleteRecord(i) \/ DeleteReply(i) \/ Ends(i)
        PROVE  UNCHANGED posted
    BY <1>4, EndsFrame DEF Take, Load, Check, Record, Gate, Mark, MarkThread,
       DeleteRecord, DeleteReply
  <1> QED
    BY <1>1, <1>2, <1>3, <1>4, WorldIsQuiet DEF Next, Step, Ends, Quiet

\* The invariant that holds while no answer of the marketplace gets lost.
LEMMA OnceNext ==
  ASSUME ~LostAnswers
  PROVE  /\ Init => OnceInv
         /\ RowInv /\ OnceInv /\ [Next]_vars => OnceInv'
  <1>1. Init => OnceInv
    BY DEF Init, OnceInv, NothingPostedYet, ReplyIsOnRecord, Posts, PostedOn
  <1>2. RowInv /\ OnceInv /\ [Next]_vars => OnceInv'
    BY NothingPostedNext, OnRecordNext, PostsNext DEF RowInv, OnceInv
  <1> QED BY <1>1, <1>2

\* While no answer gets lost, a thread that had its automatic reply is on
\* record as having had it, for any number of clients, threads, retries and
\* crashes.
THEOREM OnRecord == ASSUME ~LostAnswers PROVE Spec => []ReplyIsOnRecord
  <1>1. OnceInv => ReplyIsOnRecord
    BY DEF OnceInv
  <1>2. Init => OnceInv
    BY OnceNext
  <1>3. RowInv /\ OnceInv /\ [Next]_vars => OnceInv'
    BY OnceNext
  <1> QED BY <1>1, <1>2, <1>3, InitRowInv, RowNext, PTL DEF Spec

\* While no answer gets lost, no thread gets two automatic replies.
THEOREM OneReply == ASSUME ~LostAnswers PROVE Spec => []OneAutoReplyPerThread
  <1>1. Posts => OneAutoReplyPerThread
    <2> SUFFICES ASSUME Posts, NEW t \in Threads PROVE Cardinality(PostedOn(t)) <= 1
      BY DEF OneAutoReplyPerThread
    <2>1. CASE PostedOn(t) = {}
      BY <2>1, FS_EmptySet
    <2>2. CASE PostedOn(t) # {}
      <3>1. PICK n \in DOMAIN posted : posted[n] = t
        BY <2>2 DEF PostedOn
      <3>2. PostedOn(t) = {n}
        BY <3>1 DEF PostedOn, Posts
      <3>3. Cardinality({n}) = 1
        BY FS_Singleton
      <3> QED BY <3>2, <3>3
    <2> QED BY <2>1, <2>2
  <1>2. OnceInv => Posts
    BY DEF OnceInv
  <1>3. Init => OnceInv
    BY OnceNext
  <1>4. RowInv /\ OnceInv /\ [Next]_vars => OnceInv'
    BY OnceNext
  <1> QED BY <1>1, <1>2, <1>3, <1>4, InitRowInv, RowNext, PTL DEF Spec

\* While no answer gets lost every attempt holds the record of its thread, marks
\* its own message, and undoes only what was not sent, whatever fails or dies.
THEOREM AttemptsKeepOrder == ASSUME ~LostAnswers PROVE Spec => []AutoReplyInv
  <1>1. Init => AutoReplyInv
    BY InitRowInv, OnceNext DEF AutoReplyInv
  <1>2. AutoReplyInv /\ [Next]_vars => AutoReplyInv'
    BY RowNext, OnceNext DEF AutoReplyInv
  <1> QED BY <1>1, <1>2, PTL DEF Spec

=============================================================================
