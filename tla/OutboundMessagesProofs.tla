------------------------ MODULE OutboundMessagesProofs ------------------------
(***************************************************************************)
(* What OutboundMessages keeps for any number of replies, threads, words,  *)
(* attempts and client messages, with every fault allowed.                 *)
(***************************************************************************)
EXTENDS OutboundMessages, TLAPS

\* The words of a reply, and the redacted ones, are told apart by number.
LEMMA WordsAreNumbers ==
  /\ 0 \in Nat /\ Redacted # 0
  /\ \A v \in Versions : v \in Nat
  /\ \A m \in Replies : \A v \in 0..MaxWords[m] : v \in Versions
  /\ \A m \in Replies : 0 \in Versions
  BY ConstantsAssumption DEF Versions

\* Before any reply the invariant holds.
LEMMA InitOutbound == Init => OutboundInv
  <1> SUFFICES ASSUME Init PROVE OutboundInv
    OBVIOUS
  <1>1. Drafted = {} /\ Sent = {}
    BY DEF Init, Drafted, Sent
  <1>2. wire = <<>> /\ DOMAIN wire = {} /\ wire \in Seq(WireMessage)
    BY DEF Init
  <1>3. TypeOK
    BY <1>1, <1>2, WordsAreNumbers, ConstantsAssumption DEF Init, TypeOK
  <1>4. ConsentIsCarried /\ AttemptsAreOpen /\ SentIsApproved
    BY <1>1 DEF Init, ConsentIsCarried, AttemptsAreOpen, SentIsApproved
  <1>5. PostedWordsWereApproved /\ SentRowNamesItsMessage /\ RedactedIsClosed
    BY <1>1, <1>2 DEF Init, PostedWordsWereApproved, SentRowNamesItsMessage, RedactedIsClosed
  <1> QED BY <1>3, <1>4, <1>5 DEF OutboundInv

-----------------------------------------------------------------------------
\* What writing words, and ending an attempt, do to the types.
LEMMA Written ==
  ASSUME TypeOK, NEW m \in Replies, Write(m)
  PROVE  /\ body' \in [Replies -> Versions \cup {Redacted}]
         /\ version' \in [Replies -> Versions]
         /\ body'[m] # 0
         /\ \A x \in Replies : x = m \/ body'[x] = body[x]
  <1>1. version[m] + 1 \in Versions /\ version[m] + 1 # 0
    <2>1. version[m] \in Nat /\ version[m] < MaxWords[m] /\ MaxWords[m] \in Nat
      BY WordsAreNumbers, ConstantsAssumption DEF TypeOK, Write
    <2>2. version[m] + 1 \in 0..MaxWords[m]
      BY <2>1
    <2> QED BY <2>1, <2>2, WordsAreNumbers
  <1> QED BY <1>1 DEF TypeOK, Write

JobTypes ==
  /\ jobState' \in [Replies -> {"none", "waiting", "active", "finished"}]
  /\ attemptsMade' \in [Replies -> 0..(Attempts - 1)]
  /\ stalled' \in [Replies -> 0..MaxStalled]

AttemptTypes ==
  /\ pc' \in [Replies -> {"idle", "load", "prepare", "post", "mark", "thread",
                          "refuse", "note"}]
  /\ read' \in [Replies -> Versions \cup {Redacted}]
  /\ answer' \in [Replies -> Nat]

\* An attempt forgotten leaves its reply at rest and the others alone.
LEMMA Forgotten ==
  ASSUME TypeOK, NEW m \in Replies, Forget(m)
  PROVE  /\ AttemptTypes /\ pc'[m] = "idle"
         /\ \A x \in Replies :
              x = m \/ (pc'[x] = pc[x] /\ read'[x] = read[x] /\ answer'[x] = answer[x])
  BY WordsAreNumbers DEF TypeOK, Forget, AttemptTypes

\* A job that finishes leaves the jobs typed.
LEMMA Finished ==
  ASSUME TypeOK, NEW m \in Replies, Finish(m)
  PROVE  JobTypes
  BY ConstantsAssumption DEF TypeOK, Finish, JobTypes

\* A job that is retried leaves the jobs typed and its attempt forgotten.
LEMMA Retried ==
  ASSUME TypeOK, NEW m \in Replies, Retry(m)
  PROVE  JobTypes /\ Forget(m)
  <1>1. CASE Finish(m)
    BY <1>1, Finished DEF Retry
  <1>2. CASE /\ attemptsMade[m] + 1 < Attempts
             /\ jobState' = [jobState EXCEPT ![m] = "waiting"]
             /\ attemptsMade' = [attemptsMade EXCEPT ![m] = @ + 1]
             /\ UNCHANGED stalled
    <2>1. attemptsMade[m] + 1 \in 0..(Attempts - 1)
      BY <1>2, ConstantsAssumption DEF TypeOK
    <2> QED BY <1>2, <2>1 DEF TypeOK, JobTypes, Retry
  <1> QED BY <1>1, <1>2 DEF Retry

-----------------------------------------------------------------------------
\* The steps that leave every row and thread alone, and the marketplace.
JobStep(m) ==
  Enqueue(m) \/ LoseEnqueue(m) \/ ForgetJob(m) \/ Take(m) \/ DatabaseFails(m) \/ Crash(m)
  \/ Prepare(m) \/ Return(m)

\* The queue's own steps touch neither the rows nor what was sent.
LEMMA JobStepKeeps ==
  ASSUME TypeOK, NEW m \in Replies, JobStep(m)
  PROVE  /\ UNCHANGED <<rowVars, stored, threadVars, purgeVars, wire, history>>
         /\ JobTypes /\ AttemptTypes /\ pendingAdd' \subseteq Replies
         /\ \A x \in Replies :
              \/ pc'[x] = pc[x] /\ read'[x] = read[x] /\ answer'[x] = answer[x]
              \/ pc'[x] \in {"idle", "load", "note"}
              \/ /\ pc[x] = "prepare" /\ pc'[x] \in {"refuse", "post"}
                 /\ read'[x] = read[x]
  <1>1. UNCHANGED <<rowVars, stored, threadVars, purgeVars, wire, history>>
    BY DEF JobStep, Enqueue, LoseEnqueue, ForgetJob, Take, DatabaseFails, Crash, Prepare,
       Return, rowVars, threadVars, purgeVars, history
  <1>2. pendingAdd' \subseteq Replies
    BY DEF TypeOK, JobStep, Enqueue, LoseEnqueue, ForgetJob, Take, DatabaseFails, Crash, Prepare,
       Return
  <1>3. CASE Enqueue(m) \/ LoseEnqueue(m) \/ ForgetJob(m) \/ Take(m)
    <2>1. JobTypes
      BY <1>3 DEF TypeOK, JobTypes, Enqueue, LoseEnqueue, ForgetJob, Take, jobVars
    <2>2. /\ AttemptTypes
          /\ \A x \in Replies :
               \/ pc'[x] = pc[x] /\ read'[x] = read[x] /\ answer'[x] = answer[x]
               \/ pc'[x] = "load"
      BY <1>3 DEF TypeOK, AttemptTypes, Enqueue, LoseEnqueue, ForgetJob, Take, attemptVars
    <2> QED BY <1>1, <1>2, <2>1, <2>2
  <1>4. CASE JobTypes /\ Forget(m)
    BY <1>1, <1>2, <1>4, Forgotten
  <1>5. CASE DatabaseFails(m)
    BY <1>4, <1>5, Retried DEF DatabaseFails
  <1>6. CASE Return(m)
    BY <1>4, <1>6, Finished DEF Return
  <1>7. CASE Crash(m)
    <2>1. CASE Finish(m)
      BY <1>4, <1>7, <2>1, Finished DEF Crash
    <2>2. CASE ~Finish(m)
      <3>1. /\ stalled[m] < MaxStalled
            /\ jobState' = [jobState EXCEPT ![m] = "waiting"]
            /\ stalled' = [stalled EXCEPT ![m] = @ + 1]
            /\ UNCHANGED attemptsMade
        BY <1>7, <2>2 DEF Crash
      <3>2. stalled[m] + 1 \in 0..MaxStalled
        BY <3>1, ConstantsAssumption DEF TypeOK
      <3>3. JobTypes
        BY <3>1, <3>2 DEF TypeOK, JobTypes
      <3> QED BY <1>4, <1>7, <3>3 DEF Crash
    <2> QED BY <2>1, <2>2
  <1>8. CASE Prepare(m)
    <2>1. CASE Retry(m)
      BY <1>4, <2>1, Retried
    <2>2. CASE ~Retry(m)
      <3>1. PICK label \in {"note", "refuse", "post"} : Goto(m, label)
        BY <1>8, <2>2 DEF Prepare
      <3>2. UNCHANGED <<jobVars, read, answer>> /\ pc[m] = "prepare"
        BY <1>8, <2>2 DEF Prepare
      <3>3. JobTypes /\ AttemptTypes
        BY <3>1, <3>2 DEF TypeOK, JobTypes, AttemptTypes, Goto, jobVars
      <3>4. pc'[m] = label /\ \A x \in Replies : x = m \/ pc'[x] = pc[x]
        BY <3>1 DEF TypeOK, Goto
      <3> QED BY <1>1, <1>2, <3>2, <3>3, <3>4
    <2> QED BY <2>1, <2>2
  <1> QED BY <1>3, <1>5, <1>6, <1>7, <1>8 DEF JobStep

\* While rows, threads and the marketplace are as they were, only the attempts
\* are left to look at.
LEMMA RowsAlone ==
  ASSUME OutboundInv, UNCHANGED <<rowVars, stored, closed, redacted, wire, consent>>
  PROVE  /\ Drafted' = Drafted /\ Sent' = Sent /\ SentIsApproved'
         /\ PostedWordsWereApproved' /\ SentRowNamesItsMessage' /\ RedactedIsClosed'
  <1>1. Drafted' = Drafted /\ Sent' = Sent
    BY DEF Drafted, Sent, rowVars
  <1>2. SentIsApproved'
    BY <1>1 DEF OutboundInv, SentIsApproved, rowVars
  <1>3. PostedWordsWereApproved'
    BY DEF OutboundInv, PostedWordsWereApproved
  <1>4. SentRowNamesItsMessage'
    BY <1>1 DEF OutboundInv, SentRowNamesItsMessage, rowVars
  <1>5. RedactedIsClosed'
    BY DEF OutboundInv, RedactedIsClosed
  <1> QED BY <1>1, <1>2, <1>3, <1>4, <1>5

\* The queue's own steps keep the invariant.
LEMMA JobStepInv ==
  ASSUME OutboundInv, NEW m \in Replies, JobStep(m)
  PROVE  OutboundInv'
  <1>1. TypeOK
    BY DEF OutboundInv
  <1>2. UNCHANGED <<rowVars, stored, threadVars, purgeVars, wire, history>>
    BY <1>1, JobStepKeeps
  <1>3. Drafted' = Drafted /\ Sent' = Sent
    BY <1>2, RowsAlone DEF threadVars, history
  <1>4. TypeOK'
    BY <1>1, <1>2, <1>3, JobStepKeeps
       DEF TypeOK, JobTypes, AttemptTypes, rowVars, threadVars, purgeVars, history
  <1>5. ConsentIsCarried'
    BY <1>1, <1>2, JobStepKeeps DEF OutboundInv, ConsentIsCarried, rowVars, history
  <1>6. AttemptsAreOpen'
    BY <1>1, <1>2, <1>3, JobStepKeeps DEF OutboundInv, AttemptsAreOpen
  <1> QED BY <1>2, <1>4, <1>5, <1>6, RowsAlone DEF OutboundInv, threadVars, history

-----------------------------------------------------------------------------
\* An attempt reads the row, posts, and marks it.
LEMMA LoadInv ==
  ASSUME OutboundInv, NEW m \in Replies, Load(m)
  PROVE  OutboundInv'
  <1>1. TypeOK
    BY DEF OutboundInv
  <1>2. UNCHANGED <<rowVars, stored, threadVars, pendingAdd, jobVars, answer, purgeVars, wire, consent>>
    BY DEF Load
  <1>3. Drafted' = Drafted /\ Sent' = Sent
    BY <1>2, RowsAlone DEF threadVars
  <1>4. /\ pc' \in [Replies -> {"idle", "load", "prepare", "post", "mark", "thread", "refuse", "note"}]
        /\ read' \in [Replies -> Versions \cup {Redacted}]
        /\ tried' \in [Replies -> Versions \cup {Redacted}]
    BY <1>1 DEF TypeOK, Load, Goto
  <1>5. TypeOK'
    BY <1>1, <1>2, <1>3, <1>4 DEF TypeOK, rowVars, threadVars, jobVars, purgeVars
  <1>6. \A x \in Replies :
          \/ pc'[x] = pc[x] /\ read'[x] = read[x]
          \/ pc'[x] = "note"
          \/ x \in approved \ Sent /\ pc'[x] = "prepare" /\ read'[x] = body[x]
    BY <1>1 DEF TypeOK, Load, Goto
  <1>7. ConsentIsCarried'
    BY <1>2, <1>6 DEF OutboundInv, ConsentIsCarried, rowVars
  <1>8. AttemptsAreOpen'
    BY <1>1, <1>2, <1>3, <1>6 DEF OutboundInv, AttemptsAreOpen, TypeOK
  <1> QED BY <1>2, <1>5, <1>7, <1>8, RowsAlone DEF OutboundInv, threadVars

\* A message more on the marketplace leaves the others where they are.
LEMMA Appended ==
  ASSUME TypeOK, NEW msg \in WireMessage, wire' = Append(wire, msg)
  PROVE  /\ wire' \in Seq(WireMessage) /\ Len(wire) + 1 \in Nat
         /\ Len(wire) + 1 \in DOMAIN wire' /\ wire'[Len(wire) + 1] = msg
         /\ DOMAIN wire' = DOMAIN wire \cup {Len(wire) + 1}
         /\ DOMAIN wire \subseteq DOMAIN wire'
         /\ \A i \in DOMAIN wire : wire'[i] = wire[i]
  <1>1. wire \in Seq(WireMessage)
    BY DEF TypeOK
  <1> QED BY <1>1

\* A message sent with consent, or redacted, keeps the invariant.
LEMMA Delivered ==
  ASSUME OutboundInv, NEW msg \in WireMessage, wire' = Append(wire, msg),
         msg.of \in Replies => <<msg.of, msg.words>> \in consent \/ msg.words = Redacted,
         UNCHANGED <<rowVars, stored, threadVars, history>>
  PROVE  PostedWordsWereApproved' /\ SentRowNamesItsMessage' /\ Drafted' = Drafted /\ Sent' = Sent
  <1>1. TypeOK
    BY DEF OutboundInv
  <1>2. Drafted' = Drafted /\ Sent' = Sent
    BY DEF Drafted, Sent, rowVars
  <1>3. PostedWordsWereApproved'
    <2> SUFFICES ASSUME NEW i \in DOMAIN wire', wire'[i].of \in Replies
                 PROVE  <<wire'[i].of, wire'[i].words>> \in consent \/ wire'[i].words = Redacted
      BY DEF PostedWordsWereApproved, history
    <2>1. (i \in DOMAIN wire /\ wire'[i] = wire[i]) \/ wire'[i] = msg
      BY <1>1, Appended
    <2> QED BY <2>1 DEF OutboundInv, PostedWordsWereApproved
  <1>4. SentRowNamesItsMessage'
    BY <1>1, <1>2, Appended DEF OutboundInv, SentRowNamesItsMessage, rowVars
  <1> QED BY <1>2, <1>3, <1>4

\* Posting a reply to the marketplace keeps the invariant.
LEMMA PostInv ==
  ASSUME OutboundInv, NEW m \in Replies, Post(m)
  PROVE  OutboundInv'
  <1>1. TypeOK
    BY DEF OutboundInv
  <1>2. /\ UNCHANGED <<rowVars, stored, threadVars, pendingAdd, purgeVars, history>>
        /\ pc[m] = "post"
    BY DEF Post
  <1> DEFINE msg == [of |-> m, words |-> read[m]]
  <1>3. /\ msg \in WireMessage /\ msg.of = m
        /\ <<msg.of, msg.words>> \in consent \/ msg.words = Redacted
    BY <1>1, <1>2 DEF OutboundInv, ConsentIsCarried, TypeOK, WireMessage
  <1> HIDE DEF msg
  <1>4. \/ UNCHANGED wire /\ JobTypes /\ Forget(m)
        \/ UNCHANGED <<wire, jobVars, read, answer>> /\ Goto(m, "refuse")
        \/ wire' = Append(wire, msg) /\ JobTypes /\ Forget(m)
        \/ /\ wire' = Append(wire, msg) /\ UNCHANGED <<jobVars, read>>
           /\ answer' = [answer EXCEPT ![m] = Len(wire) + 1] /\ Goto(m, "mark")
    BY <1>1, Retried DEF Post, Posted, msg
  <1>5. /\ Drafted' = Drafted /\ Sent' = Sent /\ SentIsApproved'
        /\ PostedWordsWereApproved' /\ SentRowNamesItsMessage' /\ RedactedIsClosed'
        /\ wire' \in Seq(WireMessage)
        /\ DOMAIN wire \subseteq DOMAIN wire'
        /\ \A i \in DOMAIN wire : wire'[i] = wire[i]
    <2>1. CASE UNCHANGED wire
      BY <1>1, <1>2, <2>1, RowsAlone DEF threadVars, history, TypeOK
    <2>2. CASE wire' = Append(wire, msg)
      <3>1. PostedWordsWereApproved' /\ SentRowNamesItsMessage' /\ Drafted' = Drafted /\ Sent' = Sent
        BY <1>2, <1>3, <2>2, Delivered
      <3>2. SentIsApproved' /\ RedactedIsClosed'
        BY <1>2, <3>1 DEF OutboundInv, SentIsApproved, RedactedIsClosed, rowVars, threadVars
      <3> QED BY <1>1, <1>3, <2>2, <3>1, <3>2, Appended
    <2> QED BY <1>4, <2>1, <2>2
  <1>6. /\ JobTypes /\ AttemptTypes
        /\ \A x \in Replies :
             \/ pc'[x] = pc[x] /\ read'[x] = read[x] /\ answer'[x] = answer[x]
             \/ pc'[x] = "idle"
             \/ pc[x] = "post" /\ pc'[x] = "refuse"
             \/ /\ pc[x] = "post" /\ pc'[x] = "mark"
                /\ answer'[x] \in DOMAIN wire' /\ wire'[answer'[x]].of = x
    <2>1. CASE JobTypes /\ Forget(m)
      BY <1>1, <2>1, Forgotten
    <2>2. CASE UNCHANGED <<wire, jobVars, read, answer>> /\ Goto(m, "refuse")
      BY <1>1, <1>2, <2>2 DEF TypeOK, JobTypes, AttemptTypes, Goto, jobVars
    <2>3. CASE /\ wire' = Append(wire, msg) /\ UNCHANGED <<jobVars, read>>
               /\ answer' = [answer EXCEPT ![m] = Len(wire) + 1] /\ Goto(m, "mark")
      <3>1. /\ Len(wire) + 1 \in Nat /\ Len(wire) + 1 \in DOMAIN wire'
            /\ wire'[Len(wire) + 1] = msg
        BY <1>1, <1>3, <2>3, Appended
      <3>2. JobTypes /\ AttemptTypes
        BY <1>1, <2>3, <3>1 DEF TypeOK, JobTypes, AttemptTypes, Goto, jobVars
      <3>3. /\ pc'[m] = "mark" /\ answer'[m] = Len(wire) + 1
            /\ \A x \in Replies : x = m \/ (pc'[x] = pc[x] /\ read'[x] = read[x] /\ answer'[x] = answer[x])
        BY <1>1, <2>3 DEF TypeOK, Goto
      <3> QED BY <1>2, <1>3, <3>1, <3>2, <3>3
    <2> QED BY <1>4, <2>1, <2>2, <2>3
  <1>7. TypeOK'
    <2>1. stored \subseteq DOMAIN wire'
      BY <1>1, <1>5 DEF TypeOK
    <2> QED BY <1>1, <1>2, <1>5, <1>6, <2>1
         DEF TypeOK, JobTypes, AttemptTypes, rowVars, threadVars, purgeVars, history
  <1>8. ConsentIsCarried'
    BY <1>2, <1>6 DEF OutboundInv, ConsentIsCarried, rowVars, history
  <1>9. AttemptsAreOpen'
    BY <1>5, <1>6 DEF OutboundInv, AttemptsAreOpen
  <1> QED BY <1>5, <1>7, <1>8, <1>9 DEF OutboundInv

\* Recording that it was sent keeps the invariant.
LEMMA MarkSentInv ==
  ASSUME OutboundInv, NEW m \in Replies, MarkSent(m)
  PROVE  OutboundInv'
  <1>1. TypeOK
    BY DEF OutboundInv
  <1>2. /\ pc[m] = "mark"
        /\ UNCHANGED <<body, version, approved, rejected, wiped, stored, threadVars, pendingAdd,
                       purgeVars, wire, history>>
    BY DEF MarkSent
  <1>3. CASE ~Markable(m)
    <2>1. JobTypes /\ Forget(m) /\ UNCHANGED <<sentAs, failed>>
      BY <1>1, <1>3, Retried DEF MarkSent
    <2>2. UNCHANGED rowVars
      BY <1>2, <2>1 DEF rowVars
    <2>3. Drafted' = Drafted /\ Sent' = Sent
      BY <1>2, <2>2, RowsAlone DEF threadVars, history
    <2>4. TypeOK'
      BY <1>1, <1>2, <2>1, <2>2, <2>3, Forgotten
         DEF TypeOK, JobTypes, AttemptTypes, rowVars, threadVars, purgeVars, history
    <2>5. ConsentIsCarried'
      BY <1>1, <1>2, <2>1, Forgotten DEF OutboundInv, ConsentIsCarried, history
    <2>6. AttemptsAreOpen'
      BY <1>1, <1>2, <2>1, <2>3, Forgotten DEF OutboundInv, AttemptsAreOpen
    <2> QED BY <1>2, <2>2, <2>4, <2>5, <2>6, RowsAlone DEF OutboundInv, threadVars, history
  <1>4. CASE Markable(m)
    <2>1. /\ m \in approved /\ answer[m] \notin stored
          /\ sentAs' = [sentAs EXCEPT ![m] = answer[m]]
          /\ failed' = failed \ {m} /\ Goto(m, "thread")
          /\ UNCHANGED <<jobVars, read, answer>>
      BY <1>4 DEF MarkSent, Markable
    <2>2. answer[m] \in DOMAIN wire /\ wire[answer[m]].of = m
      BY <1>2 DEF OutboundInv, AttemptsAreOpen
    <2>3. answer[m] # 0 /\ answer[m] \in Nat
      BY <1>1, <2>2 DEF TypeOK
    <2>4. /\ sentAs' \in [Replies -> Nat] /\ sentAs'[m] = answer[m]
          /\ \A x \in Replies : x = m \/ sentAs'[x] = sentAs[x]
          /\ Drafted' = Drafted /\ Sent' = Sent \cup {m}
      BY <1>1, <1>2, <2>1, <2>3 DEF TypeOK, Drafted, Sent
    <2>5. /\ pc' \in [Replies -> {"idle", "load", "prepare", "post", "mark", "thread", "refuse", "note"}]
          /\ pc'[m] = "thread" /\ \A x \in Replies : x = m \/ pc'[x] = pc[x]
      BY <1>1, <2>1 DEF TypeOK, Goto
    <2>6. TypeOK'
      BY <1>1, <1>2, <2>1, <2>4, <2>5 DEF TypeOK, threadVars, jobVars, purgeVars, history
    <2>7. ConsentIsCarried'
      BY <1>2, <2>1, <2>5 DEF OutboundInv, ConsentIsCarried, history
    <2>8. AttemptsAreOpen'
      BY <1>2, <2>1, <2>4, <2>5 DEF OutboundInv, AttemptsAreOpen
    <2>9. SentIsApproved'
      BY <1>2, <2>1, <2>4 DEF OutboundInv, SentIsApproved
    <2>10. SentRowNamesItsMessage'
      BY <1>2, <2>1, <2>2, <2>4 DEF OutboundInv, SentRowNamesItsMessage, Sent
    <2>11. PostedWordsWereApproved' /\ RedactedIsClosed'
      BY <1>2 DEF OutboundInv, PostedWordsWereApproved, RedactedIsClosed, threadVars, history
    <2> QED BY <2>6, <2>7, <2>8, <2>9, <2>10, <2>11 DEF OutboundInv
  <1> QED BY <1>3, <1>4

\* Marking the thread, and being refused, keep the invariant.
LEMMA AfterwardsInv ==
  ASSUME OutboundInv, NEW m \in Replies, MarkThread(m) \/ Refuse(m)
  PROVE  OutboundInv'
  <1>1. TypeOK
    BY DEF OutboundInv
  <1>2. /\ Goto(m, "note")
        /\ UNCHANGED <<body, version, approved, rejected, sentAs, wiped, stored, closed, redacted,
                       pendingAdd, jobVars, read, answer, purgeVars, wire, history>>
    BY DEF MarkThread, Refuse, rowVars, threadVars
  <1>3. Drafted' = Drafted /\ Sent' = Sent
    BY <1>2 DEF Drafted, Sent
  <1>4. failed' \subseteq Drafted /\ idle' \subseteq Threads
    <2>1. pc[m] = "refuse" => m \in Drafted
      BY DEF OutboundInv, AttemptsAreOpen
    <2> QED BY <1>1, <2>1 DEF TypeOK, MarkThread, Refuse, rowVars, threadVars
  <1>5. /\ pc' \in [Replies -> {"idle", "load", "prepare", "post", "mark", "thread", "refuse", "note"}]
        /\ pc'[m] = "note" /\ \A x \in Replies : x = m \/ pc'[x] = pc[x]
    BY <1>1, <1>2 DEF TypeOK, Goto
  <1>6. TypeOK'
    BY <1>1, <1>2, <1>3, <1>4, <1>5 DEF TypeOK, jobVars, purgeVars, history
  <1>7. ConsentIsCarried' /\ AttemptsAreOpen'
    BY <1>2, <1>3, <1>5 DEF OutboundInv, ConsentIsCarried, AttemptsAreOpen, history
  <1>8. /\ SentIsApproved' /\ PostedWordsWereApproved' /\ SentRowNamesItsMessage'
        /\ RedactedIsClosed'
    BY <1>2, <1>3 DEF OutboundInv, SentIsApproved, PostedWordsWereApproved,
       SentRowNamesItsMessage, RedactedIsClosed, history
  <1> QED BY <1>6, <1>7, <1>8 DEF OutboundInv

-----------------------------------------------------------------------------
\* People: only what is not sent changes, and what is approved has its words.
LEMMA PeopleInv ==
  ASSUME OutboundInv, NEW m \in Replies, People(m)
  PROVE  OutboundInv'
  <1>1. TypeOK
    BY DEF OutboundInv
  <1>2. /\ UNCHANGED <<sentAs, wiped, stored, threadVars, jobVars, attemptVars, purgeVars, wire, tried>>
        /\ consent \subseteq consent'
    BY DEF People, Draft, Approve, Reject, Edit, history
  <1>3. /\ body' \in [Replies -> Versions \cup {Redacted}] /\ version' \in [Replies -> Versions]
        /\ \A x \in Replies : x = m \/ body'[x] = body[x]
        /\ \/ body'[m] = body[m] /\ m \in Drafted
           \/ body'[m] # 0 /\ m \notin Sent /\ m \notin approved'
    <2>1. CASE Draft(m)
      <3>1. m \notin approved /\ m \notin Sent
        BY <1>1, <2>1 DEF OutboundInv, SentIsApproved, TypeOK, Draft, Drafted
      <3> QED BY <1>1, <2>1, <3>1, Written DEF Draft
    <2>2. CASE Edit(m)
      BY <1>1, <2>2, Written DEF Edit
    <2>3. CASE Approve(m) \/ Reject(m)
      BY <1>1, <2>3 DEF Approve, Reject, Queued, TypeOK
    <2> QED BY <2>1, <2>2, <2>3 DEF People
  <1>4. Sent' = Sent /\ Drafted' = Drafted \cup {m}
    BY <1>1, <1>2, <1>3 DEF Sent, Drafted
  <1>5. /\ approved' \subseteq approved \cup {m} /\ approved \ {m} \subseteq approved'
        /\ rejected' \subseteq rejected \cup {m}
        /\ failed' \subseteq failed \cup {m} /\ pendingAdd' \subseteq Replies
        /\ consent' \subseteq Replies \X (Versions \cup {Redacted})
    BY <1>1 DEF TypeOK, People, Draft, Approve, Reject, Edit, Queued, history
  <1>6. /\ m \in approved' => <<m, body'[m]>> \in consent' \/ body'[m] = Redacted
        /\ m \in Sent => m \in approved'
        /\ m \in approved' => m \notin rejected'
    <2>1. CASE Draft(m)
      <3>1. m \notin Drafted /\ m \notin approved' /\ m \notin Sent
        BY <1>1, <2>1 DEF OutboundInv, SentIsApproved, TypeOK, Draft, Drafted
      <3> QED BY <3>1
    <2>2. CASE Approve(m)
      BY <2>2 DEF Approve, Queued
    <2>3. CASE Reject(m) \/ Edit(m)
      BY <2>3 DEF Reject, Edit
    <2> QED BY <2>1, <2>2, <2>3 DEF People
  <1>7. TypeOK'
    BY <1>1, <1>2, <1>3, <1>4, <1>5 DEF TypeOK, threadVars, jobVars, attemptVars, purgeVars
  <1>8. ConsentIsCarried'
    BY <1>2, <1>3, <1>5, <1>6 DEF OutboundInv, ConsentIsCarried, attemptVars
  <1>9. AttemptsAreOpen'
    BY <1>2, <1>4 DEF OutboundInv, AttemptsAreOpen, attemptVars
  <1>10. SentIsApproved'
    <2>1. Sent' \subseteq approved'
      BY <1>4, <1>5, <1>6 DEF OutboundInv, SentIsApproved
    <2>2. \A x \in approved' : x \notin rejected'
      BY <1>5, <1>6 DEF OutboundInv, SentIsApproved
    <2> QED BY <2>1, <2>2 DEF SentIsApproved
  <1>11. PostedWordsWereApproved' /\ SentRowNamesItsMessage' /\ RedactedIsClosed'
    BY <1>2, <1>4 DEF OutboundInv, PostedWordsWereApproved, SentRowNamesItsMessage,
       RedactedIsClosed, threadVars
  <1> QED BY <1>7, <1>8, <1>9, <1>10, <1>11 DEF OutboundInv

-----------------------------------------------------------------------------
\* The clients, the poll and retention.
LEMMA ClientInv ==
  ASSUME OutboundInv, NEW t \in Threads, ClientWrites(t)
  PROVE  OutboundInv'
  <1>1. TypeOK
    BY DEF OutboundInv
  <1> DEFINE msg == [of |-> Client, on |-> t]
  <1>2. msg \in WireMessage /\ msg.of \notin Replies
    BY ConstantsAssumption DEF WireMessage
  <1>3. wire' = Append(wire, msg)
        /\ UNCHANGED <<rowVars, stored, threadVars, pendingAdd, jobVars, attemptVars, purgeVars, history>>
    BY DEF ClientWrites
  <1> HIDE DEF msg
  <1>4. PostedWordsWereApproved' /\ SentRowNamesItsMessage' /\ Drafted' = Drafted /\ Sent' = Sent
    BY <1>2, <1>3, Delivered
  <1>5. /\ wire' \in Seq(WireMessage) /\ DOMAIN wire \subseteq DOMAIN wire'
        /\ \A i \in DOMAIN wire : wire'[i] = wire[i]
    BY <1>1, <1>2, <1>3, Appended
  <1>6. TypeOK'
    BY <1>1, <1>3, <1>4, <1>5
       DEF TypeOK, rowVars, threadVars, jobVars, attemptVars, purgeVars, history
  <1>7. ConsentIsCarried' /\ AttemptsAreOpen' /\ SentIsApproved' /\ RedactedIsClosed'
    BY <1>3, <1>4, <1>5 DEF OutboundInv, ConsentIsCarried, AttemptsAreOpen, SentIsApproved,
       RedactedIsClosed, rowVars, threadVars, attemptVars, history
  <1> QED BY <1>4, <1>6, <1>7 DEF OutboundInv

\* Storing what the poll brings keeps the invariant.
LEMMA StoreInv ==
  ASSUME OutboundInv, NEW n \in DOMAIN wire, Store(n)
  PROVE  OutboundInv'
  <1>1. TypeOK
    BY DEF OutboundInv
  <1> DEFINE new == Unstored(n)
             touched == {ThreadOn(i) : i \in new}
  <1>2. /\ stored' = stored \cup new /\ idle' = idle \ touched
        /\ closed' = closed \ touched /\ redacted' = redacted \ touched
        /\ UNCHANGED <<rowVars, pendingAdd, jobVars, attemptVars, purgeVars, wire, history>>
    BY DEF Store
  <1>3. new \subseteq DOMAIN wire /\ \A m \in Replies : sentAs[m] \notin new
    BY <1>1 DEF Unstored, TypeOK
  <1> HIDE DEF new, touched
  <1>4. Drafted' = Drafted /\ Sent' = Sent
    BY <1>2 DEF Drafted, Sent, rowVars
  <1>5. TypeOK'
    BY <1>1, <1>2, <1>3, <1>4 DEF TypeOK, rowVars, jobVars, attemptVars, purgeVars, history
  <1>6. SentRowNamesItsMessage'
    BY <1>2, <1>3, <1>4 DEF OutboundInv, SentRowNamesItsMessage, rowVars, Sent
  <1>7. RedactedIsClosed'
    BY <1>2 DEF OutboundInv, RedactedIsClosed
  <1>8. ConsentIsCarried' /\ AttemptsAreOpen' /\ SentIsApproved' /\ PostedWordsWereApproved'
    BY <1>2, <1>4 DEF OutboundInv, ConsentIsCarried, AttemptsAreOpen, SentIsApproved,
       PostedWordsWereApproved, rowVars, attemptVars, history
  <1> QED BY <1>5, <1>6, <1>7, <1>8 DEF OutboundInv

\* Threads that fall quiet, close and are redacted keep the invariant.
LEMMA ThreadsInv ==
  ASSUME OutboundInv,
         (\E t \in Threads : BecomeIdle(t)) \/ CloseIdle \/ RedactThreads \/ PurgeDies
  PROVE  OutboundInv'
  <1>1. TypeOK
    BY DEF OutboundInv
  <1>2. UNCHANGED <<rowVars, stored, pendingAdd, jobVars, attemptVars, wire, history>>
    BY DEF BecomeIdle, CloseIdle, RedactThreads, PurgeDies, threadVars
  <1>3. /\ idle' \subseteq Threads /\ closed' \subseteq Threads /\ redacted' \subseteq Threads
        /\ due' \subseteq Threads /\ purge' \in {"idle", "redact", "messages"}
        /\ redacted' \subseteq closed'
    BY <1>1 DEF TypeOK, BecomeIdle, CloseIdle, RedactThreads, PurgeDies, threadVars, purgeVars,
       OutboundInv, RedactedIsClosed
  <1>4. Drafted' = Drafted /\ Sent' = Sent
    BY <1>2 DEF Drafted, Sent, rowVars
  <1>5. TypeOK'
    BY <1>1, <1>2, <1>3, <1>4 DEF TypeOK, rowVars, jobVars, attemptVars, history
  <1>6. /\ ConsentIsCarried' /\ AttemptsAreOpen' /\ SentIsApproved'
        /\ PostedWordsWereApproved' /\ SentRowNamesItsMessage'
    BY <1>2, <1>4 DEF OutboundInv, ConsentIsCarried, AttemptsAreOpen, SentIsApproved,
       PostedWordsWereApproved, SentRowNamesItsMessage, rowVars, attemptVars, history
  <1> QED BY <1>3, <1>5, <1>6 DEF OutboundInv, RedactedIsClosed

\* Redacting the messages keeps the invariant.
LEMMA RedactMessagesInv ==
  ASSUME OutboundInv, RedactMessages
  PROVE  OutboundInv'
  <1>1. TypeOK
    BY DEF OutboundInv
  <1>2. /\ UNCHANGED <<version, approved, rejected, failed, sentAs, stored, threadVars,
                       pendingAdd, jobVars, attemptVars, wire, history>>
        /\ purge' = "idle" /\ due' = {}
    BY DEF RedactMessages
  <1>3. /\ body' \in [Replies -> Versions \cup {Redacted}]
        /\ \A m \in Replies : body'[m] = body[m] \/ (m \in Drafted /\ body'[m] = Redacted)
        /\ wiped' \subseteq Drafted
    BY <1>1 DEF RedactMessages, TypeOK, Drafted
  <1>4. Sent' = Sent /\ Drafted' = Drafted
    BY <1>2, <1>3, WordsAreNumbers DEF Sent, Drafted
  <1>5. TypeOK'
    BY <1>1, <1>2, <1>3, <1>4 DEF TypeOK, threadVars, jobVars, attemptVars, history
  <1>6. ConsentIsCarried'
    BY <1>2, <1>3 DEF OutboundInv, ConsentIsCarried, attemptVars, history
  <1>7. /\ AttemptsAreOpen' /\ SentIsApproved' /\ PostedWordsWereApproved'
        /\ SentRowNamesItsMessage' /\ RedactedIsClosed'
    BY <1>2, <1>4 DEF OutboundInv, AttemptsAreOpen, SentIsApproved, PostedWordsWereApproved,
       SentRowNamesItsMessage, RedactedIsClosed, threadVars, attemptVars, history
  <1> QED BY <1>5, <1>6, <1>7 DEF OutboundInv

\* Every step keeps the invariant.
LEMMA NextInv == OutboundInv /\ [Next]_vars => OutboundInv'
  <1> SUFFICES ASSUME OutboundInv, [Next]_vars PROVE OutboundInv'
    OBVIOUS
  <1>1. CASE UNCHANGED vars
    <2>1. /\ UNCHANGED <<body, version, approved, rejected, failed, sentAs, wiped, stored,
                         idle, closed, redacted, pendingAdd, jobState, attemptsMade, stalled,
                         pc, read, answer, purge, due, wire, consent, tried>>
      BY <1>1 DEF vars, rowVars, threadVars, jobVars, attemptVars, purgeVars, history
    <2>2. Drafted' = Drafted /\ Sent' = Sent
      BY <2>1 DEF Drafted, Sent
    <2>3. TypeOK'
      BY <2>1, <2>2 DEF OutboundInv, TypeOK
    <2> QED BY <2>1, <2>2, <2>3
         DEF OutboundInv, ConsentIsCarried, AttemptsAreOpen, SentIsApproved,
             PostedWordsWereApproved, SentRowNamesItsMessage, RedactedIsClosed
  <1>2. CASE \E m \in Replies : JobStep(m)
    BY <1>2, JobStepInv
  <1>3. CASE \E m \in Replies : Load(m) \/ Post(m) \/ MarkSent(m) \/ MarkThread(m) \/ Refuse(m)
    BY <1>3, LoadInv, PostInv, MarkSentInv, AfterwardsInv
  <1>4. CASE \E m \in Replies : People(m)
    BY <1>4, PeopleInv
  <1>5. CASE Purge \/ \E t \in Threads : BecomeIdle(t)
    BY <1>5, ThreadsInv, RedactMessagesInv DEF Purge
  <1>6. CASE (\E t \in Threads : ClientWrites(t)) \/ \E n \in DOMAIN wire : Store(n)
    BY <1>6, ClientInv, StoreInv
  <1> QED BY <1>1, <1>2, <1>3, <1>4, <1>5, <1>6 DEF Next, Queue, Step, JobStep

-----------------------------------------------------------------------------
\* The inductive invariant of replies holds of every reachable state.
THEOREM OutboundInvariance == Spec => []OutboundInv
  BY InitOutbound, NextInv, PTL DEF Spec

\* Every variable keeps its type.
THEOREM OutboundTypeCorrect == Spec => []TypeOK
  BY OutboundInvariance, PTL DEF OutboundInv

\* A client gets approved words, or the text retention left (send-message.ts).
THEOREM ApprovedWords == Spec => []PostedWordsWereApproved
  BY OutboundInvariance, PTL DEF OutboundInv

\* A sent reply names its own message, which no other row has (send-message.ts,
\* inbox-sync.ts).
THEOREM OwnMessage == Spec => []SentRowNamesItsMessage
  BY OutboundInvariance, PTL DEF OutboundInv

\* A redacted thread is closed (retention.ts, inbox-sync.ts).
THEOREM RedactionHolds == Spec => []RedactedIsClosed
  BY OutboundInvariance, PTL DEF OutboundInv

\* A sent reply is final: only retention takes its words (routes/messages.ts).
THEOREM SentStays == Spec => SentIsFinal
  <1> DEFINE Stays(m) == sentAs[m] # 0 =>
               /\ sentAs'[m] = sentAs[m]
               /\ body'[m] \in {body[m], Redacted}
               /\ m \in approved' /\ m \notin rejected'
  <1>1. ASSUME OutboundInv, OutboundInv', [Next]_vars, NEW m \in Replies, sentAs[m] # 0
        PROVE  sentAs'[m] = sentAs[m] /\ body'[m] \in {body[m], Redacted}
    <2>1. TypeOK /\ m \in Sent /\ m \in Drafted /\ pc[m] # "mark"
      BY <1>1 DEF OutboundInv, AttemptsAreOpen, SentIsApproved, Sent, TypeOK
    <2>2. CASE UNCHANGED <<body, sentAs>>
      BY <2>2
    <2>3. CASE \E x \in Replies : Draft(x) \/ Edit(x)
      <3>1. PICK x \in Replies : Draft(x) \/ Edit(x)
        BY <2>3
      <3>2. x # m /\ Write(x) /\ UNCHANGED sentAs
        BY <2>1, <3>1 DEF Draft, Edit, Drafted
      <3> QED BY <2>1, <3>2, Written
    <2>4. CASE \E x \in Replies : MarkSent(x)
      BY <2>1, <2>4 DEF MarkSent, TypeOK
    <2>5. CASE RedactMessages
      BY <2>1, <2>5 DEF RedactMessages, TypeOK
    <2>6. CASE \E x \in Replies : JobStep(x)
      BY <2>1, <2>2, <2>6, JobStepKeeps DEF rowVars
    <2> QED BY <1>1, <2>2, <2>3, <2>4, <2>5, <2>6
         DEF Next, vars, People, Queue, Step, JobStep, Purge, rowVars, Approve, Reject,
             Load, Post, MarkThread, Refuse, ClientWrites, BecomeIdle, Store, CloseIdle,
             RedactThreads, PurgeDies
  <1>2. ASSUME OutboundInv, OutboundInv', [Next]_vars
        PROVE  \A m \in Replies : Stays(m)
    <2> SUFFICES ASSUME NEW m \in Replies, sentAs[m] # 0
                 PROVE  /\ sentAs'[m] = sentAs[m] /\ body'[m] \in {body[m], Redacted}
                        /\ m \in approved' /\ m \notin rejected'
      OBVIOUS
    <2>1. sentAs'[m] = sentAs[m] /\ body'[m] \in {body[m], Redacted}
      BY <1>1, <1>2
    <2>2. m \in Sent'
      BY <2>1 DEF Sent
    <2>3. Sent' \subseteq approved' /\ approved' \cap rejected' = {}
      BY <1>2 DEF OutboundInv, SentIsApproved
    <2> QED BY <2>1, <2>2, <2>3
  <1>3. OutboundInv /\ OutboundInv' /\ [Next]_vars => [\A m \in Replies : Stays(m)]_vars
    BY <1>2
  <1> QED BY OutboundInvariance, <1>3, PTL DEF Spec, SentIsFinal

=============================================================================
