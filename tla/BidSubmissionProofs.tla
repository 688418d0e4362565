------------------------ MODULE BidSubmissionProofs ------------------------
(***************************************************************************)
(* What BidSubmission keeps for any number of proposals, projects and      *)
(* worker slots, any limits and any number of retries, stalls and edits.   *)
(***************************************************************************)
EXTENDS BidSubmission, FiniteSetTheorems, TLAPS

\* Every variable stays in its type: in particular a counter is never negative
\* and a worker never refers to a reference the marketplace could not have given.
LEMMA TypeInit == Init => TypeOK
  <1> SUFFICES ASSUME Init PROVE TypeOK
    OBVIOUS
  <1> USE DEF Init
  <1>1. RowsOK
    BY ConstantsAssumption DEF RowsOK, AllWords
  <1>2. QueueOK
    BY DEF QueueOK, Counters
  <1>3. WorkersOK
    BY DEF WorkersOK, NoSnapshot, Labels, Outcomes
  <1>4. WorldOK
    BY DEF WorldOK
  <1> QED BY <1>1, <1>2, <1>3, <1>4 DEF TypeOK

\* Versions of words are positive and within the bound of some proposal (editBid).
LEMMA WordsAreNumbered ==
  \A v \in AllWords : v \in Nat \ {0} /\ \E b \in Bids : v <= MaxWords[b]
  BY ConstantsAssumption DEF AllWords

\* What a person or a hand-over to the queue does to the types.
LEMMA TypePeople ==
  ASSUME TypeOK, NEW b \in Bids, People(b)
  PROVE  TypeOK'
  <1> USE DEF TypeOK, rowVars, factVars, jobVars, workerVars
  <1>1. CASE ApproveBid(b) \/ AutoApprove(b)
    <2>1. PICK channel \in {"person", "auto"} : Approve(b, channel)
      BY <1>1 DEF ApproveBid, AutoApprove
    <2>2. RowsOK' /\ QueueOK'
      BY <2>1 DEF Approve, RowsOK, QueueOK
    <2>3. WorkersOK' /\ UNCHANGED posted
      BY <2>1 DEF Approve, WorkersOK
    <2>4. <<b, words[b]>> \in Bids \X AllWords
      BY DEF RowsOK
    <2>5. WorldOK'
      BY <2>1, <2>3, <2>4 DEF Approve, WorldOK
    <2> QED BY <2>2, <2>3, <2>5
  <1>2. CASE RejectBid(b)
    BY <1>2 DEF RejectBid, RowsOK, QueueOK, WorkersOK, WorldOK
  <1>3. CASE EditBid(b)
    <2>1. words[b] + 1 \in AllWords
      <3>1. words[b] \in Nat \ {0}
        BY WordsAreNumbered DEF RowsOK
      <3>2. MaxWords[b] \in Nat /\ words[b] < MaxWords[b]
        BY <1>3, ConstantsAssumption DEF EditBid
      <3>3. words[b] + 1 \in 1..MaxWords[b]
        BY <3>1, <3>2
      <3> QED BY <3>3 DEF AllWords
    <2>2. RowsOK' /\ QueueOK'
      BY <1>3, <2>1 DEF EditBid, RowsOK, QueueOK
    <2>3. WorkersOK' /\ WorldOK'
      BY <1>3 DEF EditBid, WorkersOK, WorldOK
    <2> QED BY <2>2, <2>3
  <1>4. CASE RequestSubmit(b)
    BY <1>4 DEF RequestSubmit, RowsOK, QueueOK, WorkersOK, WorldOK
  <1>5. CASE Enqueue(b)
    BY <1>5 DEF Enqueue, RowsOK, QueueOK, WorkersOK, WorldOK
  <1>6. CASE LoseEnqueue(b)
    BY <1>6 DEF LoseEnqueue, RowsOK, QueueOK, WorkersOK, WorldOK
  <1> QED BY <1>1, <1>2, <1>3, <1>4, <1>5, <1>6 DEF People

\* /pause and /resume keep the types: what they hand over are proposals.
LEMMA TypeSwitches ==
  ASSUME TypeOK, Switches
  PROVE  TypeOK'
  <1> USE DEF TypeOK, RowsOK, QueueOK, WorkersOK, WorldOK, rowVars, factVars,
              jobVars, workerVars
  <1>1. CASE Pause
    BY <1>1 DEF Pause
  <1>2. CASE Resume
    BY <1>2 DEF Resume
  <1> QED BY <1>1, <1>2 DEF Switches

\* What the parts of an attempt that many steps share do to the types.
LEMMA TypeGoto ==
  ASSUME WorkersOK, NEW w \in Workers, NEW label \in Labels, Goto(w, label)
  PROVE  pc' \in [Workers -> Labels]
  BY DEF Goto, WorkersOK

\* Giving up leads to a label and an outcome the worker has.
LEMMA TypeGiveUp ==
  ASSUME WorkersOK, NEW w \in Workers,
         NEW result \in DOMAIN AfterGiveBack, GiveUp(w, result)
  PROVE  pc' \in [Workers -> Labels] /\ outcome' \in [Workers -> Outcomes]
  BY DEF GiveUp, Goto, AfterGiveBack, Labels, Outcomes, WorkersOK

\* A slot that forgets its attempt is an idle slot.
LEMMA TypeForget ==
  ASSUME WorkersOK, NEW w \in Workers, Forget(w)
  PROVE  WorkersOK'
  BY DEF Forget, WorkersOK, Labels, Outcomes, NoSnapshot

\* However an attempt ends (return, throw, crash), the types are kept.
LEMMA TypeEndOfAttempt ==
  ASSUME TypeOK, NEW w \in Workers, at[w] \in Bids, Throw(w) \/ Return(w) \/ Crash(w)
  PROVE  TypeOK'
  <1>1. Forget(w)
    BY DEF Throw, Return, Crash
  <1>2. WorkersOK'
    BY <1>1, TypeForget DEF TypeOK
  <1>3. QueueOK'
    <2> USE DEF TypeOK, QueueOK, EndJob
    <2>1. CASE Throw(w)
      BY <2>1 DEF Throw
    <2>2. CASE Return(w)
      BY <2>2 DEF Return
    <2>3. CASE Crash(w)
      BY <2>3 DEF Crash
    <2> QED BY <2>1, <2>2, <2>3
  <1>4. RowsOK' /\ WorldOK'
    BY DEF Throw, Return, Crash, TypeOK, RowsOK, WorldOK, rowVars, factVars
  <1> QED BY <1>2, <1>3, <1>4 DEF TypeOK

\* Taking a job keeps the types.
LEMMA TypeTake ==
  ASSUME TypeOK, NEW w \in Workers, NEW b \in Bids, Take(w, b)
  PROVE  TypeOK'
  <1>1. WorkersOK' /\ QueueOK'
    BY DEF Take, TypeOK, WorkersOK, QueueOK, Labels
  <1>2. RowsOK' /\ WorldOK'
    BY DEF Take, TypeOK, RowsOK, WorldOK, rowVars, factVars
  <1> QED BY <1>1, <1>2 DEF TypeOK

\* Every awaited call of submitProposal keeps the types.
LEMMA TypeStep ==
  ASSUME TypeOK, JobsOwned, GiveBackIsGoingSomewhere, NEW w \in Workers, Step(w)
  PROVE  TypeOK'
  <1> USE DEF TypeOK, outsideVars, factVars, jobVars
  <1>1. CASE LoadProposal(w)
    <2>0. at[w] \in Bids
      BY <1>1 DEF LoadProposal, JobsOwned
    <2>1. WorkersOK'
      <3>1. UNCHANGED <<at, held>>
        BY <1>1 DEF LoadProposal
      <3>2. /\ words[at[w]] \in AllWords /\ okCall[at[w]] \in Nat
            /\ via[at[w]] \in {"none", "person", "auto"}
        BY <2>0 DEF RowsOK
      <3>3. seen' \in [Workers -> [words : AllWords \cup {0}, via : {"none", "person", "auto"}]]
        BY <1>1, <3>2 DEF LoadProposal, WorkersOK
      <3>4. ref' \in [Workers -> Nat]
        BY <1>1, <3>2 DEF LoadProposal, WorkersOK
      <3>5. pc' \in [Workers -> Labels] /\ outcome' \in [Workers -> Outcomes]
        BY <1>1 DEF LoadProposal, Goto, Finish, WorkersOK, Labels, Outcomes
      <3> QED BY <3>1, <3>3, <3>4, <3>5 DEF WorkersOK
    <2>2. RowsOK' /\ QueueOK' /\ WorldOK'
      BY <1>1 DEF LoadProposal, RowsOK, QueueOK, WorldOK
    <2> QED BY <2>1, <2>2
  <1>2. CASE ReadSettings(w)
    <2>1. WorkersOK'
      BY <1>2 DEF ReadSettings, Goto, Finish, WorkersOK, Labels, Outcomes
    <2>2. RowsOK' /\ QueueOK' /\ WorldOK'
      BY <1>2 DEF ReadSettings, RowsOK, QueueOK, WorldOK
    <2> QED BY <2>1, <2>2
  <1>3. CASE TakeScannerSlot(w) \/ TakeAllowance(w) \/ MeterPlan(w)
    <2>1. PICK c \in Counters, label \in Labels : Reserve(w, c, label) \/ Blocked(w)
      BY <1>3 DEF TakeScannerSlot, TakeAllowance, MeterPlan, Counters, Labels
    <2>2. UNCHANGED <<at, seen, ref>>
      BY <1>3 DEF TakeScannerSlot, TakeAllowance, MeterPlan
    <2>3. WorkersOK'
      <3>1. CASE Reserve(w, c, label)
        BY <2>2, <3>1 DEF Reserve, Goto, WorkersOK
      <3>2. CASE Blocked(w)
        BY <2>2, <3>2, TypeGiveUp DEF Blocked, WorkersOK, AfterGiveBack
      <3> QED BY <2>1, <3>1, <3>2
    <2>4. used' \in [Counters -> Nat]
      BY <2>1 DEF Reserve, Blocked, QueueOK
    <2>5. RowsOK' /\ QueueOK' /\ WorldOK'
      BY <1>3, <2>4 DEF TakeScannerSlot, TakeAllowance, MeterPlan, RowsOK, QueueOK, WorldOK
    <2> QED BY <2>3, <2>5
  <1>4. CASE FindBid(w)
    <2>1. WorkersOK'
      <3>1. UNCHANGED <<at, seen, held>>
        BY <1>4 DEF FindBid
      <3>2. CASE \E unrecoverable \in BOOLEAN : PlacingFailed(w, unrecoverable) /\ UNCHANGED ref
        <4>1. PICK result \in {"failed", "retry"} : GiveUp(w, result)
          BY <3>2 DEF PlacingFailed
        <4> QED BY <3>1, <3>2, <4>1, TypeGiveUp DEF WorkersOK, AfterGiveBack
      <3>3. CASE \E i \in PostedOn(ProjectOf[at[w]]) :
                   ref' = [ref EXCEPT ![w] = i] /\ GiveUp(w, "reconciled")
        BY <3>1, <3>3, TypeGiveUp DEF WorkersOK, AfterGiveBack, PostedOn, WorldOK
      <3>4. CASE Goto(w, "create") /\ UNCHANGED <<ref, outcome>>
        BY <3>1, <3>4 DEF Goto, WorkersOK, Labels
      <3> QED BY <1>4, <3>2, <3>3, <3>4 DEF FindBid
    <2>2. RowsOK' /\ QueueOK' /\ WorldOK'
      BY <1>4 DEF FindBid, RowsOK, QueueOK, WorldOK
    <2> QED BY <2>1, <2>2
  <1>5. CASE CreateBid(w)
    <2>1. at[w] \in Bids
      BY <1>5 DEF CreateBid, JobsOwned
    <2>2. WorldOK'
      <3>1. Accept(w) \/ UNCHANGED posted
        BY <1>5 DEF CreateBid
      <3>2. [project |-> ProjectOf[at[w]], bid |-> at[w], words |-> seen[w].words]
              \in PostedBid
        BY <2>1, ConstantsAssumption DEF WorkersOK, PostedBid
      <3>3. posted' \in Seq(PostedBid)
        BY <3>1, <3>2 DEF Accept, WorldOK
      <3> QED BY <1>5, <3>3 DEF CreateBid, WorldOK
    <2>3. WorkersOK'
      <3>1. UNCHANGED <<at, seen>>
        BY <1>5 DEF CreateBid
      <3>2. CASE PlacingFailed(w, FALSE) /\ UNCHANGED <<ref, held>>
        <4>1. PICK result \in {"failed", "retry"} : GiveUp(w, result)
          BY <3>2 DEF PlacingFailed
        <4> QED BY <3>1, <3>2, <4>1, TypeGiveUp DEF WorkersOK, AfterGiveBack
      <3>3. CASE /\ ref' = [ref EXCEPT ![w] = Len(posted) + 1]
                 /\ held' = [held EXCEPT ![w] = {}]
                 /\ Goto(w, "event")
                 /\ UNCHANGED outcome
        BY <3>1, <3>3 DEF Goto, WorkersOK, WorldOK, Labels
      <3> QED BY <1>5, <3>2, <3>3 DEF CreateBid
    <2>4. RowsOK' /\ QueueOK'
      BY <1>5 DEF CreateBid, RowsOK, QueueOK
    <2> QED BY <2>2, <2>3, <2>4
  <1>6. CASE GiveBack(w)
    <2>1. outcome[w] \in DOMAIN AfterGiveBack
      BY <1>6 DEF GiveBack, GiveBackIsGoingSomewhere
    <2>2. AfterGiveBack[outcome[w]] \in Labels
      BY <2>1 DEF AfterGiveBack, Labels
    <2>3. PICK c \in Counters :
            /\ used' = [used EXCEPT ![c] = IF @ > 0 THEN @ - 1 ELSE 0]
            /\ held' = [held EXCEPT ![w] = @ \ {c}]
            /\ Goto(w, IF held[w] = {c} THEN AfterGiveBack[outcome[w]] ELSE "giveBack")
      <3>1. PICK n \in DOMAIN CounterOrder :
              /\ used' = [used EXCEPT ![CounterOrder[n]] = IF @ > 0 THEN @ - 1 ELSE 0]
              /\ held' = [held EXCEPT ![w] = @ \ {CounterOrder[n]}]
              /\ Goto(w, IF held[w] = {CounterOrder[n]} THEN AfterGiveBack[outcome[w]] ELSE "giveBack")
        BY <1>6 DEF GiveBack
      <3>2. CounterOrder[n] \in Counters
        BY DEF CounterOrder, Counters
      <3> QED BY <3>1, <3>2
    <2>4. WorkersOK'
      BY <1>6, <2>2, <2>3 DEF GiveBack, Goto, WorkersOK, Labels
    <2>5. used' \in [Counters -> Nat]
      BY <2>3 DEF QueueOK
    <2>6. RowsOK' /\ QueueOK' /\ WorldOK'
      BY <1>6, <2>5 DEF GiveBack, RowsOK, QueueOK, WorldOK
    <2> QED BY <2>4, <2>6
  <1>7. CASE RecordCall(w)
    <2>1. WorkersOK'
      BY <1>7 DEF RecordCall, Goto, WorkersOK, Labels
    <2>2. RowsOK' /\ QueueOK' /\ WorldOK'
      BY <1>7 DEF RecordCall, RowsOK, QueueOK, WorldOK, WorkersOK
    <2> QED BY <2>1, <2>2
  <1>8. CASE RecordPlaced(w)
    <2>1. at[w] \in Bids
      BY <1>8 DEF RecordPlaced, JobsOwned
    <2>2. WorkersOK'
      BY <1>8 DEF RecordPlaced, Goto, Finish, WorkersOK, Labels, Outcomes
    <2>3. RowsOK'
      <3>1. pipeline' = pipeline \/ pipeline' = [pipeline EXCEPT ![ProjectOf[at[w]]] = at[w]]
        BY <1>8 DEF RecordPlaced
      <3>2. /\ status' = status \/ status' = [status EXCEPT ![at[w]] = "submitted"]
            /\ platformRef' = platformRef \/ platformRef' = [platformRef EXCEPT ![at[w]] = ref[w]]
            /\ UNCHANGED <<words, via, okCall>>
        BY <1>8 DEF RecordPlaced
      <3>3. ref[w] \in Nat
        BY DEF WorkersOK
      <3>4. status' \in [Bids -> {"queued", "approved", "rejected", "submitted", "failed"}]
        BY <3>2 DEF RowsOK
      <3>5. platformRef' \in [Bids -> Nat]
        BY <3>2, <3>3 DEF RowsOK
      <3> QED BY <2>1, <3>1, <3>2, <3>4, <3>5 DEF RowsOK
    <2>4. QueueOK' /\ WorldOK'
      BY <1>8 DEF RecordPlaced, QueueOK, WorldOK
    <2> QED BY <2>2, <2>3, <2>4
  <1>9. CASE MarkFailed(w)
    <2>1. WorkersOK'
      BY <1>9 DEF MarkFailed, Goto, Finish, WorkersOK, Labels, Outcomes
    <2>2. RowsOK' /\ QueueOK' /\ WorldOK'
      BY <1>9 DEF MarkFailed, RowsOK, QueueOK, WorldOK
    <2> QED BY <2>1, <2>2
  <1>10. CASE Rethrow(w) \/ Return(w)
    <2>1. at[w] \in Bids
      BY <1>10 DEF Rethrow, Return, JobsOwned
    <2> QED BY <1>10, <2>1, TypeEndOfAttempt DEF Rethrow
  <1> QED BY <1>1, <1>2, <1>3, <1>4, <1>5, <1>6, <1>7, <1>8, <1>9, <1>10 DEF Step

-----------------------------------------------------------------------------
(***************************************************************************)
(* Four kinds of step, and what each leaves alone.  A step of people and   *)
(* of the queue touches no attempt; an attempt goes on or ends.            *)
(***************************************************************************)
GoesOn(w) ==
  \/ LoadProposal(w) \/ ReadSettings(w)
  \/ TakeScannerSlot(w) \/ TakeAllowance(w) \/ MeterPlan(w)
  \/ FindBid(w) \/ CreateBid(w) \/ GiveBack(w)
  \/ RecordCall(w) \/ RecordPlaced(w) \/ MarkFailed(w)

Ends(w) == Rethrow(w) \/ Return(w) \/ DatabaseFails(w) \/ Crash(w)

\* A step is a stutter, a person's, a switch, a job taken, or a step or an end of one attempt.
LEMMA NextKinds ==
  ASSUME [Next]_vars
  PROVE  \/ \E b \in Bids : People(b)
         \/ Switches
         \/ \E w \in Workers, b \in Bids : Take(w, b)
         \/ \E w \in Workers : GoesOn(w)
         \/ \E w \in Workers : Ends(w)
         \/ UNCHANGED vars
  BY DEF Next, Step, GoesOn, Ends

\* What people and the hand-over to the queue leave alone: attempts, active jobs and the marketplace.
LEMMA PeopleFrame ==
  ASSUME TypeOK, NEW b \in Bids, People(b)
  PROVE  /\ UNCHANGED <<pc, at, seen, held, ref, outcome, okCall, pipeline, posted,
                        platformRef, used>>
         /\ consent \subseteq consent'
         /\ \A a \in Bids : jobState[a] = "active" => jobState'[a] = "active"
         /\ \A a \in Bids : (status'[a] = "submitted") <=> (status[a] = "submitted")
         /\ \A a \in Bids : status[a] = "submitted" => words'[a] = words[a]
         /\ \A a \in Bids : status'[a] = "approved" =>
              \/ status[a] = "approved" /\ words'[a] = words[a]
              \/ <<a, words'[a]>> \in consent'
  <1> USE DEF TypeOK, RowsOK, QueueOK, rowVars, factVars, jobVars, workerVars
  <1>1. CASE ApproveBid(b) \/ AutoApprove(b)
    <2>1. PICK channel \in {"person", "auto"} : Approve(b, channel)
      BY <1>1 DEF ApproveBid, AutoApprove
    <2> QED BY <2>1 DEF Approve
  <1>2. CASE RejectBid(b)
    BY <1>2 DEF RejectBid
  <1>3. CASE EditBid(b)
    BY <1>3 DEF EditBid
  <1>4. CASE RequestSubmit(b) \/ LoseEnqueue(b)
    BY <1>4 DEF RequestSubmit, LoseEnqueue
  <1>5. CASE Enqueue(b)
    BY <1>5 DEF Enqueue
  <1> QED BY <1>1, <1>2, <1>3, <1>4, <1>5 DEF People

\* What /pause and /resume leave alone: rows, jobs, attempts and the marketplace.
LEMMA SwitchesFrame ==
  ASSUME Switches
  PROVE  UNCHANGED <<rowVars, factVars, used, jobVars, workerVars, posted, consent>>
  BY DEF Switches, Pause, Resume

\* A step that goes on stays with its job, and leaves the queue and the words alone.
LEMMA GoesOnFrame ==
  ASSUME TypeOK, GiveBackIsGoingSomewhere, NEW w \in Workers, GoesOn(w)
  PROVE  /\ pc[w] \notin {"idle", "return", "throw"}
         /\ UNCHANGED <<at, jobState, words, via, consent>>
         /\ \E l \in Labels \ {"idle"} : pc' = [pc EXCEPT ![w] = l]
  <1> USE DEF outsideVars, jobVars, Labels
  <1>1. CASE LoadProposal(w)
    BY <1>1 DEF LoadProposal, Goto, Finish
  <1>2. CASE ReadSettings(w)
    BY <1>2 DEF ReadSettings, Goto, Finish
  <1>3. CASE TakeScannerSlot(w) \/ TakeAllowance(w) \/ MeterPlan(w)
    BY <1>3 DEF TakeScannerSlot, TakeAllowance, MeterPlan, Reserve, Blocked,
                GiveUp, Goto, AfterGiveBack
  <1>4. CASE FindBid(w)
    BY <1>4 DEF FindBid, PlacingFailed, GiveUp, Goto, AfterGiveBack
  <1>5. CASE CreateBid(w)
    BY <1>5 DEF CreateBid, PlacingFailed, GiveUp, Goto, AfterGiveBack
  <1>6. CASE GiveBack(w)
    <2>1. AfterGiveBack[outcome[w]] \in Labels \ {"idle"}
      BY <1>6 DEF GiveBack, GiveBackIsGoingSomewhere, AfterGiveBack
    <2> QED BY <1>6, <2>1 DEF GiveBack, Goto
  <1>7. CASE RecordCall(w)
    BY <1>7 DEF RecordCall, Goto
  <1>8. CASE RecordPlaced(w)
    BY <1>8 DEF RecordPlaced, Goto, Finish
  <1>9. CASE MarkFailed(w)
    BY <1>9 DEF MarkFailed, Goto, Finish
  <1> QED BY <1>1, <1>2, <1>3, <1>4, <1>5, <1>6, <1>7, <1>8, <1>9 DEF GoesOn

\* An attempt that ends frees its slot and its job, and touches no row and no bid.
LEMMA EndsFrame ==
  ASSUME NEW w \in Workers, Ends(w)
  PROVE  /\ pc[w] # "idle"
         /\ Forget(w)
         /\ UNCHANGED <<rowVars, factVars, used, posted, consent>>
         /\ \E s \in {"waiting", "none"} : jobState' = [jobState EXCEPT ![at[w]] = s]
  <1>1. CASE Rethrow(w) \/ DatabaseFails(w)
    BY <1>1 DEF Rethrow, DatabaseFails, Throw, EndJob
  <1>2. CASE Return(w)
    BY <1>2 DEF Return, EndJob
  <1>3. CASE Crash(w)
    BY <1>3 DEF Crash, EndJob
  <1> QED BY <1>1, <1>2, <1>3 DEF Ends

-----------------------------------------------------------------------------
\* The invariant's parts, one lemma each.

\* Every step keeps the types.
LEMMA TypeNext ==
  ASSUME TypeOK, JobsOwned, GiveBackIsGoingSomewhere, [Next]_vars
  PROVE  TypeOK'
  <1>1. CASE \E w \in Workers : Ends(w)
    <2>1. PICK w \in Workers : Ends(w)
      BY <1>1
    <2>2. at[w] \in Bids
      BY <2>1, EndsFrame DEF JobsOwned
    <2> QED BY <2>1, <2>2, TypeEndOfAttempt DEF Ends, Rethrow, DatabaseFails
  <1>2. CASE UNCHANGED vars
    BY <1>2 DEF vars, TypeOK, RowsOK, QueueOK, WorkersOK, WorldOK, rowVars, factVars,
                jobVars, workerVars
  <1> QED
    BY <1>1, <1>2, NextKinds, TypePeople, TypeSwitches, TypeTake, TypeStep DEF GoesOn, Step

\* BullMQ's active state belongs to one attempt: no step lets two attempts run one job.
LEMMA OwnedNext ==
  ASSUME TypeOK, JobsOwned, GiveBackIsGoingSomewhere, [Next]_vars
  PROVE  JobsOwned'
  <1> USE DEF JobsOwned
  <1>1. CASE \E b \in Bids : People(b)
    BY <1>1, PeopleFrame
  <1>2. CASE \/ Switches
             \/ UNCHANGED vars
    BY <1>2, SwitchesFrame DEF vars, jobVars, workerVars
  <1>3. CASE \E w \in Workers, b \in Bids : Take(w, b)
    BY <1>3 DEF Take, TypeOK, WorkersOK, QueueOK
  <1>4. CASE \E w \in Workers : GoesOn(w)
    <2>1. PICK w \in Workers : GoesOn(w)
      BY <1>4
    <2>2. \A v \in Workers : pc'[v] # "idle" <=> pc[v] # "idle"
      BY <2>1, GoesOnFrame DEF TypeOK, WorkersOK
    <2> QED BY <2>1, <2>2, GoesOnFrame
  <1>5. CASE \E w \in Workers : Ends(w)
    <2>1. PICK w \in Workers : Ends(w)
      BY <1>5
    <2>2. \A v \in Workers : pc'[v] # "idle" => v # w /\ pc[v] # "idle" /\ at'[v] = at[v]
      BY <2>1, EndsFrame DEF Forget, TypeOK, WorkersOK
    <2>3. \A b \in Bids : b # at[w] => jobState'[b] = jobState[b]
      BY <2>1, EndsFrame DEF TypeOK, QueueOK
    <2> QED BY <2>1, <2>2, <2>3, EndsFrame
  <1> QED BY <1>1, <1>2, <1>3, <1>4, <1>5, NextKinds

\* Every way into "giveBack" has set the outcome the attempt leaves with.
LEMMA GivesBackNext ==
  ASSUME TypeOK, JobsOwned, GiveBackIsGoingSomewhere, [Next]_vars
  PROVE  GiveBackIsGoingSomewhere'
  <1> USE DEF GiveBackIsGoingSomewhere
  <1>1. CASE \E b \in Bids : People(b)
    BY <1>1, PeopleFrame
  <1>2. CASE Switches \/ UNCHANGED vars
    BY <1>2, SwitchesFrame DEF vars, workerVars
  <1>3. CASE \E w \in Workers, b \in Bids : Take(w, b)
    BY <1>3 DEF Take, TypeOK, WorkersOK
  <1>4. ASSUME NEW w \in Workers, GoesOn(w)
        PROVE  GiveBackIsGoingSomewhere'
    <2>1. pc'[w] = "giveBack" => outcome'[w] \in DOMAIN AfterGiveBack
      <3> USE DEF TypeOK, WorkersOK, Goto, Finish
      <3>1. CASE LoadProposal(w) \/ ReadSettings(w)
        BY <3>1 DEF LoadProposal, ReadSettings
      <3>2. CASE TakeScannerSlot(w) \/ TakeAllowance(w) \/ MeterPlan(w)
        BY <3>2 DEF TakeScannerSlot, TakeAllowance, MeterPlan, Reserve, Blocked, GiveUp, AfterGiveBack
      <3>3. CASE FindBid(w)
        BY <3>3 DEF FindBid, PlacingFailed, GiveUp, AfterGiveBack
      <3>4. CASE CreateBid(w)
        BY <3>4 DEF CreateBid, PlacingFailed, GiveUp, AfterGiveBack
      <3>5. CASE GiveBack(w)
        BY <3>5 DEF GiveBack
      <3>6. CASE RecordCall(w) \/ RecordPlaced(w) \/ MarkFailed(w)
        BY <3>6 DEF RecordCall, RecordPlaced, MarkFailed
      <3> QED BY <1>4, <3>1, <3>2, <3>3, <3>4, <3>5, <3>6 DEF GoesOn
    <2>2. \A v \in Workers : v # w => pc'[v] = pc[v] /\ outcome'[v] = outcome[v]
      <3>1. \A v \in Workers : v # w => pc'[v] = pc[v]
        BY <1>4, GoesOnFrame DEF TypeOK, WorkersOK
      <3>2. \A v \in Workers : v # w => outcome'[v] = outcome[v]
        BY <1>4 DEF GoesOn, LoadProposal, ReadSettings, TakeScannerSlot, TakeAllowance,
             MeterPlan, Reserve, Blocked, FindBid, CreateBid, PlacingFailed, GiveUp, GiveBack,
             RecordCall, RecordPlaced, MarkFailed, Finish, TypeOK, WorkersOK
      <3> QED BY <3>1, <3>2
    <2> QED BY <2>1, <2>2
  <1>5. CASE \E w \in Workers : Ends(w)
    BY <1>5, EndsFrame DEF Forget, TypeOK, WorkersOK
  <1> QED BY <1>1, <1>2, <1>3, <1>4, <1>5, NextKinds

\* A step of an attempt that goes on, towards the other attempts.
LEMMA OthersFrame ==
  ASSUME TypeOK, NEW w \in Workers, GoesOn(w)
  PROVE  \A v \in Workers : v # w => /\ seen'[v] = seen[v]
                                     /\ ref'[v] = ref[v]
                                     /\ held'[v] = held[v]
                                     /\ outcome'[v] = outcome[v]
  <1> USE DEF TypeOK, WorkersOK
  <1>1. CASE LoadProposal(w) \/ ReadSettings(w)
    BY <1>1 DEF LoadProposal, ReadSettings, Finish
  <1>2. CASE TakeScannerSlot(w) \/ TakeAllowance(w) \/ MeterPlan(w)
    BY <1>2 DEF TakeScannerSlot, TakeAllowance, MeterPlan, Reserve, Blocked, GiveUp
  <1>3. CASE FindBid(w)
    BY <1>3 DEF FindBid, PlacingFailed, GiveUp
  <1>4. CASE CreateBid(w)
    BY <1>4 DEF CreateBid, PlacingFailed, GiveUp
  <1>5. CASE GiveBack(w)
    BY <1>5 DEF GiveBack
  <1>6. CASE RecordCall(w) \/ RecordPlaced(w) \/ MarkFailed(w)
    BY <1>6 DEF RecordCall, RecordPlaced, MarkFailed, Finish
  <1> QED BY <1>1, <1>2, <1>3, <1>4, <1>5, <1>6 DEF GoesOn

\* What is on the marketplace stays there; only CreateBid adds to it, and what
\* it adds are the words the attempt read.
LEMMA PostedGrows ==
  ASSUME TypeOK, [Next]_vars
  PROVE  \/ UNCHANGED posted
         \/ \E w \in Workers : CreateBid(w) /\ Accept(w)
  <1>1. CASE \E w \in Workers : GoesOn(w)
    BY <1>1 DEF GoesOn, LoadProposal, ReadSettings, TakeScannerSlot, TakeAllowance,
         MeterPlan, FindBid, CreateBid, GiveBack, RecordCall, RecordPlaced, MarkFailed
  <1>2. CASE \E w \in Workers, b \in Bids : Take(w, b)
    BY <1>2 DEF Take
  <1> QED BY <1>1, <1>2, NextKinds, PeopleFrame, SwitchesFrame, EndsFrame DEF vars

\* The marketplace keeps the bids it has: a step leaves them alone or appends one.
LEMMA PostedKept ==
  ASSUME TypeOK, [Next]_vars
  PROVE  \A i \in DOMAIN posted : i \in DOMAIN posted' /\ posted'[i] = posted[i]
  <1>1. CASE UNCHANGED posted
    BY <1>1
  <1>2. CASE \E w \in Workers : Accept(w)
    <2>1. PICK e : posted' = Append(posted, e)
      BY <1>2 DEF Accept
    <2> QED BY <2>1 DEF TypeOK, WorldOK
  <1> QED BY <1>1, <1>2, PostedGrows

\* An approved row and an attempt on its way keep carrying approved words: editBid clears the approval.
LEMMA ConsentNext ==
  ASSUME TypeOK, JobsOwned, GiveBackIsGoingSomewhere, ConsentIsCarried, [Next]_vars
  PROVE  ConsentIsCarried'
  <1> USE DEF ConsentIsCarried
  <1>1. CASE \E b \in Bids : People(b)
    <2>1. PICK b \in Bids : People(b)
      BY <1>1
    <2> QED BY <2>1, PeopleFrame
  <1>2. CASE Switches \/ UNCHANGED vars
    BY <1>2, SwitchesFrame DEF vars, workerVars, rowVars
  <1>3. CASE \E w \in Workers, b \in Bids : Take(w, b)
    BY <1>3 DEF Take, TypeOK, WorkersOK, rowVars, Sending
  <1>4. ASSUME NEW w \in Workers, GoesOn(w)
        PROVE  ConsentIsCarried'
    <2>1. \A b \in Bids : status'[b] = "approved" => status[b] = "approved"
      BY <1>4 DEF GoesOn, LoadProposal, ReadSettings, TakeScannerSlot, TakeAllowance,
           MeterPlan, FindBid, CreateBid, GiveBack, RecordCall, RecordPlaced, MarkFailed,
           TypeOK, RowsOK
    <2>2. pc'[w] \in Sending => <<at[w], seen'[w].words>> \in consent
      <3> USE DEF TypeOK, WorkersOK, Goto, Finish, Sending
      <3>1. CASE LoadProposal(w)
        BY <3>1 DEF LoadProposal, JobsOwned
      <3>2. CASE ReadSettings(w)
        BY <3>2 DEF ReadSettings
      <3>3. CASE TakeScannerSlot(w) \/ TakeAllowance(w) \/ MeterPlan(w)
        BY <3>3 DEF TakeScannerSlot, TakeAllowance, MeterPlan
      <3>4. CASE FindBid(w)
        BY <3>4 DEF FindBid
      <3>5. CASE CreateBid(w)
        BY <3>5 DEF CreateBid
      <3>6. CASE GiveBack(w)
        <4>1. outcome[w] \in DOMAIN AfterGiveBack
          BY <3>6 DEF GiveBack, GiveBackIsGoingSomewhere
        <4> QED BY <3>6, <4>1 DEF GiveBack, AfterGiveBack
      <3>7. CASE RecordCall(w) \/ RecordPlaced(w) \/ MarkFailed(w)
        BY <3>7 DEF RecordCall, RecordPlaced, MarkFailed
      <3> QED BY <1>4, <3>1, <3>2, <3>3, <3>4, <3>5, <3>6, <3>7 DEF GoesOn
    <2>3. \A v \in Workers : v # w => pc'[v] = pc[v] /\ seen'[v] = seen[v]
      BY <1>4, OthersFrame, GoesOnFrame DEF TypeOK, WorkersOK
    <2>4. UNCHANGED <<at, words, consent>>
      BY <1>4, GoesOnFrame
    <2> QED BY <2>1, <2>2, <2>3, <2>4
  <1>5. CASE \E w \in Workers : Ends(w)
    BY <1>5, EndsFrame DEF Forget, TypeOK, WorkersOK, Sending, rowVars
  <1> QED BY <1>1, <1>2, <1>3, <1>4, <1>5, NextKinds

\* Appending adds one index, the last.
LEMMA AppendedDomain ==
  ASSUME NEW S, NEW s \in Seq(S), NEW e, NEW i \in DOMAIN Append(s, e)
  PROVE  i \in DOMAIN s \/ i = Len(s) + 1
  OBVIOUS

\* A bid the marketplace accepts carries the words the attempt read, and these were approved.
LEMMA SentNext ==
  ASSUME TypeOK, ConsentIsCarried, SentWordsWereApproved, [Next]_vars
  PROVE  SentWordsWereApproved'
  <1> USE DEF SentWordsWereApproved
  <1>1. consent \subseteq consent'
    <2>1. CASE \E w \in Workers : GoesOn(w)
      BY <2>1 DEF GoesOn, LoadProposal, ReadSettings, TakeScannerSlot, TakeAllowance,
           MeterPlan, FindBid, CreateBid, GiveBack, RecordCall, RecordPlaced, MarkFailed, outsideVars
    <2>2. CASE \E w \in Workers, b \in Bids : Take(w, b)
      BY <2>2 DEF Take
    <2> QED BY <2>1, <2>2, NextKinds, PeopleFrame, SwitchesFrame, EndsFrame DEF vars
  <1>2. CASE UNCHANGED posted
    BY <1>1, <1>2
  <1>3. CASE \E w \in Workers : CreateBid(w) /\ Accept(w)
    <2>1. PICK w \in Workers : CreateBid(w) /\ Accept(w)
      BY <1>3
    <2>2. <<at[w], seen[w].words>> \in consent
      BY <2>1 DEF CreateBid, ConsentIsCarried, Sending
    <2>3. ASSUME NEW i \in DOMAIN posted'
          PROVE  <<posted'[i].bid, posted'[i].words>> \in consent'
      <3>1. CASE i \in DOMAIN posted
        BY <1>1, <2>1, <3>1 DEF Accept, TypeOK, WorldOK
      <3>2. CASE i = Len(posted) + 1
        BY <1>1, <2>1, <2>2, <3>2 DEF Accept, TypeOK, WorldOK
      <3>3. i \in DOMAIN posted \/ i = Len(posted) + 1
        BY <2>1, AppendedDomain DEF Accept, TypeOK, WorldOK
      <3> QED BY <3>1, <3>2, <3>3
    <2> QED BY <2>3
  <1> QED BY <1>2, <1>3, PostedGrows

\* Only recording a bid makes a proposal submitted, and nothing unmakes it.
LEMMA RecordsFrame ==
  ASSUME TypeOK, SubmittedIsLeftAlone, NEW w \in Workers, GoesOn(w)
  PROVE  \/ RecordPlaced(w)
         \/ /\ UNCHANGED <<platformRef, pipeline>>
            /\ \A a \in Bids : status'[a] = "submitted" <=> status[a] = "submitted"
  <1>1. CASE MarkFailed(w)
    BY <1>1 DEF MarkFailed, SubmittedIsLeftAlone, outsideVars, factVars, TypeOK, RowsOK
  <1> QED
    BY <1>1 DEF GoesOn, LoadProposal, ReadSettings, TakeScannerSlot, TakeAllowance,
         MeterPlan, FindBid, CreateBid, GiveBack, RecordCall, outsideVars, factVars

\* What RecordPlaced leaves behind.
LEMMA RecordPlacedFrame ==
  ASSUME TypeOK, JobsOwned, NEW w \in Workers, RecordPlaced(w)
  PROVE  /\ at[w] \in Bids
         /\ pc[w] = "record"
         /\ \A a \in Bids : status[a] = "submitted" => status'[a] = "submitted"
         /\ \A a \in Bids : a # at[w] => /\ status'[a] = status[a]
                                         /\ platformRef'[a] = platformRef[a]
         /\ status'[at[w]] = "submitted" /\ status[at[w]] # "submitted" =>
              /\ platformRef'[at[w]] = ref[w]
              /\ pipeline' = [pipeline EXCEPT ![ProjectOf[at[w]]] = at[w]]
              /\ pc'[w] = "return"
         /\ UNCHANGED pipeline \/ /\ status'[at[w]] = "submitted"
                                  /\ pipeline' = [pipeline EXCEPT ![ProjectOf[at[w]]] = at[w]]
  <1>1. at[w] \in Bids /\ pc[w] = "record"
    BY DEF RecordPlaced, JobsOwned
  <1>2. CASE UNCHANGED <<status, platformRef, pipeline>>
    BY <1>1, <1>2
  <1>3. CASE /\ status' = [status EXCEPT ![at[w]] = "submitted"]
             /\ platformRef' = [platformRef EXCEPT ![at[w]] = ref[w]]
             /\ pipeline' = [pipeline EXCEPT ![ProjectOf[at[w]]] = at[w]]
             /\ Finish(w, "submitted")
    <2>1. pc'[w] = "return"
      BY <1>3 DEF Finish, Goto, TypeOK, WorkersOK
    <2> QED BY <1>1, <1>3, <2>1 DEF TypeOK, RowsOK
  <1> QED BY <1>2, <1>3 DEF RecordPlaced

\* Only its own attempt submits a proposal, and then it returns.
LEMMA SubmittedNext ==
  ASSUME TypeOK, JobsOwned, GiveBackIsGoingSomewhere, SubmittedIsLeftAlone, [Next]_vars
  PROVE  SubmittedIsLeftAlone'
  <1> USE DEF SubmittedIsLeftAlone
  <1>1. CASE \E b \in Bids : People(b)
    <2>1. PICK b \in Bids : People(b)
      BY <1>1
    <2> QED BY <2>1, PeopleFrame DEF JobsOwned
  <1>2. CASE Switches \/ UNCHANGED vars
    BY <1>2, SwitchesFrame DEF vars, workerVars, rowVars
  <1>3. CASE \E w \in Workers, b \in Bids : Take(w, b)
    BY <1>3 DEF Take, TypeOK, WorkersOK, rowVars
  <1>4. ASSUME NEW w \in Workers, GoesOn(w)
        PROVE  SubmittedIsLeftAlone'
    <2>1. \A v \in Workers : v # w => pc'[v] = pc[v]
      BY <1>4, GoesOnFrame DEF TypeOK, WorkersOK
    <2>2. at' = at /\ pc[w] \notin {"idle", "return", "throw"}
      BY <1>4, GoesOnFrame
    <2>3. CASE RecordPlaced(w)
      <3>1. ASSUME NEW v \in Workers, pc'[v] \notin {"idle", "load", "return"}
            PROVE  status'[at'[v]] # "submitted"
        <4>1. CASE v = w
          BY <2>2, <2>3, <3>1, <4>1, RecordPlacedFrame
        <4>2. CASE v # w
          <5>1. at[v] \in Bids /\ at[v] # at[w] /\ status[at[v]] # "submitted"
            BY <2>1, <2>2, <3>1, <4>2 DEF JobsOwned
          <5> QED BY <2>2, <2>3, <5>1, RecordPlacedFrame
        <4> QED BY <4>1, <4>2
      <3> QED BY <3>1
    <2>4. CASE /\ UNCHANGED <<platformRef, pipeline>>
               /\ \A a \in Bids : status'[a] = "submitted" <=> status[a] = "submitted"
      <3>1. pc'[w] \notin {"idle", "load", "return"} => status[at[w]] # "submitted"
        <4>1. CASE LoadProposal(w)
          BY <4>1 DEF LoadProposal, Finish, Goto, TypeOK, WorkersOK
        <4>2. CASE ~LoadProposal(w)
          <5>1. pc[w] \notin {"idle", "load", "return"}
            BY <1>4, <4>2 DEF GoesOn, ReadSettings, TakeScannerSlot, TakeAllowance, MeterPlan,
                 FindBid, CreateBid, GiveBack, RecordCall, RecordPlaced, MarkFailed
          <5> QED BY <5>1
        <4> QED BY <4>1, <4>2
      <3>2. \A v \in Workers : pc[v] # "idle" => at[v] \in Bids
        BY DEF JobsOwned
      <3> QED BY <2>1, <2>2, <2>4, <3>1, <3>2
    <2> QED BY <1>4, <2>3, <2>4, RecordsFrame
  <1>5. CASE \E w \in Workers : Ends(w)
    BY <1>5, EndsFrame DEF Forget, TypeOK, WorkersOK, rowVars
  <1> QED BY <1>1, <1>2, <1>3, <1>4, <1>5, NextKinds

\* A submitted proposal keeps its state, its words and its reference in any step.
LEMMA SubmittedStays ==
  ASSUME TypeOK, JobsOwned, GiveBackIsGoingSomewhere, SubmittedIsLeftAlone, [Next]_vars,
         NEW b \in Bids, status[b] = "submitted"
  PROVE  status'[b] = "submitted" /\ words'[b] = words[b] /\ platformRef'[b] = platformRef[b]
  <1>1. CASE \E a \in Bids : People(a)
    BY <1>1, PeopleFrame
  <1>2. CASE Switches \/ UNCHANGED vars
    BY <1>2, SwitchesFrame DEF vars, rowVars
  <1>3. CASE \E w \in Workers, a \in Bids : Take(w, a)
    BY <1>3 DEF Take, rowVars
  <1>4. ASSUME NEW w \in Workers, GoesOn(w)
        PROVE  status'[b] = "submitted" /\ words'[b] = words[b] /\ platformRef'[b] = platformRef[b]
    <2>1. UNCHANGED words
      BY <1>4, GoesOnFrame
    <2>2. CASE RecordPlaced(w)
      <3>1. pc[w] = "record" /\ at[w] # b
        BY <2>2, RecordPlacedFrame DEF SubmittedIsLeftAlone
      <3> QED BY <2>1, <2>2, <3>1, RecordPlacedFrame
    <2> QED BY <1>4, <2>1, <2>2, RecordsFrame
  <1>5. CASE \E w \in Workers : Ends(w)
    BY <1>5, EndsFrame DEF rowVars
  <1> QED BY <1>1, <1>2, <1>3, <1>4, <1>5, NextKinds

\* recordPlaced alone moves the pipeline item, together with the state.
LEMMA PipelineNext ==
  ASSUME TypeOK, JobsOwned, GiveBackIsGoingSomewhere, SubmittedIsLeftAlone,
         PipelineNamesSubmittedBid, [Next]_vars
  PROVE  PipelineNamesSubmittedBid'
  <1> USE DEF PipelineNamesSubmittedBid
  <1>1. CASE UNCHANGED pipeline
    <2>1. \A p \in Projects : pipeline[p] # None => pipeline[p] \in Bids
      BY DEF TypeOK, RowsOK
    <2> QED BY <1>1, <2>1, SubmittedStays
  <1>2. ASSUME NEW w \in Workers, RecordPlaced(w), ~UNCHANGED pipeline
        PROVE  PipelineNamesSubmittedBid'
    <2>1. /\ at[w] \in Bids /\ status'[at[w]] = "submitted"
          /\ pipeline' = [pipeline EXCEPT ![ProjectOf[at[w]]] = at[w]]
      BY <1>2, RecordPlacedFrame
    <2>2. ASSUME NEW p \in Projects, pipeline'[p] # None
          PROVE  status'[pipeline'[p]] = "submitted" /\ ProjectOf[pipeline'[p]] = p
      <3>1. CASE p = ProjectOf[at[w]]
        BY <2>1, <3>1 DEF TypeOK, RowsOK
      <3>2. CASE p # ProjectOf[at[w]]
        <4>1. pipeline'[p] = pipeline[p] /\ pipeline[p] \in Bids
          BY <2>1, <2>2, <3>2 DEF TypeOK, RowsOK
        <4> QED BY <2>2, <4>1, SubmittedStays
      <3> QED BY <3>1, <3>2
    <2> QED BY <2>2
  <1>3. CASE ~UNCHANGED pipeline
    <2>1. ~(\E w \in Workers, b \in Bids : Take(w, b))
      BY <1>3 DEF Take, factVars
    <2>2. \E w \in Workers : GoesOn(w)
      BY <1>3, <2>1, NextKinds, PeopleFrame, SwitchesFrame, EndsFrame DEF factVars, vars
    <2> QED BY <1>2, <1>3, <2>2, RecordsFrame
  <1> QED BY <1>1, <1>3

\* The bid an accepted call adds is on the project of the attempt that added it.
LEMMA AcceptedIsPosted ==
  ASSUME TypeOK, NEW w \in Workers, Accept(w)
  PROVE  Len(posted) + 1 \in DOMAIN posted' /\ posted'[Len(posted) + 1].project = ProjectOf[at[w]]
  <1> DEFINE e == [project |-> ProjectOf[at[w]], bid |-> at[w], words |-> seen[w].words]
  <1>1. posted' = Append(posted, e)
    BY DEF Accept
  <1>2. Len(posted) + 1 \in DOMAIN posted' /\ posted'[Len(posted) + 1] = e
    BY <1>1 DEF TypeOK, WorldOK
  <1> HIDE DEF e
  <1>3. e.project = ProjectOf[at[w]]
    BY DEF e
  <1> QED BY <1>2, <1>3

\* A reference kept in an attempt or an event stays a bid on the proposal's project.
LEMMA ReferencesNext ==
  ASSUME TypeOK, JobsOwned, GiveBackIsGoingSomewhere, ReferencesAreReal, [Next]_vars
  PROVE  ReferencesAreReal'
  <1> DEFINE Carries(v) == pc[v] \in Recording \/ (pc[v] = "giveBack" /\ outcome[v] = "reconciled")
  <1>1. CASE \E b \in Bids : People(b)
    BY <1>1, PeopleFrame DEF ReferencesAreReal, PostedOn
  <1>2. CASE Switches \/ UNCHANGED vars
    BY <1>2, SwitchesFrame DEF vars, workerVars, factVars, ReferencesAreReal, PostedOn
  <1>3. CASE \E w \in Workers, b \in Bids : Take(w, b)
    BY <1>3 DEF Take, TypeOK, WorkersOK, factVars, ReferencesAreReal, PostedOn, Recording
  <1>4. ASSUME NEW w \in Workers, GoesOn(w)
        PROVE  ReferencesAreReal'
    <2>1. at' = at /\ \A v \in Workers : v # w => pc'[v] = pc[v]
      BY <1>4, GoesOnFrame DEF TypeOK, WorkersOK
    <2>2. Carries(w)' => ref'[w] \in PostedOn(ProjectOf[at[w]])'
      <3> USE DEF TypeOK, WorkersOK, Goto, Finish, Recording
      <3>1. CASE LoadProposal(w)
        <4>1. at[w] \in Bids
          BY <3>1 DEF LoadProposal, JobsOwned
        <4>2. CASE pc'[w] = "record"
          <5>1. okCall[at[w]] # 0 /\ ref'[w] = okCall[at[w]]
            BY <3>1, <4>2 DEF LoadProposal
          <5> QED BY <2>1, <4>1, <5>1, PostedKept DEF ReferencesAreReal, PostedOn
        <4>3. CASE pc'[w] # "record"
          BY <3>1, <4>3 DEF LoadProposal
        <4> QED BY <4>2, <4>3
      <3>2. CASE ReadSettings(w)
        BY <3>2 DEF ReadSettings
      <3>3. CASE TakeScannerSlot(w) \/ TakeAllowance(w) \/ MeterPlan(w)
        BY <3>3 DEF TakeScannerSlot, TakeAllowance, MeterPlan, Reserve, Blocked, GiveUp,
             AfterGiveBack
      <3>4. CASE FindBid(w)
        <4>1. CASE \E unrecoverable \in BOOLEAN : PlacingFailed(w, unrecoverable)
          BY <3>4, <4>1 DEF FindBid, PlacingFailed, GiveUp, AfterGiveBack
        <4>2. CASE \E i \in PostedOn(ProjectOf[at[w]]) : ref' = [ref EXCEPT ![w] = i]
          <5>1. ref'[w] \in PostedOn(ProjectOf[at[w]])
            BY <4>2
          <5> QED BY <2>1, <5>1, PostedKept DEF PostedOn
        <4>3. CASE Goto(w, "create")
          BY <4>3
        <4> QED BY <3>4, <4>1, <4>2, <4>3 DEF FindBid
      <3>5. CASE CreateBid(w)
        <4>1. CASE Accept(w) /\ ref' = [ref EXCEPT ![w] = Len(posted) + 1]
          BY <2>1, <4>1, AcceptedIsPosted DEF PostedOn
        <4>2. CASE PlacingFailed(w, FALSE)
          BY <3>5, <4>2 DEF CreateBid, PlacingFailed, GiveUp, AfterGiveBack
        <4> QED BY <3>5, <4>1, <4>2 DEF CreateBid
      <3>6. CASE GiveBack(w)
        <4>1. Carries(w)' => outcome[w] = "reconciled" /\ ref' = ref
          BY <3>6 DEF GiveBack, GiveBackIsGoingSomewhere, AfterGiveBack
        <4>2. pc[w] = "giveBack"
          BY <3>6 DEF GiveBack
        <4> QED BY <2>1, <4>1, <4>2, PostedKept DEF ReferencesAreReal, PostedOn
      <3>7. CASE RecordCall(w)
        BY <2>1, <3>7, PostedKept DEF RecordCall, ReferencesAreReal, PostedOn
      <3>8. CASE RecordPlaced(w) \/ MarkFailed(w)
        BY <3>8 DEF RecordPlaced, MarkFailed
      <3> QED BY <1>4, <3>1, <3>2, <3>3, <3>4, <3>5, <3>6, <3>7, <3>8 DEF GoesOn
    <2>3. \A v \in Workers : Carries(v)' => ref'[v] \in PostedOn(ProjectOf[at[v]])'
      <3>1. ASSUME NEW v \in Workers, v # w, Carries(v)'
            PROVE  ref'[v] \in PostedOn(ProjectOf[at[v]])'
        <4>1. ref'[v] = ref[v] /\ Carries(v)
          BY <1>4, <2>1, <3>1, OthersFrame
        <4> QED BY <2>1, <4>1, PostedKept DEF ReferencesAreReal, PostedOn
      <3> QED BY <2>1, <2>2, <3>1
    <2>4. \A b \in Bids : okCall'[b] # 0 => okCall'[b] \in PostedOn(ProjectOf[b])'
      <3>1. CASE RecordCall(w)
        <4>1. at[w] \in Bids /\ ref[w] \in PostedOn(ProjectOf[at[w]])
          BY <3>1 DEF RecordCall, JobsOwned, ReferencesAreReal, Recording
        <4>2. \A b \in Bids : okCall'[b] = IF b = at[w] THEN ref[w] ELSE okCall[b]
          BY <3>1, <4>1 DEF RecordCall, TypeOK, RowsOK
        <4> QED BY <2>1, <4>1, <4>2, PostedKept DEF ReferencesAreReal, PostedOn
      <3>2. CASE ~RecordCall(w)
        <4>1. UNCHANGED okCall
          BY <1>4, <3>2 DEF GoesOn, LoadProposal, ReadSettings, TakeScannerSlot, TakeAllowance,
             MeterPlan, FindBid, CreateBid, GiveBack, RecordPlaced, MarkFailed, factVars
        <4> QED BY <2>1, <4>1, PostedKept DEF ReferencesAreReal, PostedOn
      <3> QED BY <3>1, <3>2
    <2> QED BY <2>3, <2>4 DEF ReferencesAreReal
  <1>5. CASE \E w \in Workers : Ends(w)
    BY <1>5, EndsFrame DEF Forget, TypeOK, WorkersOK, factVars, ReferencesAreReal, PostedOn,
       Recording
  <1> QED BY <1>1, <1>2, <1>3, <1>4, <1>5, NextKinds

\* A proposal becomes submitted under a reference that is real.
LEMMA RecordedNext ==
  ASSUME TypeOK, JobsOwned, GiveBackIsGoingSomewhere, ReferencesAreReal, SubmittedIsLeftAlone,
         RecordedBidIsReal, [Next]_vars
  PROVE  RecordedBidIsReal'
  <1>1. ASSUME NEW b \in Bids, status'[b] = "submitted", status[b] # "submitted"
        PROVE  platformRef'[b] \in PostedOn(ProjectOf[b])'
    <2>1. PICK w \in Workers : GoesOn(w)
      <3>1. ~(\E w \in Workers, a \in Bids : Take(w, a))
        BY <1>1 DEF Take, rowVars
      <3> QED BY <1>1, <3>1, NextKinds, PeopleFrame, SwitchesFrame, EndsFrame DEF rowVars, vars
    <2>2. RecordPlaced(w)
      BY <1>1, <2>1, RecordsFrame
    <2>3. b = at[w] /\ platformRef'[b] = ref[w] /\ pc[w] = "record"
      BY <1>1, <2>2, RecordPlacedFrame
    <2>4. ref[w] \in PostedOn(ProjectOf[b])
      BY <2>3 DEF ReferencesAreReal, Recording
    <2> QED BY <2>3, <2>4, PostedKept DEF PostedOn
  <1>2. ASSUME NEW b \in Bids, status'[b] = "submitted", status[b] = "submitted"
        PROVE  platformRef'[b] \in PostedOn(ProjectOf[b])'
    <2>1. platformRef'[b] = platformRef[b] /\ platformRef[b] \in PostedOn(ProjectOf[b])
      BY <1>2, SubmittedStays DEF RecordedBidIsReal
    <2> QED BY <2>1, PostedKept DEF PostedOn
  <1> QED BY <1>1, <1>2 DEF RecordedBidIsReal

-----------------------------------------------------------------------------
\* What an attempt holds, and what the counters say.

\* The ways an attempt that goes on can move the counters, what it holds and the
\* marketplace: a reservation, an accepted bid whose answer came or was lost, a
\* release, or none of them.
LEMMA CounterKinds ==
  ASSUME TypeOK, NEW w \in Workers, GoesOn(w)
  PROVE  \/ /\ \E c \in Counters, label \in Labels : Reserve(w, c, label)
            /\ UNCHANGED posted
         \/ /\ CreateBid(w) /\ Accept(w) /\ UNCHANGED used
            /\ held' = [held EXCEPT ![w] = {}] \/ (LostAnswers /\ UNCHANGED held)
         \/ /\ pc[w] = "giveBack" /\ UNCHANGED posted
            /\ \E c \in Counters :
                 /\ c \in held[w]
                 /\ used' = [used EXCEPT ![c] = IF @ > 0 THEN @ - 1 ELSE 0]
                 /\ held' = [held EXCEPT ![w] = @ \ {c}]
         \/ UNCHANGED <<used, held, posted>>
  <1>1. CASE TakeScannerSlot(w) \/ TakeAllowance(w) \/ MeterPlan(w)
    BY <1>1 DEF TakeScannerSlot, TakeAllowance, MeterPlan, Blocked, Counters, Labels
  <1>2. CASE CreateBid(w)
    BY <1>2 DEF CreateBid
  <1>3. CASE GiveBack(w)
    <2>1. PICK n \in DOMAIN CounterOrder :
            /\ CounterOrder[n] \in held[w]
            /\ used' = [used EXCEPT ![CounterOrder[n]] = IF @ > 0 THEN @ - 1 ELSE 0]
            /\ held' = [held EXCEPT ![w] = @ \ {CounterOrder[n]}]
      BY <1>3 DEF GiveBack
    <2>2. CounterOrder[n] \in Counters
      BY DEF CounterOrder, Counters
    <2> QED BY <1>3, <2>1, <2>2 DEF GiveBack
  <1> QED BY <1>1, <1>2, <1>3 DEF GoesOn, LoadProposal, ReadSettings, FindBid, RecordCall,
           RecordPlaced, MarkFailed

\* The label a step goes on to tells what the attempt holds there.
LEMMA HeldFurther ==
  ASSUME TypeOK, GiveBackIsGoingSomewhere, CountersKept, NEW w \in Workers, GoesOn(w)
  PROVE  /\ pc'[w] = "plan" => "bids" \in held'[w]
         /\ pc'[w] \in {"find", "create"} => {"bids", "plan"} \subseteq held'[w]
  <1> USE DEF TypeOK, WorkersOK, Goto, Finish
  <1>1. CASE LoadProposal(w) \/ ReadSettings(w)
    BY <1>1 DEF LoadProposal, ReadSettings
  <1>2. CASE TakeScannerSlot(w)
    BY <1>2 DEF TakeScannerSlot, Reserve, Blocked, GiveUp, AfterGiveBack
  <1>3. CASE TakeAllowance(w)
    BY <1>3 DEF TakeAllowance, Reserve, Blocked, GiveUp, AfterGiveBack
  <1>4. CASE MeterPlan(w)
    BY <1>4 DEF MeterPlan, Reserve, Blocked, GiveUp, AfterGiveBack, CountersKept
  <1>5. CASE FindBid(w)
    <2>1. UNCHANGED held /\ {"bids", "plan"} \subseteq held[w]
      BY <1>5 DEF FindBid, CountersKept
    <2>2. pc'[w] # "plan"
      BY <1>5 DEF FindBid, PlacingFailed, GiveUp, AfterGiveBack
    <2> QED BY <2>1, <2>2
  <1>6. CASE CreateBid(w)
    BY <1>6 DEF CreateBid, PlacingFailed, GiveUp, AfterGiveBack
  <1>7. CASE GiveBack(w)
    BY <1>7 DEF GiveBack, GiveBackIsGoingSomewhere, AfterGiveBack
  <1>8. CASE RecordCall(w) \/ RecordPlaced(w) \/ MarkFailed(w)
    BY <1>8 DEF RecordCall, RecordPlaced, MarkFailed
  <1> QED BY <1>1, <1>2, <1>3, <1>4, <1>5, <1>6, <1>7, <1>8 DEF GoesOn

\* No step passes a limit, and an attempt on its way to the marketplace holds its cost.
LEMMA CountersNext ==
  ASSUME TypeOK, GiveBackIsGoingSomewhere, CountersKept, [Next]_vars
  PROVE  CountersKept'
  <1> USE ConstantsAssumption
  <1>1. CASE \E b \in Bids : People(b)
    BY <1>1, PeopleFrame DEF CountersKept
  <1>2. CASE Switches \/ UNCHANGED vars
    BY <1>2, SwitchesFrame DEF vars, workerVars, CountersKept
  <1>3. CASE \E w \in Workers, b \in Bids : Take(w, b)
    BY <1>3 DEF Take, TypeOK, WorkersOK, CountersKept
  <1>4. ASSUME NEW w \in Workers, GoesOn(w)
        PROVE  CountersKept'
    <2>1. \A v \in Workers : v # w => pc'[v] = pc[v] /\ held'[v] = held[v]
      BY <1>4, GoesOnFrame, OthersFrame DEF TypeOK, WorkersOK
    <2>2. \A c \in Counters : used'[c] <= Limit[c]
      <3> USE DEF TypeOK, QueueOK, CountersKept
      <3>1. CASE \E c \in Counters, label \in Labels : Reserve(w, c, label)
        BY <3>1 DEF Reserve
      <3>2. CASE \E c \in Counters : used' = [used EXCEPT ![c] = IF @ > 0 THEN @ - 1 ELSE 0]
        BY <3>2
      <3>3. CASE UNCHANGED used
        BY <3>3
      <3> QED BY <1>4, <3>1, <3>2, <3>3, CounterKinds
    <2> QED BY <1>4, <2>1, <2>2, HeldFurther DEF CountersKept
  <1>5. CASE \E w \in Workers : Ends(w)
    BY <1>5, EndsFrame DEF Forget, TypeOK, WorkersOK, CountersKept
  <1> QED BY <1>1, <1>2, <1>3, <1>4, <1>5, NextKinds

-----------------------------------------------------------------------------
\* The theorems.  IInv is inductive, and each property is one of its parts or
\* follows from them.

\* The initial rows, an empty queue and idle workers satisfy the invariant.
LEMMA InitIInv == Init => IInv
  <1> SUFFICES ASSUME Init PROVE IInv
    OBVIOUS
  <1>1. TypeOK
    BY TypeInit
  <1>2. JobsOwned /\ GiveBackIsGoingSomewhere /\ SubmittedIsLeftAlone
    BY DEF Init, JobsOwned, GiveBackIsGoingSomewhere, SubmittedIsLeftAlone
  <1>3. ConsentIsCarried /\ SentWordsWereApproved
    BY DEF Init, ConsentIsCarried, SentWordsWereApproved, Sending
  <1>4. ReferencesAreReal /\ RecordedBidIsReal /\ PipelineNamesSubmittedBid
    BY DEF Init, ReferencesAreReal, RecordedBidIsReal, PipelineNamesSubmittedBid, Recording
  <1>5. CountersKept
    BY ConstantsAssumption DEF Init, CountersKept
  <1> QED BY <1>1, <1>2, <1>3, <1>4, <1>5 DEF IInv

\* The strengthening is inductive.
LEMMA NextIInv == IInv /\ [Next]_vars => IInv'
  <1> SUFFICES ASSUME IInv, [Next]_vars PROVE IInv'
    OBVIOUS
  <1> USE DEF IInv
  <1>1. TypeOK' /\ JobsOwned' /\ GiveBackIsGoingSomewhere'
    BY TypeNext, OwnedNext, GivesBackNext
  <1>2. ConsentIsCarried' /\ SentWordsWereApproved'
    BY ConsentNext, SentNext
  <1>3. ReferencesAreReal' /\ RecordedBidIsReal'
    BY ReferencesNext, RecordedNext
  <1>4. SubmittedIsLeftAlone' /\ PipelineNamesSubmittedBid'
    BY SubmittedNext, PipelineNext
  <1>5. CountersKept'
    BY CountersNext
  <1> QED BY <1>1, <1>2, <1>3, <1>4, <1>5

\* The strengthening holds in every reachable state.
THEOREM Invariance == Spec => []IInv
  BY InitIInv, NextIInv, PTL DEF Spec

\* Every variable of the rows, the queue and the workers keeps its type.
THEOREM TypeCorrect == Spec => []TypeOK
  <1>1. IInv => TypeOK
    BY DEF IInv
  <1> QED BY <1>1, Invariance, PTL

\* A bid on the marketplace carries words somebody approved for that proposal,
\* for any number of workers, edits, rejections, retries, crashes and lost answers.
THEOREM ApprovalRequired == Spec => []SentWordsWereApproved
  <1>1. IInv => SentWordsWereApproved
    BY DEF IInv
  <1> QED BY <1>1, Invariance, PTL

\* A submitted proposal's platform_ref is a bid the marketplace has on its project.
THEOREM ReferencesHold == Spec => []RecordedBidIsReal
  <1>1. IInv => RecordedBidIsReal
    BY DEF IInv
  <1> QED BY <1>1, Invariance, PTL

\* A pipeline item names a submitted proposal of its own project.
THEOREM PipelineHolds == Spec => []PipelineNamesSubmittedBid
  <1>1. IInv => PipelineNamesSubmittedBid
    BY DEF IInv
  <1> QED BY <1>1, Invariance, PTL

\* No step of a person or of a worker with an older copy of the row changes a
\* submitted proposal.
THEOREM Finality == Spec => SubmittedIsFinal
  <1> DEFINE Kept == \A b \in Bids : status[b] = "submitted" =>
                       /\ status'[b] = "submitted"
                       /\ words'[b] = words[b]
                       /\ platformRef'[b] = platformRef[b]
  <1>1. IInv /\ [Next]_vars => [Kept]_vars
    BY SubmittedStays DEF IInv
  <1> QED BY <1>1, Invariance, PTL DEF Spec, SubmittedIsFinal

-----------------------------------------------------------------------------
\* One bid per project, where no two proposals of a project are sent at once.

\* With one proposal per project, or one worker, nobody posts between findBid and createBid.
LEMMA FirstNext ==
  ASSUME OneAtATime, TypeOK, JobsOwned, GiveBackIsGoingSomewhere, CreatesFirst, [Next]_vars
  PROVE  CreatesFirst'
  <1>1. CASE \E b \in Bids : People(b)
    BY <1>1, PeopleFrame DEF CreatesFirst, PostedOn
  <1>2. CASE Switches \/ UNCHANGED vars
    BY <1>2, SwitchesFrame DEF vars, workerVars, CreatesFirst, PostedOn
  <1>3. CASE \E w \in Workers, b \in Bids : Take(w, b)
    BY <1>3 DEF Take, TypeOK, WorkersOK, CreatesFirst, PostedOn
  <1>4. ASSUME NEW w \in Workers, GoesOn(w)
        PROVE  CreatesFirst'
    <2>1. at' = at /\ \A v \in Workers : v # w => pc'[v] = pc[v]
      BY <1>4, GoesOnFrame DEF TypeOK, WorkersOK
    <2>2. CASE CreateBid(w)
      <3>1. pc'[w] # "create"
        BY <2>2 DEF CreateBid, PlacingFailed, GiveUp, Goto, AfterGiveBack, TypeOK, WorkersOK
      <3>2. ASSUME NEW v \in Workers, v # w, pc[v] = "create"
            PROVE  PostedOn(ProjectOf[at[v]])' = {}
        <4>1. at[v] # at[w] /\ at[v] \in Bids /\ at[w] \in Bids
          BY <2>2, <3>2 DEF JobsOwned, CreateBid
        <4>2. ProjectOf[at[v]] # ProjectOf[at[w]]
          BY <3>2, <4>1 DEF OneAtATime
        <4>3. PostedOn(ProjectOf[at[v]]) = {}
          BY <3>2 DEF CreatesFirst
        <4>4. CASE UNCHANGED posted
          BY <2>1, <4>3, <4>4 DEF PostedOn
        <4>5. CASE Accept(w)
          <5>1. \A i \in DOMAIN posted' : i \in DOMAIN posted \/ i = Len(posted) + 1
            BY <4>5, AppendedDomain DEF Accept, TypeOK, WorldOK
          <5>2. posted'[Len(posted) + 1].project = ProjectOf[at[w]]
            BY <4>5, AcceptedIsPosted
          <5> QED BY <2>1, <4>2, <4>3, <5>1, <5>2, PostedKept DEF PostedOn
        <4> QED BY <2>2, <4>4, <4>5 DEF CreateBid
      <3> QED BY <2>1, <3>1, <3>2 DEF CreatesFirst
    <2>3. CASE ~CreateBid(w)
      <3>1. UNCHANGED posted
        BY <1>4, <2>3 DEF GoesOn, LoadProposal, ReadSettings, TakeScannerSlot, TakeAllowance,
             MeterPlan, FindBid, GiveBack, RecordCall, RecordPlaced, MarkFailed
      <3>2. pc'[w] = "create" => PostedOn(ProjectOf[at[w]]) = {}
        <4>1. CASE FindBid(w)
          BY <4>1 DEF FindBid, PlacingFailed, GiveUp, Goto, AfterGiveBack, TypeOK, WorkersOK
        <4>2. CASE ~FindBid(w)
          <5> USE DEF TypeOK, WorkersOK, Goto, Finish
          <5>1. CASE GiveBack(w)
            BY <5>1 DEF GiveBack, GiveBackIsGoingSomewhere, AfterGiveBack
          <5>2. CASE TakeScannerSlot(w) \/ TakeAllowance(w) \/ MeterPlan(w)
            BY <5>2 DEF TakeScannerSlot, TakeAllowance, MeterPlan, Reserve, Blocked, GiveUp,
                 AfterGiveBack
          <5> QED BY <1>4, <2>3, <4>2, <5>1, <5>2 DEF GoesOn, LoadProposal, ReadSettings,
                   RecordCall, RecordPlaced, MarkFailed
        <4> QED BY <4>1, <4>2
      <3> QED BY <2>1, <3>1, <3>2 DEF CreatesFirst, PostedOn
    <2> QED BY <2>2, <2>3
  <1>5. CASE \E w \in Workers : Ends(w)
    BY <1>5, EndsFrame DEF Forget, TypeOK, WorkersOK, CreatesFirst, PostedOn
  <1> QED BY <1>1, <1>2, <1>3, <1>4, <1>5, NextKinds

\* createBid therefore adds the first bid of its project.
LEMMA OneBidNext ==
  ASSUME TypeOK, CreatesFirst, OneBidPerProject, [Next]_vars
  PROVE  OneBidPerProject'
  <1>1. CASE UNCHANGED posted
    BY <1>1 DEF OneBidPerProject
  <1>2. ASSUME NEW w \in Workers, CreateBid(w), Accept(w)
        PROVE  OneBidPerProject'
    <2>1. PostedOn(ProjectOf[at[w]]) = {}
      BY <1>2 DEF CreateBid, CreatesFirst
    <2>2. \A i \in DOMAIN posted' : i \in DOMAIN posted \/ i = Len(posted) + 1
      BY <1>2, AppendedDomain DEF Accept, TypeOK, WorldOK
    <2>3. posted'[Len(posted) + 1].project = ProjectOf[at[w]]
      BY <1>2, AcceptedIsPosted
    <2>4. \A i \in DOMAIN posted : posted'[i].project = posted[i].project
                                  /\ posted[i].project # ProjectOf[at[w]]
      BY <2>1, PostedKept DEF PostedOn
    <2> QED BY <2>2, <2>3, <2>4 DEF OneBidPerProject
  <1> QED BY <1>1, <1>2, PostedGrows

\* With one worker slot, or with one proposal per project, the account never
\* has two bids on a project, whatever is retried, lost or crashes: findBid is
\* asked before every createBid.
THEOREM NeverTwoBids == ASSUME OneAtATime PROVE Spec => []OneBidPerProject
  <1>1. Init => CreatesFirst /\ OneBidPerProject
    BY DEF Init, CreatesFirst, OneBidPerProject
  <1>2. IInv /\ CreatesFirst /\ OneBidPerProject /\ [Next]_vars
          => CreatesFirst' /\ OneBidPerProject'
    BY FirstNext, OneBidNext DEF IInv
  <1> QED BY <1>1, <1>2, Invariance, PTL DEF Spec

-----------------------------------------------------------------------------
\* The counters against the bids, where no accepted bid's answer is lost.  A lost
\* answer gives back what a placed bid cost (the run bids_lost_answer).

Holders(c) == {w \in Workers : c \in held[w]}

\* How many attempts hold a counter changes by at most the one that steps.
LEMMA HoldersChange ==
  ASSUME NEW c, NEW w \in Workers, \A v \in Workers : v # w => held'[v] = held[v]
  PROVE  /\ Cardinality(Holders(c)) \in Nat
         /\ Cardinality(Holders(c))' \in Nat
         /\ (c \in held'[w] <=> c \in held[w])
              => Cardinality(Holders(c))' = Cardinality(Holders(c))
         /\ c \in held'[w] /\ c \notin held[w]
              => Cardinality(Holders(c))' = Cardinality(Holders(c)) + 1
         /\ c \notin held'[w] /\ c \in held[w]
              => Cardinality(Holders(c))' = Cardinality(Holders(c)) - 1
  <1> DEFINE H == Holders(c)
             K == Holders(c)'
  <1>1. IsFiniteSet(H) /\ IsFiniteSet(K)
    BY ConstantsAssumption, FS_Subset DEF Holders
  <1>2. Cardinality(H) \in Nat /\ Cardinality(K) \in Nat
    BY <1>1, FS_CardinalityType
  <1>3. (c \in held'[w] <=> c \in held[w]) => K = H
    BY DEF Holders
  <1>4. c \in held'[w] /\ c \notin held[w] => K = H \cup {w} /\ w \notin H
    BY DEF Holders
  <1>5. c \notin held'[w] /\ c \in held[w] => K = H \ {w} /\ w \in H
    BY DEF Holders
  <1>6. w \notin H => Cardinality(H \cup {w}) = Cardinality(H) + 1
    BY <1>1, FS_AddElement
  <1>7. w \in H => Cardinality(H \ {w}) = Cardinality(H) - 1
    BY <1>1, FS_RemoveElement
  <1> HIDE DEF H, K
  <1>8. /\ (c \in held'[w] <=> c \in held[w]) => Cardinality(K) = Cardinality(H)
        /\ c \in held'[w] /\ c \notin held[w] => Cardinality(K) = Cardinality(H) + 1
        /\ c \notin held'[w] /\ c \in held[w] => Cardinality(K) = Cardinality(H) - 1
    BY <1>3, <1>4, <1>5, <1>6, <1>7
  <1> QED BY <1>2, <1>8 DEF H, K

\* A counter an attempt holds counts at least that attempt.
LEMMA HoldersCount ==
  ASSUME NEW c, NEW w \in Workers, c \in held[w]
  PROVE  Cardinality(Holders(c)) \in Nat \ {0}
  <1>1. IsFiniteSet(Holders(c)) /\ w \in Holders(c)
    BY ConstantsAssumption, FS_Subset DEF Holders
  <1> QED BY <1>1, FS_CardinalityType, FS_EmptySet

\* A reservation, an accepted bid and a release move both sides together.
LEMMA CoversNext ==
  ASSUME ~LostAnswers, TypeOK, JobsOwned, GiveBackIsGoingSomewhere, CountersKept,
         CountersCoverBids, [Next]_vars
  PROVE  CountersCoverBids'
  <1> USE DEF CountersCoverBids
  <1>1. CASE \E b \in Bids : People(b)
    BY <1>1, PeopleFrame
  <1>2. CASE Switches \/ UNCHANGED vars
    BY <1>2, SwitchesFrame DEF vars, workerVars
  <1>3. CASE \E w \in Workers, b \in Bids : Take(w, b)
    BY <1>3 DEF Take
  <1>4. ASSUME NEW w \in Workers, GoesOn(w), NEW c \in {"bids", "plan"}
        PROVE  used'[c] >= Len(posted') + Cardinality(Holders(c))'
    <2>1. \A v \in Workers : v # w => held'[v] = held[v]
      BY <1>4, OthersFrame
    <2>2. /\ c \in Counters /\ used[c] \in Nat /\ used'[c] \in Nat
          /\ Len(posted) \in Nat /\ used[c] >= Len(posted) + Cardinality(Holders(c))
          /\ w \in DOMAIN held
      <3>1. TypeOK'
        BY <1>4, TypeNext
      <3>2. c \in Counters
        BY DEF Counters
      <3>3. used[c] >= Len(posted) + Cardinality(Holders(c))
        BY DEF Holders
      <3>4. used[c] \in Nat /\ used'[c] \in Nat
        BY <3>1, <3>2 DEF TypeOK, QueueOK
      <3>5. Len(posted) \in Nat /\ w \in DOMAIN held
        BY DEF TypeOK, WorldOK, WorkersOK
      <3> QED BY <3>2, <3>3, <3>4, <3>5
    <2>3. ASSUME NEW d \in Counters, NEW label \in Labels, Reserve(w, d, label), UNCHANGED posted
          PROVE  used'[c] >= Len(posted') + Cardinality(Holders(c))'
      <3>1. /\ used' = [used EXCEPT ![d] = @ + 1]
            /\ held' = [held EXCEPT ![w] = @ \cup {d}]
        BY <2>3 DEF Reserve
      <3>2. CASE c = d
        <4>1. used'[c] = used[c] + 1 /\ c \in held'[w]
          BY <2>2, <3>1, <3>2 DEF TypeOK, QueueOK
        <4>2. /\ Cardinality(Holders(c)) \in Nat
              /\ \/ Cardinality(Holders(c))' = Cardinality(Holders(c))
                 \/ Cardinality(Holders(c))' = Cardinality(Holders(c)) + 1
          BY <2>1, <4>1, HoldersChange
        <4> QED BY <2>2, <2>3, <4>1, <4>2
      <3>3. CASE c # d
        <4>1. used'[c] = used[c] /\ (c \in held'[w] <=> c \in held[w])
          BY <2>2, <3>1, <3>3 DEF TypeOK, QueueOK
        <4>2. Cardinality(Holders(c))' = Cardinality(Holders(c))
          BY <2>1, <4>1, HoldersChange
        <4> QED BY <2>2, <2>3, <4>1, <4>2
      <3> QED BY <3>2, <3>3
    <2>4. CASE /\ CreateBid(w) /\ Accept(w) /\ UNCHANGED used
               /\ held' = [held EXCEPT ![w] = {}]
      <3>1. c \in held[w] /\ c \notin held'[w]
        BY <2>2, <2>4 DEF CreateBid, CountersKept
      <3>2. /\ Cardinality(Holders(c)) \in Nat
            /\ Cardinality(Holders(c))' = Cardinality(Holders(c)) - 1
        BY <2>1, <3>1, HoldersChange
      <3>3. Len(posted') = Len(posted) + 1
        BY <2>4 DEF Accept, TypeOK, WorldOK
      <3> QED BY <2>2, <2>4, <3>2, <3>3
    <2>5. ASSUME UNCHANGED posted, NEW d \in Counters, d \in held[w],
                 used' = [used EXCEPT ![d] = IF @ > 0 THEN @ - 1 ELSE 0],
                 held' = [held EXCEPT ![w] = @ \ {d}]
          PROVE  used'[c] >= Len(posted') + Cardinality(Holders(c))'
      <3>1. CASE c = d
        <4>1. c \in held[w] /\ c \notin held'[w]
          BY <2>2, <2>5, <3>1
        <4>2. /\ Cardinality(Holders(c)) \in Nat \ {0}
              /\ Cardinality(Holders(c))' = Cardinality(Holders(c)) - 1
          BY <2>1, <4>1, HoldersChange, HoldersCount
        <4>3. used'[c] = used[c] - 1
          BY <2>2, <2>5, <3>1, <4>2 DEF TypeOK, QueueOK
        <4> QED BY <2>2, <2>5, <4>2, <4>3
      <3>2. CASE c # d
        <4>1. used'[c] = used[c] /\ (c \in held'[w] <=> c \in held[w])
          BY <2>2, <2>5, <3>2 DEF TypeOK, QueueOK
        <4>2. Cardinality(Holders(c))' = Cardinality(Holders(c))
          BY <2>1, <4>1, HoldersChange
        <4> QED BY <2>2, <2>5, <4>1, <4>2
      <3> QED BY <3>1, <3>2
    <2>6. CASE UNCHANGED <<used, held, posted>>
      BY <2>2, <2>6 DEF Holders
    <2> QED BY <1>4, <2>3, <2>4, <2>5, <2>6, CounterKinds
  <1>5. ASSUME NEW w \in Workers, Ends(w), NEW c \in {"bids", "plan"}
        PROVE  used'[c] >= Len(posted') + Cardinality(Holders(c))'
    <2>1. /\ UNCHANGED <<used, posted>> /\ c \notin held'[w]
          /\ \A v \in Workers : v # w => held'[v] = held[v]
      BY <1>5, EndsFrame DEF Forget, TypeOK, WorkersOK
    <2>2. /\ Cardinality(Holders(c)) \in Nat
          /\ \/ Cardinality(Holders(c))' = Cardinality(Holders(c))
             \/ Cardinality(Holders(c))' = Cardinality(Holders(c)) - 1
      BY <2>1, HoldersChange
    <2>3. used[c] \in Nat /\ Len(posted) \in Nat /\ used[c] >= Len(posted) + Cardinality(Holders(c))
      <3>1. c \in Counters
        BY DEF Counters
      <3>2. used[c] >= Len(posted) + Cardinality(Holders(c))
        BY DEF Holders
      <3> QED BY <3>1, <3>2 DEF TypeOK, QueueOK, WorldOK
    <2> QED BY <2>1, <2>2, <2>3
  <1> QED
    <2>1. CASE \E w \in Workers : GoesOn(w)
      BY <1>4, <2>1 DEF Holders
    <2>2. CASE \E w \in Workers : Ends(w)
      BY <1>5, <2>2 DEF Holders
    <2> QED BY <1>1, <1>2, <1>3, <2>1, <2>2, NextKinds

\* Nothing is counted, nothing is held and nothing is on the marketplace at first.
LEMMA CoversInit == Init => CountersCoverBids
  <1> SUFFICES ASSUME Init, NEW c \in {"bids", "plan"}
               PROVE  used[c] >= Len(posted) + Cardinality({w \in Workers : c \in held[w]})
    BY DEF CountersCoverBids
  <1>1. {w \in Workers : c \in held[w]} = {}
    BY DEF Init
  <1>2. used[c] = 0 /\ Len(posted) = 0
    BY DEF Init, Counters
  <1>3. Cardinality({w \in Workers : c \in held[w]}) = 0
    BY <1>1, FS_EmptySet
  <1> QED BY <1>2, <1>3

\* Where no answer is lost the counters of the allowance and the plan are never
\* behind the bids placed and being placed, whatever is retried, fails or crashes.
THEOREM CountersCover == ASSUME ~LostAnswers PROVE Spec => []CountersCoverBids
  <1>1. IInv /\ CountersCoverBids /\ [Next]_vars => CountersCoverBids'
    BY CoversNext DEF IInv
  <1> QED BY <1>1, CoversInit, Invariance, PTL DEF Spec

\* So the month's bids stay within the allowance: reserveBid stops at its limit.
THEOREM WithinAllowance == ASSUME ~LostAnswers PROVE Spec => []PlacedWithinAllowance
  <1>1. IInv /\ CountersCoverBids => PlacedWithinAllowance
    <2> SUFFICES ASSUME IInv, CountersCoverBids PROVE PlacedWithinAllowance
      OBVIOUS
    <2> DEFINE H == {w \in Workers : "bids" \in held[w]}
    <2>1. IsFiniteSet(H)
      BY ConstantsAssumption, FS_Subset
    <2>2. Cardinality(H) \in Nat
      BY <2>1, FS_CardinalityType
    <2>3. used["bids"] >= Len(posted) + Cardinality(H)
      BY DEF CountersCoverBids
    <2>4. used["bids"] <= Limit["bids"] /\ used["bids"] \in Nat /\ Limit["bids"] \in Nat
      BY ConstantsAssumption DEF IInv, CountersKept, TypeOK, QueueOK, Counters
    <2>5. Len(posted) \in Nat
      BY DEF IInv, TypeOK, WorldOK
    <2> HIDE DEF H
    <2> QED BY <2>2, <2>3, <2>4, <2>5 DEF PlacedWithinAllowance
  <1> QED BY <1>1, CountersCover, Invariance, PTL

-----------------------------------------------------------------------------
(***************************************************************************)
(* BidSubmission implements BidPromise, where no two proposals of one      *)
(* project are sent at once and no answer is lost: approving maps to       *)
(* Approve, an accepted createBid to Post, recordPlaced to Record, and     *)
(* every other step of a person, a worker or a crash to a stutter.         *)
(***************************************************************************)
Recorded == [b \in Bids |-> IF status[b] = "submitted" THEN platformRef[b] ELSE 0]

\* A step that leaves the submitted rows as they are leaves what is recorded.
LEMMA RecordedKept ==
  ASSUME \A b \in Bids : status'[b] = "submitted" <=> status[b] = "submitted",
         UNCHANGED platformRef
  PROVE  Recorded' = Recorded
  BY DEF Recorded

\* What is recorded stays inside the promise's variables.
LEMMA PromiseStutter ==
  ASSUME UNCHANGED <<consent, posted>>, Recorded' = Recorded
  PROVE  UNCHANGED Contract!promiseVars
  BY DEF Contract!promiseVars, Recorded

\* A person: approving adds the words as they stand, everything else is a stutter.
LEMMA PeoplePromise ==
  ASSUME TypeOK, NEW b \in Bids, People(b)
  PROVE  [Contract!PromiseNext]_(Contract!promiseVars)
  <1>1. Recorded' = Recorded /\ UNCHANGED posted
    BY PeopleFrame, RecordedKept
  <1>2. CASE \E channel \in {"person", "auto"} : Approve(b, channel)
    <2>1. words[b] \in AllWords
      BY DEF TypeOK, RowsOK
    <2>2. Contract!Approve(b, words[b])
      BY <1>1, <1>2 DEF Approve, Contract!Approve, Recorded
    <2> QED BY <2>1, <2>2 DEF Contract!PromiseNext
  <1>3. CASE UNCHANGED consent
    BY <1>1, <1>3, PromiseStutter
  <1> QED BY <1>2, <1>3 DEF People, ApproveBid, AutoApprove, RejectBid, EditBid,
           RequestSubmit, Enqueue, LoseEnqueue

\* The marketplace accepts: the words were approved, the project has no bid of the
\* account yet, and the reservation the attempt holds leaves room in the allowance.
LEMMA AcceptPromise ==
  ASSUME IInv, CreatesFirst, CountersCoverBids,
         NEW w \in Workers, CreateBid(w), Accept(w)
  PROVE  [Contract!PromiseNext]_(Contract!promiseVars)
  <1> USE DEF IInv
  <1>1. at[w] \in Bids /\ pc[w] = "create"
    BY DEF CreateBid, JobsOwned
  <1>2. <<at[w], seen[w].words>> \in consent /\ seen[w].words \in AllWords
    BY <1>1 DEF ConsentIsCarried, Sending, TypeOK, WorldOK
  <1>3. Contract!PostedOn(ProjectOf[at[w]]) = {}
    BY <1>1 DEF CreatesFirst, PostedOn, Contract!PostedOn
  <1>4. Len(posted) < Limit["bids"]
    <2>1. "bids" \in held[w]
      BY <1>1 DEF CountersKept
    <2>2. Cardinality(Holders("bids")) \in Nat \ {0}
      BY <2>1, HoldersCount
    <2>3. used["bids"] >= Len(posted) + Cardinality(Holders("bids"))
      BY DEF CountersCoverBids, Holders
    <2>4. used["bids"] <= Limit["bids"] /\ used["bids"] \in Nat /\ Limit["bids"] \in Nat
      BY ConstantsAssumption DEF CountersKept, TypeOK, QueueOK, Counters
    <2>5. Len(posted) \in Nat
      BY DEF TypeOK, WorldOK
    <2> QED BY <2>2, <2>3, <2>4, <2>5
  <1>5. Recorded' = Recorded /\ UNCHANGED consent
    BY DEF CreateBid, outsideVars, Recorded
  <1>6. Contract!Post(at[w], seen[w].words)
    BY <1>2, <1>3, <1>4, <1>5 DEF Accept, Contract!Post, Recorded
  <1> QED BY <1>1, <1>2, <1>6 DEF Contract!PromiseNext

\* recordPlaced: a proposal not yet recorded is recorded as a bid on its project.
LEMMA RecordPromise ==
  ASSUME IInv, NEW w \in Workers, RecordPlaced(w)
  PROVE  [Contract!PromiseNext]_(Contract!promiseVars)
  <1> USE DEF IInv
  <1>1. at[w] \in Bids /\ pc[w] = "record" /\ UNCHANGED <<consent, posted>>
    BY DEF RecordPlaced, JobsOwned
  <1>2. CASE UNCHANGED <<status, platformRef>>
    BY <1>1, <1>2, PromiseStutter DEF Recorded
  <1>3. CASE /\ status' = [status EXCEPT ![at[w]] = "submitted"]
             /\ platformRef' = [platformRef EXCEPT ![at[w]] = ref[w]]
    <2>1. status[at[w]] # "submitted"
      BY <1>1 DEF SubmittedIsLeftAlone
    <2>2. ref[w] \in PostedOn(ProjectOf[at[w]])
      BY <1>1 DEF ReferencesAreReal, Recording
    <2>3. ref[w] \in DOMAIN posted /\ ref[w] \in Contract!PostedOn(ProjectOf[at[w]])
      BY <2>2 DEF PostedOn, Contract!PostedOn
    <2>4. Recorded[at[w]] = 0
      BY <1>1, <2>1 DEF Recorded
    <2>5. Recorded' = [Recorded EXCEPT ![at[w]] = ref[w]]
      BY <1>1, <1>3 DEF Recorded, TypeOK, RowsOK
    <2>6. \E b \in Bids, i \in DOMAIN posted : Contract!Record(b, i)
      BY <1>1, <2>3, <2>4, <2>5 DEF Contract!Record, Recorded
    <2> QED BY <2>6 DEF Contract!PromiseNext
  <1> QED BY <1>2, <1>3 DEF RecordPlaced

\* Each kind of step is a step of the promise or a stutter.
LEMMA StepPromise ==
  ASSUME IInv, CreatesFirst, CountersCoverBids, [Next]_vars
  PROVE  [Contract!PromiseNext]_(Contract!promiseVars)
  <1> USE DEF IInv
  <1>1. CASE \E b \in Bids : People(b)
    BY <1>1, PeoplePromise
  <1>2. CASE Switches \/ UNCHANGED vars
    BY <1>2, SwitchesFrame, PromiseStutter DEF vars, rowVars, Recorded
  <1>3. CASE \E w \in Workers, b \in Bids : Take(w, b)
    BY <1>3, PromiseStutter DEF Take, rowVars, Recorded
  <1>4. ASSUME NEW w \in Workers, GoesOn(w)
        PROVE  [Contract!PromiseNext]_(Contract!promiseVars)
    <2>1. CASE RecordPlaced(w)
      BY <2>1, RecordPromise
    <2>2. CASE CreateBid(w) /\ Accept(w)
      BY <2>2, AcceptPromise
    <2>3. CASE ~RecordPlaced(w) /\ UNCHANGED posted
      <3>1. Recorded' = Recorded
        BY <1>4, <2>3, RecordsFrame, RecordedKept
      <3>2. UNCHANGED consent
        BY <1>4, GoesOnFrame
      <3> QED BY <2>3, <3>1, <3>2, PromiseStutter
    <2>4. UNCHANGED posted \/ (CreateBid(w) /\ Accept(w))
      BY <1>4 DEF GoesOn, LoadProposal, ReadSettings, TakeScannerSlot, TakeAllowance,
           MeterPlan, FindBid, CreateBid, GiveBack, RecordCall, RecordPlaced, MarkFailed
    <2> QED BY <2>1, <2>2, <2>3, <2>4
  <1>5. CASE \E w \in Workers : Ends(w)
    BY <1>5, EndsFrame, PromiseStutter DEF rowVars, Recorded
  <1> QED BY <1>1, <1>2, <1>3, <1>4, <1>5, NextKinds

\* submitProposal and its queue implement the promise: with one worker slot or one
\* proposal per project, and no lost answer, for any number of proposals, workers,
\* retries, stalls, crashes, lost hand-overs, edits and rejections.
THEOREM KeepsThePromise == ASSUME OneAtATime, ~LostAnswers PROVE Spec => Promise
  <1>1. Init => Contract!PromiseInit /\ CreatesFirst
    BY DEF Init, Contract!PromiseInit, CreatesFirst
  <1>2. IInv /\ CreatesFirst /\ [Next]_vars => CreatesFirst'
    BY FirstNext DEF IInv
  <1>3. IInv /\ CreatesFirst /\ CountersCoverBids /\ [Next]_vars
          => [Contract!PromiseNext]_(Contract!promiseVars)
    BY StepPromise
  <1>4. Spec => []CreatesFirst
    BY <1>1, <1>2, Invariance, PTL DEF Spec
  <1>5. Spec => []CountersCoverBids
    BY CountersCover
  <1> QED
    BY <1>1, <1>3, <1>4, <1>5, Invariance, PTL DEF Spec, Promise, Contract!PromiseSpec

=============================================================================
