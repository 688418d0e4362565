--------------------------- MODULE BidSubmission ---------------------------
(***************************************************************************)
(* From a drafted bid to a bid on the marketplace: the people who approve, *)
(* edit and reject (packages/db/src/approvals.ts, called by the API and    *)
(* the Telegram bot), the submit queue (enqueueSubmit and BullMQ) and the  *)
(* submit worker (apps/workers/src/submit.ts, bid-placer.ts).              *)
(*                                                                         *)
(* The worker is a sequence of awaited database and marketplace calls, and *)
(* anything may happen between two of them; each is one action, and pc     *)
(* names the call that comes next.  One organisation, one marketplace      *)
(* account, one scanner and one calendar month are modelled.               *)
(***************************************************************************)
EXTENDS Integers, Sequences, FiniteSets

CONSTANTS
  Bids,         \* proposals, as draft-bid inserted them: queued, first words
  Projects,     \* marketplace projects
  ProjectOf,    \* the project each proposal is for
  AutoBids,     \* proposals an auto-send scanner may approve by itself
  Workers,      \* submit worker slots: processes times their concurrency
  None,         \* "no proposal"
  Limit,        \* per counter, what its conditional upsert stops at
  Attempts,     \* BullMQ attempts of a job (queues.ts)
  MaxStalled,   \* BullMQ maxStalledCount: lost workers a job survives
  MaxWords,     \* bound: per proposal, versions of its words: one more than its edits
  Pausing,      \* bound: whether somebody uses /pause and /resume
  LoseAdds,     \* whether a commit's hand-over to the queue may get lost
  LostAnswers   \* whether the answer to an accepted bid may get lost

\* The usage_counters rows of the month, in the order the worker gives them back.
CounterOrder == <<"bids", "slots", "plan">>
Counters == {"bids", "slots", "plan"}

ASSUME ConstantsAssumption ==
  /\ ProjectOf \in [Bids -> Projects]
  /\ AutoBids \subseteq Bids
  /\ None \notin Bids
  /\ IsFiniteSet(Workers)
  /\ Limit \in [Counters -> Nat]
  /\ Attempts \in Nat \ {0}
  /\ MaxStalled \in Nat
  /\ MaxWords \in [Bids -> Nat \ {0}]
  /\ Pausing \in BOOLEAN
  /\ LoseAdds \in BOOLEAN
  /\ LostAnswers \in BOOLEAN

VARIABLES
  status, words, via, platformRef,     \* the proposals rows
  okCall,                              \* events: the external.call that went ok
  pipeline,                            \* pipeline_items.proposal_id per project
  paused,                              \* settings.bidding_paused
  used,                                \* usage_counters
  pendingAdd,                          \* approvals committed, not yet enqueued
  jobState, attemptsMade, stalled,     \* BullMQ's job per proposal
  blockedByPause,                      \* jobs whose result was "paused"
  pc, at, seen, held, ref, outcome,       \* the submit worker and its locals
  posted,                              \* the marketplace's bids
  consent                              \* history: what was approved

rowVars == <<status, words, via, platformRef>>
factVars == <<okCall, pipeline>>
jobVars == <<jobState, attemptsMade, stalled, blockedByPause>>
workerVars == <<pc, at, seen, held, ref, outcome>>
vars == <<rowVars, factVars, paused, used, pendingAdd, jobVars,
          workerVars, posted, consent>>

AllWords == UNION {1..MaxWords[b] : b \in Bids}

NoSnapshot == [words |-> 0, via |-> "none"]

PostedOn(p) == {i \in DOMAIN posted : posted[i].project = p}

Init ==
  /\ status = [b \in Bids |-> "queued"]
  /\ words = [b \in Bids |-> 1]
  /\ via = [b \in Bids |-> "none"]
  /\ platformRef = [b \in Bids |-> 0]
  /\ okCall = [b \in Bids |-> 0]
  /\ pipeline = [p \in Projects |-> None]
  /\ paused = FALSE
  /\ used = [c \in Counters |-> 0]
  /\ pendingAdd = {}
  /\ jobState = [b \in Bids |-> "none"]
  /\ attemptsMade = [b \in Bids |-> 0]
  /\ stalled = [b \in Bids |-> 0]
  /\ blockedByPause = {}
  /\ pc = [w \in Workers |-> "idle"]
  /\ at = [w \in Workers |-> None]
  /\ seen = [w \in Workers |-> NoSnapshot]
  /\ held = [w \in Workers |-> {}]
  /\ ref = [w \in Workers |-> 0]
  /\ outcome = [w \in Workers |-> "none"]
  /\ posted = <<>>
  /\ consent = {}

-----------------------------------------------------------------------------
(***************************************************************************)
(* People.  Every change is one conditional update; handing the bid to the *)
(* queue is a second step, after the commit.                               *)
(***************************************************************************)

\* planUsage: room for one more bid this month, read before the update.
PlanHasRoom == used["plan"] < Limit["plan"]

Approve(b, channel) ==
  /\ status[b] = "queued"
  /\ status' = [status EXCEPT ![b] = "approved"]
  /\ via' = [via EXCEPT ![b] = channel]
  /\ consent' = consent \cup {<<b, words[b]>>}
  /\ pendingAdd' = pendingAdd \cup {b}
  /\ UNCHANGED <<words, platformRef, factVars, paused, used, jobVars,
                 workerVars, posted>>

ApproveBid(b) == PlanHasRoom /\ Approve(b, "person")

\* The auto-send approver writes approved_via 'auto'; it is not part of src/.
AutoApprove(b) == b \in AutoBids /\ Approve(b, "auto")

RejectBid(b) ==
  /\ status[b] \notin {"submitted", "rejected"}
  /\ status' = [status EXCEPT ![b] = "rejected"]
  /\ via' = [via EXCEPT ![b] = "none"]
  /\ UNCHANGED <<words, platformRef, factVars, paused, used, pendingAdd,
                 jobVars, workerVars, posted, consent>>

\* Faulty variant: editing the words keeps the approval.
EditBidKeepsApproval(b) ==
  /\ status[b] # "submitted"
  /\ words[b] < MaxWords[b]
  /\ words' = [words EXCEPT ![b] = @ + 1]
  /\ UNCHANGED <<status, via, platformRef, factVars, paused, used, pendingAdd,
                 jobVars, workerVars, posted, consent>>

EditBid(b) ==
  /\ status[b] # "submitted"
  /\ words[b] < MaxWords[b]
  /\ words' = [words EXCEPT ![b] = @ + 1]
  /\ status' = [status EXCEPT ![b] = "queued"]
  /\ via' = [via EXCEPT ![b] = "none"]
  /\ UNCHANGED <<platformRef, factVars, paused, used, pendingAdd,
                 jobVars, workerVars, posted, consent>>

\* POST /v1/proposals/:id/submit hands an approved bid to the sender again.
RequestSubmit(b) ==
  /\ status[b] = "approved"
  /\ PlanHasRoom
  /\ pendingAdd' = pendingAdd \cup {b}
  /\ UNCHANGED <<rowVars, factVars, paused, used, jobVars, workerVars,
                 posted, consent>>

Pause ==
  /\ Pausing
  /\ ~paused
  /\ paused' = TRUE
  /\ UNCHANGED <<rowVars, factVars, used, pendingAdd, jobVars,
                 workerVars, posted, consent>>

\* /resume clears the switch and hands over every approved bid.
Resume ==
  /\ paused
  /\ paused' = FALSE
  /\ pendingAdd' = pendingAdd \cup {b \in Bids : status[b] = "approved"}
  /\ UNCHANGED <<rowVars, factVars, used, jobVars, workerVars, posted,
                 consent>>

-----------------------------------------------------------------------------
(***************************************************************************)
(* The queue.  enqueueSubmit removes a finished job of the same id, so a   *)
(* finished job is as good as none ("none"); BullMQ drops an add whose id  *)
(* is waiting, delayed or active.  A delayed job is modelled as waiting:   *)
(* an add is dropped on either.  A job's counts matter while it lives.     *)
(***************************************************************************)

Enqueue(b) ==
  /\ b \in pendingAdd
  /\ pendingAdd' = pendingAdd \ {b}
  /\ \/ /\ jobState[b] = "none"
        /\ jobState' = [jobState EXCEPT ![b] = "waiting"]
        /\ blockedByPause' = blockedByPause \ {b}
     \/ /\ jobState[b] # "none"
        /\ UNCHANGED <<jobState, blockedByPause>>
  /\ UNCHANGED <<rowVars, factVars, paused, used, attemptsMade, stalled,
                 workerVars, posted, consent>>

\* The API or the bot dies, or Redis is away, between the commit and the add.
LoseEnqueue(b) ==
  /\ LoseAdds
  /\ b \in pendingAdd
  /\ pendingAdd' = pendingAdd \ {b}
  /\ UNCHANGED <<rowVars, factVars, paused, used, jobVars, workerVars,
                 posted, consent>>

Take(w, b) ==
  /\ pc[w] = "idle"
  /\ jobState[b] = "waiting"
  /\ jobState' = [jobState EXCEPT ![b] = "active"]
  /\ pc' = [pc EXCEPT ![w] = "load"]
  /\ at' = [at EXCEPT ![w] = b]
  /\ UNCHANGED <<rowVars, factVars, paused, used, pendingAdd,
                 attemptsMade, stalled, blockedByPause, seen, held, ref, outcome,
                 posted, consent>>

\* The slot is free again: none of the attempt's locals survive it.
Forget(w) ==
  /\ pc' = [pc EXCEPT ![w] = "idle"]
  /\ at' = [at EXCEPT ![w] = None]
  /\ seen' = [seen EXCEPT ![w] = NoSnapshot]
  /\ held' = [held EXCEPT ![w] = {}]
  /\ ref' = [ref EXCEPT ![w] = 0]
  /\ outcome' = [outcome EXCEPT ![w] = "none"]

\* The job is over: completed or failed, and an add of its id is taken again.
EndJob(b) ==
  /\ jobState' = [jobState EXCEPT ![b] = "none"]
  /\ attemptsMade' = [attemptsMade EXCEPT ![b] = 0]
  /\ stalled' = [stalled EXCEPT ![b] = 0]

\* The processor returned: BullMQ completes the job with its result.
Return(w) ==
  /\ pc[w] = "return"
  /\ EndJob(at[w])
  /\ blockedByPause' = IF outcome[w] = "paused" THEN blockedByPause \cup {at[w]}
                       ELSE blockedByPause
  /\ Forget(w)
  /\ UNCHANGED <<rowVars, factVars, paused, used, pendingAdd, posted, consent>>

\* Faulty variant: the attempt is not counted.
ThrowUncounted(w) ==
  LET b == at[w] IN
  /\ jobState' = [jobState EXCEPT ![b] = "waiting"]
  /\ UNCHANGED <<attemptsMade, stalled>>
  /\ Forget(w)
  /\ UNCHANGED <<rowVars, factVars, paused, used, pendingAdd, blockedByPause,
                 posted, consent>>

\* The processor threw: another attempt, or the end of the job.
Throw(w) ==
  LET b == at[w] IN
  /\ \/ /\ attemptsMade[b] + 1 < Attempts
        /\ jobState' = [jobState EXCEPT ![b] = "waiting"]
        /\ attemptsMade' = [attemptsMade EXCEPT ![b] = @ + 1]
        /\ UNCHANGED stalled
     \/ /\ attemptsMade[b] + 1 >= Attempts
        /\ EndJob(b)
  /\ Forget(w)
  /\ UNCHANGED <<rowVars, factVars, paused, used, pendingAdd, blockedByPause,
                 posted, consent>>

Rethrow(w) == pc[w] = "throw" /\ Throw(w)

\* A database call of the attempt fails, or its answer is lost after it took
\* effect: nothing the attempt holds is given back.  Inside placeBid a failure
\* is caught (PlacingFailed).
DatabaseFails(w) ==
  /\ pc[w] \notin {"idle", "create", "throw"}
  /\ outcome[w] # "already_submitted"     \* returned without another call
  /\ Throw(w)

\* The process dies: BullMQ hands the stalled job on, MaxStalled times.
Crash(w) ==
  LET b == at[w] IN
  /\ pc[w] # "idle"
  /\ \/ /\ stalled[b] < MaxStalled
        /\ jobState' = [jobState EXCEPT ![b] = "waiting"]
        /\ stalled' = [stalled EXCEPT ![b] = @ + 1]
        /\ UNCHANGED attemptsMade
     \/ /\ stalled[b] >= MaxStalled
        /\ EndJob(b)
  /\ Forget(w)
  /\ UNCHANGED <<rowVars, factVars, paused, used, pendingAdd, blockedByPause,
                 posted, consent>>

-----------------------------------------------------------------------------
(***************************************************************************)
(* submitProposal, one action per awaited call.                            *)
(***************************************************************************)

\* What the steps below leave alone besides the worker itself.
outsideVars == <<words, via, platformRef, paused, pendingAdd, jobVars,
                 consent>>

Goto(w, label) == pc' = [pc EXCEPT ![w] = label]

\* Where an attempt that gives up goes once it holds nothing.
AfterGiveBack == [blocked |-> "return", failed |-> "fail", retry |-> "throw",
                  reconciled |-> "event"]

\* Leave with this result; what the attempt holds is given back first.
GiveUp(w, result) ==
  /\ Goto(w, IF held[w] = {} THEN AfterGiveBack[result] ELSE "giveBack")
  /\ outcome' = [outcome EXCEPT ![w] = result]

Finish(w, result) ==
  /\ Goto(w, "return")
  /\ outcome' = [outcome EXCEPT ![w] = result]

\* Faulty variant: whatever is not yet submitted is sent.
LoadProposalUnchecked(w) ==
  LET b == at[w] IN
  /\ pc[w] = "load"
  /\ \/ /\ status[b] # "submitted"
        /\ seen' = [seen EXCEPT ![w] = [words |-> words[b], via |-> via[b]]]
        /\ ref' = [ref EXCEPT ![w] = okCall[b]]
        /\ Goto(w, IF okCall[b] # 0 THEN "record" ELSE "settings")
        /\ UNCHANGED outcome
     \/ /\ status[b] = "submitted"
        /\ Finish(w, "already_submitted")
        /\ UNCHANGED <<seen, ref>>
  /\ UNCHANGED <<outsideVars, status, factVars, used, at, held, posted>>

\* The row, and the external.call an earlier attempt left on record: that one
\* only needs recording.  Nobody but this job writes the proposal's calls, so
\* the two reads are one step.
LoadProposal(w) ==
  LET b == at[w] IN
  /\ pc[w] = "load"
  /\ \/ /\ status[b] = "approved" /\ via[b] # "none"
        /\ seen' = [seen EXCEPT ![w] = [words |-> words[b], via |-> via[b]]]
        /\ ref' = [ref EXCEPT ![w] = okCall[b]]
        /\ Goto(w, IF okCall[b] # 0 THEN "record" ELSE "settings")
        /\ UNCHANGED outcome
     \/ /\ status[b] = "submitted"
        /\ Finish(w, "already_submitted")
        /\ UNCHANGED <<seen, ref>>
     \/ /\ status[b] # "submitted"
        /\ status[b] # "approved" \/ via[b] = "none"
        /\ Finish(w, "skipped")
        /\ UNCHANGED <<seen, ref>>
  /\ UNCHANGED <<outsideVars, status, factVars, used, at, held, posted>>

ReadSettings(w) ==
  /\ pc[w] = "settings"
  /\ \/ paused /\ Finish(w, "paused")
     \/ /\ ~paused
        /\ Goto(w, IF seen[w].via = "auto" THEN "scanner" ELSE "allowance")
        /\ UNCHANGED outcome
  /\ UNCHANGED <<outsideVars, status, factVars, used, at, seen, held, ref, posted>>

\* The conditional upsert behind reserveScannerSlot, reserveBid and meter.
Reserve(w, c, label) ==
  /\ used[c] < Limit[c]
  /\ used' = [used EXCEPT ![c] = @ + 1]
  /\ held' = [held EXCEPT ![w] = @ \cup {c}]
  /\ Goto(w, label)
  /\ UNCHANGED outcome

\* Refused: the limit is reached, the live gate is closed, or what the step
\* hangs on is not there (auto-send off, a score below the floor, no account, no
\* recorded allowance, no client, no plan).
Blocked(w) ==
  /\ GiveUp(w, "blocked")
  /\ UNCHANGED <<used, held>>

TakeScannerSlot(w) ==
  /\ pc[w] = "scanner"
  /\ Reserve(w, "slots", "allowance") \/ Blocked(w)
  /\ UNCHANGED <<outsideVars, status, factVars, at, seen, ref, posted>>

TakeAllowance(w) ==
  /\ pc[w] = "allowance"
  /\ Reserve(w, "bids", "plan") \/ Blocked(w)
  /\ UNCHANGED <<outsideVars, status, factVars, at, seen, ref, posted>>

MeterPlan(w) ==
  /\ pc[w] = "plan"
  /\ Reserve(w, "plan", "find") \/ Blocked(w)
  /\ UNCHANGED <<outsideVars, status, factVars, at, seen, ref, posted>>

\* placeBid threw: give everything back, then fail the bid or throw again.
PlacingFailed(w, unrecoverable) ==
  LET final == unrecoverable \/ attemptsMade[at[w]] + 1 >= Attempts IN
  GiveUp(w, IF final THEN "failed" ELSE "retry")

\* Faulty variant: the marketplace is not asked first.
FindBidNotAsked(w) ==
  /\ pc[w] = "find"
  /\ Goto(w, "create")
  /\ UNCHANGED <<outsideVars, status, factVars, used, at, seen, held, ref,
                 outcome, posted>>

FindBid(w) ==
  /\ pc[w] = "find"
  /\ \/ /\ \E unrecoverable \in BOOLEAN : PlacingFailed(w, unrecoverable)
        /\ UNCHANGED ref
     \/ \E i \in PostedOn(ProjectOf[at[w]]) :
          /\ ref' = [ref EXCEPT ![w] = i]
          /\ GiveUp(w, "reconciled")
     \/ /\ PostedOn(ProjectOf[at[w]]) = {}
        /\ Goto(w, "create")
        /\ UNCHANGED <<ref, outcome>>
  /\ UNCHANGED <<outsideVars, status, factVars, used, at, seen, held, posted>>

\* The marketplace accepts the bid; it does not refuse a second one itself.
Accept(w) ==
  posted' = Append(posted, [project |-> ProjectOf[at[w]], bid |-> at[w],
                            words |-> seen[w].words])

\* Faulty variant: a bid just placed is given back like one found.
CreateBidGivesBack(w) ==
  /\ pc[w] = "create"
  /\ Accept(w)
  /\ ref' = [ref EXCEPT ![w] = Len(posted) + 1]
  /\ GiveUp(w, "reconciled")
  /\ UNCHANGED <<outsideVars, status, factVars, used, at, seen, held>>

CreateBid(w) ==
  /\ pc[w] = "create"
  /\ \/ /\ Accept(w)                       \* and the answer arrives
        /\ ref' = [ref EXCEPT ![w] = Len(posted) + 1]
        /\ held' = [held EXCEPT ![w] = {}]
        /\ Goto(w, "event")
        /\ UNCHANGED outcome
     \/ /\ LostAnswers                     \* accepted, the answer is lost
        /\ Accept(w)
        /\ PlacingFailed(w, FALSE)
        /\ UNCHANGED <<ref, held>>
     \/ /\ PlacingFailed(w, FALSE)         \* refused, or never arrived
        /\ UNCHANGED <<posted, ref, held>>
  /\ UNCHANGED <<outsideVars, status, factVars, used, at, seen>>

\* Faulty variant: both the catch and the caller give back, without a floor.
GiveBackTwice(w) ==
  /\ pc[w] = "giveBack"
  /\ used' = [c \in Counters |-> IF c \in held[w] THEN used[c] - 2 ELSE used[c]]
  /\ held' = [held EXCEPT ![w] = {}]
  /\ Goto(w, AfterGiveBack[outcome[w]])
  /\ UNCHANGED <<outsideVars, status, factVars, at, seen, ref, outcome, posted>>

\* releaseBid, releaseScannerSlot, releasePlanUsage: one update each.
GiveBack(w) ==
  /\ pc[w] = "giveBack"
  /\ \E n \in DOMAIN CounterOrder :
       LET c == CounterOrder[n] IN
       /\ c \in held[w]
       /\ \A m \in 1..(n - 1) : CounterOrder[m] \notin held[w]
       /\ used' = [used EXCEPT ![c] = IF @ > 0 THEN @ - 1 ELSE 0]
       /\ held' = [held EXCEPT ![w] = @ \ {c}]
       /\ Goto(w, IF held[w] = {c} THEN AfterGiveBack[outcome[w]] ELSE "giveBack")
  /\ UNCHANGED <<outsideVars, status, factVars, at, seen, ref, outcome, posted>>

RecordCall(w) ==
  /\ pc[w] = "event"
  /\ okCall' = [okCall EXCEPT ![at[w]] = ref[w]]
  /\ Goto(w, "record")
  /\ UNCHANGED <<outsideVars, status, pipeline, used, at, seen, held, ref, outcome, posted>>

\* Faulty variant: the pipeline item outlives the refused update.
RecordPlacedUnrolled(w) ==
  LET b == at[w] IN
  /\ pc[w] = "record"
  /\ pipeline' = [pipeline EXCEPT ![ProjectOf[b]] = b]
  /\ \/ /\ via[b] # "none"
        /\ status' = [status EXCEPT ![b] = "submitted"]
        /\ platformRef' = [platformRef EXCEPT ![b] = ref[w]]
        /\ Finish(w, "submitted")
     \/ /\ via[b] = "none"
        /\ Goto(w, "throw")
        /\ UNCHANGED <<status, platformRef, outcome>>
  /\ UNCHANGED <<words, via, okCall, paused, used, pendingAdd, jobVars,
                 at, seen, held, ref, posted, consent>>

\* recordPlaced: one transaction, refused by the row's check
\* submission_requires_approval when the approval has been cleared meanwhile.
RecordPlaced(w) ==
  LET b == at[w] IN
  /\ pc[w] = "record"
  /\ \/ /\ via[b] # "none"
        /\ status' = [status EXCEPT ![b] = "submitted"]
        /\ platformRef' = [platformRef EXCEPT ![b] = ref[w]]
        /\ pipeline' = [pipeline EXCEPT ![ProjectOf[b]] = b]
        /\ Finish(w, "submitted")
     \/ /\ via[b] = "none"
        /\ Goto(w, "throw")
        /\ UNCHANGED <<status, platformRef, pipeline, outcome>>
  /\ UNCHANGED <<words, via, okCall, paused, used, pendingAdd, jobVars,
                  at, seen, held, ref, posted, consent>>

\* The last attempt failed: the update names no state it may move the bid from.
MarkFailed(w) ==
  /\ pc[w] = "fail"
  /\ status' = [status EXCEPT ![at[w]] = "failed"]
  /\ Finish(w, "failed")
  /\ UNCHANGED <<outsideVars, factVars, used, at, seen, held, ref, posted>>

-----------------------------------------------------------------------------
People(b) ==
  \/ ApproveBid(b) \/ AutoApprove(b) \/ RejectBid(b) \/ EditBid(b)
  \/ RequestSubmit(b) \/ Enqueue(b) \/ LoseEnqueue(b)

Switches == Pause \/ Resume

Step(w) ==
  \/ LoadProposal(w) \/ ReadSettings(w)
  \/ TakeScannerSlot(w) \/ TakeAllowance(w) \/ MeterPlan(w)
  \/ FindBid(w) \/ CreateBid(w) \/ GiveBack(w)
  \/ RecordCall(w) \/ RecordPlaced(w) \/ MarkFailed(w)
  \/ Rethrow(w) \/ Return(w)

Next ==
  \/ \E b \in Bids : People(b)
  \/ Switches
  \/ \E w \in Workers, b \in Bids : Take(w, b)
  \/ \E w \in Workers : Step(w) \/ DatabaseFails(w) \/ Crash(w)

Spec == Init /\ [][Next]_vars

\* A worker slot and the queue keep running; people and faults need not act.
\* Take is strongly fair: the waiting list is first in, first out, so a job
\* cannot be passed over for ever by others.
Fairness ==
  \A w \in Workers :
    /\ WF_vars(Step(w))
    /\ \A b \in Bids : SF_vars(Take(w, b))

FairSpec == Spec /\ Fairness

-----------------------------------------------------------------------------
Labels == {"idle", "load", "settings", "scanner", "allowance", "plan",
           "find", "create", "giveBack", "event", "record", "fail", "throw", "return"}
Outcomes == {"none", "already_submitted", "skipped", "paused", "blocked", "failed",
             "retry", "reconciled", "submitted"}

RowsOK ==
  /\ status \in [Bids -> {"queued", "approved", "rejected", "submitted", "failed"}]
  /\ words \in [Bids -> AllWords]
  /\ via \in [Bids -> {"none", "person", "auto"}]
  /\ platformRef \in [Bids -> Nat]
  /\ okCall \in [Bids -> Nat]
  /\ pipeline \in [Projects -> Bids \cup {None}]

QueueOK ==
  /\ paused \in BOOLEAN
  /\ used \in [Counters -> Nat]
  /\ pendingAdd \subseteq Bids
  /\ jobState \in [Bids -> {"none", "waiting", "active"}]
  /\ attemptsMade \in [Bids -> Nat]
  /\ stalled \in [Bids -> Nat]
  /\ blockedByPause \subseteq Bids

WorkersOK ==
  /\ pc \in [Workers -> Labels]
  /\ at \in [Workers -> Bids \cup {None}]
  /\ seen \in [Workers -> [words : AllWords \cup {0}, via : {"none", "person", "auto"}]]
  /\ held \in [Workers -> SUBSET Counters]
  /\ ref \in [Workers -> Nat]
  /\ outcome \in [Workers -> Outcomes]

PostedBid == [project : Projects, bid : Bids, words : AllWords \cup {0}]

WorldOK ==
  /\ posted \in Seq(PostedBid)
  /\ consent \subseteq Bids \X AllWords

TypeOK == RowsOK /\ QueueOK /\ WorkersOK /\ WorldOK

-----------------------------------------------------------------------------
\* Whatever edits, rejections and retries race with the worker, a bid on the
\* marketplace carries words somebody approved for that very proposal.
SentWordsWereApproved ==
  \A i \in DOMAIN posted : <<posted[i].bid, posted[i].words>> \in consent

\* Crashes, retries, lost answers and a second proposal for the same job never
\* put two of the account's bids on one project.
OneBidPerProject ==
  \A i, j \in DOMAIN posted : posted[i].project = posted[j].project => i = j

\* A submitted proposal names a bid the marketplace has on its project, whether
\* the reference came from the call, the events table or findBid.
RecordedBidIsReal ==
  \A b \in Bids : status[b] = "submitted" => platformRef[b] \in PostedOn(ProjectOf[b])

\* The counters of the allowance and the plan never fall behind the bids placed
\* and about to be placed: a give-back never frees a bid that was sent.
CountersCoverBids ==
  \A c \in {"bids", "plan"} :
    used[c] >= Len(posted) + Cardinality({w \in Workers : c \in held[w]})

\* The month's bids stay within the allowance (ARB-042).
PlacedWithinAllowance == Len(posted) <= Limit["bids"]

\* Once a proposal is recorded as submitted no step, of a person or of a worker
\* still holding an older copy of the row, changes its words, state or reference.
SubmittedIsFinal ==
  [][\A b \in Bids : status[b] = "submitted" =>
       /\ status'[b] = "submitted"
       /\ words'[b] = words[b]
       /\ platformRef'[b] = platformRef[b]]_vars

\* The pipeline item of a project names a submitted proposal for it.
PipelineNamesSubmittedBid ==
  \A p \in Projects : pipeline[p] # None =>
    /\ status[pipeline[p]] = "submitted"
    /\ ProjectOf[pipeline[p]] = p

\* submitProposal keeps the promise of BidPromise.
Contract == INSTANCE BidPromise WITH
  Allowance <- Limit["bids"],
  Words <- AllWords,
  recorded <- [b \in Bids |-> IF status[b] = "submitted" THEN platformRef[b] ELSE 0]

Promise == Contract!PromiseSpec

\* A job handed to the worker ends: retries and stalls are counted, and no
\* refusal, failure or give-back leaves it running for ever.
JobsEnd == \A b \in Bids : jobState[b] = "waiting" ~> jobState[b] = "none"

-----------------------------------------------------------------------------
(***************************************************************************)
(* The inductive invariant behind the theorems of BidSubmissionProofs.     *)
(***************************************************************************)
Sending == {"settings", "scanner", "allowance", "plan", "find", "create"}
Recording == {"event", "record"}

\* An attempt runs a job that is active, and no other attempt runs it.
JobsOwned ==
  /\ \A w \in Workers : pc[w] # "idle" => at[w] \in Bids /\ jobState[at[w]] = "active"
  /\ \A w, v \in Workers : pc[w] # "idle" /\ pc[v] # "idle" /\ at[w] = at[v] => w = v

\* An attempt that gives back knows where it goes afterwards.
GiveBackIsGoingSomewhere ==
  \A w \in Workers : pc[w] = "giveBack" => outcome[w] \in DOMAIN AfterGiveBack

\* An approved row, and an attempt on its way to the marketplace, carry words
\* that were approved.
ConsentIsCarried ==
  /\ \A b \in Bids : status[b] = "approved" => <<b, words[b]>> \in consent
  /\ \A w \in Workers : pc[w] \in Sending => <<at[w], seen[w].words>> \in consent

\* Wherever a reference is kept before it is recorded, it is a bid on the project.
ReferencesAreReal ==
  /\ \A b \in Bids : okCall[b] # 0 => okCall[b] \in PostedOn(ProjectOf[b])
  /\ \A w \in Workers :
       pc[w] \in Recording \/ (pc[w] = "giveBack" /\ outcome[w] = "reconciled")
         => ref[w] \in PostedOn(ProjectOf[at[w]])

\* Only an attempt that is about to look at the row, or is done, finds its
\* proposal submitted.
SubmittedIsLeftAlone ==
  \A w \in Workers : pc[w] \notin {"idle", "load", "return"} => status[at[w]] # "submitted"

\* Nobody reserves beyond a limit, and an attempt that may still place its bid
\* holds what the bid costs: one of the allowance and one of the plan.
CountersKept ==
  /\ \A c \in Counters : used[c] <= Limit[c]
  /\ \A w \in Workers :
       /\ pc[w] = "plan" => "bids" \in held[w]
       /\ pc[w] \in {"find", "create"} => {"bids", "plan"} \subseteq held[w]

\* Unless two proposals of one project may be sent at once, the attempt that is
\* about to create a bid is the only one for its project, and finds it empty.
CreatesFirst ==
  \A w \in Workers : pc[w] = "create" => PostedOn(ProjectOf[at[w]]) = {}

OneAtATime ==
  \/ \A a, b \in Bids : ProjectOf[a] = ProjectOf[b] => a = b
  \/ \A w, v \in Workers : w = v

\* All of the above at once, with the counters of attempts and jobs: no step of a
\* person, a worker or a crash leads out of it.  A give-back made twice, or a
\* pipeline item that outlives a refused mark (submit.ts:107), does.
IInv ==
  /\ TypeOK /\ JobsOwned /\ GiveBackIsGoingSomewhere
  /\ ConsentIsCarried /\ SentWordsWereApproved
  /\ ReferencesAreReal /\ RecordedBidIsReal
  /\ SubmittedIsLeftAlone /\ PipelineNamesSubmittedBid
  /\ CountersKept


\* What the source says and the code does not keep.

\* submit.ts, bidForLog: "The words are in the proposal, which is locked once sent."
RecordedWordsWereSent ==
  \A b \in Bids :
    LET i == platformRef[b] IN
    status[b] = "submitted" /\ posted[i].bid = b => posted[i].words = words[b]

\* 0016_telegram.sql: "/resume re-queues what was approved in the meantime."  An
\* approved bid whose last attempt stopped at the pause is not left without a
\* job once bidding is on again and nothing is about to be enqueued.
ResumeRequeues ==
  \A b \in Bids :
    ~ (/\ ~paused
       /\ status[b] = "approved"
       /\ jobState[b] = "none" /\ b \in blockedByPause
       /\ b \notin pendingAdd)

=============================================================================
