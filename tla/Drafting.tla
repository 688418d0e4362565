------------------------------ MODULE Drafting -------------------------------
(***************************************************************************)
(* From a listing on a marketplace to a draft of a bid: the poll           *)
(* (ingest.ts, ingest-upwork.ts), and the workers score.ts, estimate.ts,   *)
(* margin.ts and draft-bid.ts, each of which stores its judgement and then *)
(* adds the job of the next one.  The API adds score and draft jobs too    *)
(* (routes/jobs.ts).  The drafts are BidSubmission's queued bids.          *)
(*                                                                         *)
(* A row is a row of `jobs`.  Upwork's rows are deleted when they have not *)
(* been fetched for 24 hours, with everything judged about them; a listing *)
(* fetched again after that is another row.  One organisation, one month,  *)
(* a page of one listing; without the reprice worker a row has one         *)
(* estimate and one evaluation, so its margin and draft jobs are named by  *)
(* the row.                                                                *)
(***************************************************************************)
EXTENDS Integers, Sequences, FiniteSets

CONSTANTS
  Rows,         \* rows of jobs
  Upwork,       \* those of Upwork, which is read only
  Budgets,      \* a client's budgets
  NoBudget,     \* "nothing held"
  Passing,      \* those at which the margin passes
  Limit,        \* the plan's monthly units, of scores and of drafts
  Attempts,     \* BullMQ attempts of a job
  MaxRequests,  \* bound: what people ask for, budgets they change
  MaxFaults     \* bound: queries that fail, answers that are lost, crashes

ASSUME DraftingAssumption ==
  /\ Upwork \subseteq Rows
  /\ NoBudget \notin Budgets
  /\ Passing \subseteq Budgets
  /\ IsFiniteSet(Rows)
  /\ Limit \in Nat
  /\ Attempts \in Nat \ {0}
  /\ MaxRequests \in Nat
  /\ MaxFaults \in Nat

Stages == {"score", "estimate", "margin", "draft"}
Metered == {"score", "draft"}
Tasks == Stages \X Rows
RowStates == {"absent", "stored", "purged"}
TaskStates == {"none", "waiting", "active", "finished", "fruitless"}
Steps == {"idle", "load", "ask", "hand", "done"}

VARIABLES
  rows, stale, budget,                        \* jobs: state, fetched_at, budget
  verdicts, estimates, evaluations, proposals, \* what is judged about a row
  used,                                       \* usage_counters of the month
  owed,                                       \* jobs a process has yet to add
  taskState, attempts,                        \* BullMQ's jobs
  step, got,                                  \* an attempt and what it holds
  lost,                                       \* jobs that were never added
  requests, faults                            \* the two bounds

rowVars == <<rows, stale, budget>>
judgedVars == <<verdicts, estimates, evaluations, proposals>>
taskVars == <<taskState, attempts>>
stepVars == <<step, got>>
bounds == <<requests, faults>>
draftingVars == <<rowVars, judgedVars, used, owed, taskVars, stepVars, lost, bounds>>

IsStored(r) == rows[r] = "stored"
Pursued(r) == verdicts[r] # <<>> /\ verdicts[r][Len(verdicts[r])]
Passed(r) == evaluations[r] # <<>> /\ evaluations[r][Len(evaluations[r])].passed
LiveDrafts(r, e) ==
  {i \in DOMAIN proposals[r] : proposals[r][i].live /\ proposals[r][i].evaluation = e}

DraftingInit ==
  /\ rows \in [Rows -> {"absent", "purged"}] /\ stale = {}
  /\ budget = [r \in Rows |-> NoBudget]
  /\ verdicts = [r \in Rows |-> <<>>]
  /\ estimates = [r \in Rows |-> 0]
  /\ evaluations = [r \in Rows |-> <<>>]
  /\ proposals = [r \in Rows |-> <<>>]
  /\ used = [m \in Metered |-> 0]
  /\ owed = {}
  /\ taskState = [t \in Tasks |-> "none"]
  /\ attempts = [t \in Tasks |-> 0]
  /\ step = [t \in Tasks |-> "idle"]
  /\ got = [t \in Tasks |-> NoBudget]
  /\ lost = {}
  /\ requests = 0 /\ faults = 0

-----------------------------------------------------------------------------
\* The poll: one row per listing; the rows it made are scored after the commit.
FindNew(r, b) ==
  /\ rows[r] = "absent"
  /\ rows' = [rows EXCEPT ![r] = "stored"]
  /\ budget' = [budget EXCEPT ![r] = b]
  /\ owed' = owed \cup {<<"score", r>>}
  /\ UNCHANGED <<stale, judgedVars, used, taskVars, stepVars, lost, bounds>>

FindAgain(r, b) ==
  /\ IsStored(r)
  /\ b = budget[r] \/ requests < MaxRequests
  /\ budget' = [budget EXCEPT ![r] = b]
  /\ requests' = requests + (IF b = budget[r] THEN 0 ELSE 1)
  /\ stale' = stale \ {r}
  /\ UNCHANGED <<rows, judgedVars, used, owed, taskVars, stepVars, lost, faults>>

\* An Upwork row has not been fetched for 24 hours.
DayPasses(r) ==
  /\ IsStored(r) /\ r \in Upwork /\ r \notin stale
  /\ stale' = stale \cup {r}
  /\ UNCHANGED <<rows, budget, judgedVars, used, owed, taskVars, stepVars, lost, bounds>>

\* The sync, once a minute: the rows go, and what refers to them goes with them.
PurgeUpwork ==
  LET Kept(f, empty) == [r \in Rows |-> IF r \in stale THEN empty ELSE f[r]] IN
  /\ stale # {}
  /\ rows' = Kept(rows, "purged")
  /\ verdicts' = Kept(verdicts, <<>>)
  /\ estimates' = Kept(estimates, 0)
  /\ evaluations' = Kept(evaluations, <<>>)
  /\ stale' = {}
  /\ UNCHANGED <<budget, proposals, used, owed, taskVars, stepVars, lost, bounds>>

\* What people ask for, checked in a transaction; the job is added after it.
RequestScore(r) ==
  /\ requests < MaxRequests
  /\ IsStored(r) /\ used["score"] < Limit
  /\ owed' = owed \cup {<<"score", r>>}
  /\ requests' = requests + 1
  /\ UNCHANGED <<rowVars, judgedVars, used, taskVars, stepVars, lost, faults>>

RequestDraft(r) ==
  /\ requests < MaxRequests
  /\ IsStored(r) /\ r \notin Upwork
  /\ LiveDrafts(r, Len(evaluations[r])) = {}
  /\ Passed(r) /\ used["draft"] < Limit
  /\ owed' = owed \cup {<<"draft", r>>}
  /\ requests' = requests + 1
  /\ UNCHANGED <<rowVars, judgedVars, used, taskVars, stepVars, lost, faults>>

\* Other jobs of the organisation use the month's units too.
OthersUse(m) ==
  /\ used[m] < Limit
  /\ used' = [used EXCEPT ![m] = @ + 1]
  /\ UNCHANGED <<rowVars, judgedVars, owed, taskVars, stepVars, lost, bounds>>

RejectDraft(r) ==
  \E i \in DOMAIN proposals[r] :
    /\ proposals[r][i].live
    /\ proposals' = [proposals EXCEPT ![r][i].live = FALSE]
    /\ UNCHANGED <<rowVars, verdicts, estimates, evaluations, used, owed, taskVars,
                   stepVars, lost, bounds>>

-----------------------------------------------------------------------------
\* A query fails, the answer to one that took effect is lost, a process dies.
Fault == faults < MaxFaults /\ faults' = faults + 1 /\ UNCHANGED requests

\* The queues.  An add whose id is taken is dropped; the id of a job that is
\* over may still be taken, or be given back by now.
Add(t) ==
  \/ /\ taskState[t] \in {"none", "finished", "fruitless"}
     /\ taskState' = [taskState EXCEPT ![t] = "waiting"]
  \/ taskState[t] # "none" /\ UNCHANGED taskState

HandOwed(t) ==
  /\ t \in owed
  /\ Add(t)
  /\ owed' = owed \ {t}
  /\ UNCHANGED <<rowVars, judgedVars, used, attempts, stepVars, lost, bounds>>

\* The poll or the request dies between its commit and the add.
LoseOwed(t) ==
  /\ t \in owed
  /\ Fault
  /\ owed' = owed \ {t}
  /\ lost' = lost \cup {t}
  /\ UNCHANGED <<rowVars, judgedVars, used, taskVars, stepVars>>

Take(t) ==
  /\ taskState[t] = "waiting"
  /\ taskState' = [taskState EXCEPT ![t] = "active"]
  /\ step' = [step EXCEPT ![t] = "load"]
  /\ UNCHANGED <<rowVars, judgedVars, used, owed, attempts, got, lost, bounds>>

Goto(t, label) ==
  /\ step' = [step EXCEPT ![t] = label]
  /\ UNCHANGED <<got, taskVars>>

Leave(t, state) ==
  /\ step' = [step EXCEPT ![t] = "idle"]
  /\ got' = [got EXCEPT ![t] = NoBudget]
  /\ taskState' = [taskState EXCEPT ![t] = state]

\* The processor returns with a result, or with none: skipped, blocked, failed.
Return(t) == Leave(t, "finished") /\ attempts' = [attempts EXCEPT ![t] = 0]
End(t) == Leave(t, "fruitless") /\ attempts' = [attempts EXCEPT ![t] = 0]

\* Faulty variant: attempts are not counted.
ThrowForever(t) == Leave(t, "waiting") /\ UNCHANGED attempts

\* It throws: tried again, or filed as a dead letter.
Throw(t) ==
  \/ /\ attempts[t] + 1 < Attempts
     /\ Leave(t, "waiting")
     /\ attempts' = [attempts EXCEPT ![t] = @ + 1]
  \/ attempts[t] + 1 >= Attempts /\ End(t)

NextStage(t) ==
  << CASE t[1] = "score" -> "estimate" [] t[1] = "estimate" -> "margin" [] OTHER -> "draft", t[2] >>

\* What an attempt that does not go on leaves behind: between its commit and
\* its add, the job of the next worker, which no later attempt adds.
Forsakes(t) == IF step[t] = "hand" THEN {NextStage(t)} ELSE {}

QueryFails(t) ==
  /\ step[t] # "idle"
  /\ Fault
  /\ lost' = lost \cup Forsakes(t)
  /\ Throw(t)
  /\ UNCHANGED <<rowVars, judgedVars, used, owed>>

\* Handed on by BullMQ, or failed for having stalled too often.
Crash(t) ==
  /\ step[t] # "idle"
  /\ Fault
  /\ lost' = lost \cup Forsakes(t)
  /\ \/ Leave(t, "waiting") /\ UNCHANGED attempts
     \/ End(t)
  /\ UNCHANGED <<rowVars, judgedVars, used, owed>>

-----------------------------------------------------------------------------
\* The workers; an attempt is named by its job.  What an attempt reads of rows
\* that only it writes is read in one step; what it does after a call to a model
\* or a provider of rates is a step of its own, which others run before.
At(t, stage, label) == t[1] = stage /\ step[t] = label

OnlyTheAttempt == UNCHANGED <<rowVars, judgedVars, used, owed, lost, bounds>>

\* Faulty variant: the counter's ceiling is not asked for.
MeterUnlimited(t) ==
  /\ used' = [used EXCEPT ![t[1]] = @ + 1]
  /\ Goto(t, "ask") /\ UNCHANGED bounds

\* One unit of the month, if there is one; the answer to that may be lost.
Meter(t) ==
  \/ /\ used[t[1]] < Limit
     /\ used' = [used EXCEPT ![t[1]] = @ + 1]
     /\ \/ Goto(t, "ask") /\ UNCHANGED bounds
        \/ Throw(t) /\ Fault
  \/ used[t[1]] >= Limit /\ End(t) /\ UNCHANGED <<used, bounds>>

\* Faulty variant: a job that has a score is scored again.
LoadScoreAgain(t) ==
  /\ At(t, "score", "load")
  /\ \/ ~IsStored(t[2]) /\ End(t) /\ UNCHANGED <<used, bounds>>
     \/ IsStored(t[2]) /\ Meter(t)
  /\ UNCHANGED <<rowVars, judgedVars, owed, lost>>

LoadScore(t) ==
  LET r == t[2] IN
  /\ At(t, "score", "load")
  /\ \/ ~IsStored(r) /\ End(t) /\ UNCHANGED <<used, bounds>>
     \/ IsStored(r) /\ verdicts[r] # <<>> /\ Return(t) /\ UNCHANGED <<used, bounds>>
     \/ IsStored(r) /\ verdicts[r] = <<>> /\ Meter(t)
  /\ UNCHANGED <<rowVars, judgedVars, owed, lost>>

\* A job without a verdict, or one turned away, is not priced.
LoadEstimate(t) ==
  LET r == t[2] IN
  /\ At(t, "estimate", "load")
  /\ \/ ~IsStored(r) /\ End(t)
     \/ IsStored(r) /\ estimates[r] > 0 /\ Return(t)
     \/ IsStored(r) /\ estimates[r] = 0 /\ ~Pursued(r) /\ End(t)
     \/ IsStored(r) /\ estimates[r] = 0 /\ Pursued(r) /\ Goto(t, "ask")
  /\ OnlyTheAttempt

\* The budget is held from here on.
LoadMargin(t) ==
  LET r == t[2] IN
  /\ At(t, "margin", "load")
  /\ \/ (~IsStored(r) \/ estimates[r] = 0) /\ End(t)
     \/ IsStored(r) /\ estimates[r] > 0 /\ evaluations[r] # <<>> /\ Return(t)
     \/ /\ IsStored(r) /\ estimates[r] > 0 /\ evaluations[r] = <<>>
        /\ got' = [got EXCEPT ![t] = budget[r]]
        /\ step' = [step EXCEPT ![t] = "ask"]
        /\ UNCHANGED taskVars
  /\ OnlyTheAttempt

\* No template for the job ends it before a unit is taken.
LoadDraft(t) ==
  LET r == t[2]
      fit == IsStored(r) /\ r \notin Upwork /\ Passed(r)
      drafted == LiveDrafts(r, Len(evaluations[r])) # {} IN
  /\ At(t, "draft", "load")
  /\ \/ ~fit /\ End(t) /\ UNCHANGED <<used, bounds>>
     \/ fit /\ drafted /\ Return(t) /\ UNCHANGED <<used, bounds>>
     \/ fit /\ ~drafted /\ End(t) /\ UNCHANGED <<used, bounds>>
     \/ fit /\ ~drafted /\ Meter(t)
  /\ UNCHANGED <<rowVars, judgedVars, owed, lost>>

\* The answer is of no use; or the job has no currency, category, source of a
\* price, budget, rules, fees or rate.
Useless(t) ==
  /\ step[t] = "ask"
  /\ End(t)
  /\ OnlyTheAttempt

\* Faulty variant: the error is recorded and swallowed.
UnreachedReturns(t) ==
  /\ step[t] = "ask"
  /\ Return(t)
  /\ OnlyTheAttempt

\* The model or the provider of rates is not reached: a unit taken is given back.
Unreached(t) ==
  /\ step[t] = "ask"
  /\ Throw(t)
  /\ used' = [m \in Metered |-> IF m = t[1] /\ used[m] > 0 THEN used[m] - 1 ELSE used[m]]
  /\ UNCHANGED <<rowVars, judgedVars, owed, lost, bounds>>

\* The transaction is refused, since the row is gone.
Refused(t) ==
  /\ step[t] = "ask"
  /\ ~IsStored(t[2])
  /\ Throw(t)
  /\ OnlyTheAttempt

\* It commits, and a job that follows is added next; or the attempt never hears
\* of the commit, and no later one adds that job.
Committed(t, follows) ==
  \/ follows /\ Goto(t, "hand") /\ UNCHANGED <<lost, bounds>>
  \/ ~follows /\ Return(t) /\ UNCHANGED <<lost, bounds>>
  \/ /\ Throw(t) /\ Fault
     /\ lost' = lost \cup (IF follows THEN {NextStage(t)} ELSE {})

\* Faulty variant: the unit is given back when the attempt does not hear of its commit.
StoreScoreGivesBack(t) ==
  LET r == t[2] IN
  /\ At(t, "score", "ask") /\ IsStored(r)
  /\ verdicts' = [verdicts EXCEPT ![r] = Append(@, TRUE)]
  /\ Throw(t) /\ Fault
  /\ used' = [used EXCEPT !["score"] = @ - 1]
  /\ lost' = lost \cup {NextStage(t)}
  /\ UNCHANGED <<rowVars, estimates, evaluations, proposals, owed>>

StoreScore(t) ==
  LET r == t[2] IN
  /\ At(t, "score", "ask") /\ IsStored(r)
  /\ \E pursue \in BOOLEAN :
       /\ verdicts' = [verdicts EXCEPT ![r] = Append(@, pursue)]
       /\ Committed(t, pursue)
  /\ UNCHANGED <<rowVars, estimates, evaluations, proposals, used, owed>>

StoreEstimate(t) ==
  LET r == t[2] IN
  /\ At(t, "estimate", "ask") /\ IsStored(r)
  /\ estimates' = [estimates EXCEPT ![r] = @ + 1]
  /\ Committed(t, TRUE)
  /\ UNCHANGED <<rowVars, verdicts, evaluations, proposals, used, owed>>

StoreMargin(t) ==
  LET r == t[2]
      passed == got[t] \in Passing IN
  /\ At(t, "margin", "ask") /\ IsStored(r)
  /\ evaluations' = [evaluations EXCEPT ![r] =
       Append(@, [estimate |-> estimates[r], budget |-> got[t], passed |-> passed])]
  /\ Committed(t, passed /\ r \notin Upwork)
  /\ UNCHANGED <<rowVars, verdicts, estimates, proposals, used, owed>>

\* Faulty variant: the price is read from the row.
StoreDraftAtNewBudget(t) ==
  LET r == t[2] IN
  /\ At(t, "draft", "ask") /\ IsStored(r)
  /\ proposals' = [proposals EXCEPT ![r] =
       Append(@, [evaluation |-> Len(evaluations[r]), amount |-> budget[r], live |-> TRUE])]
  /\ Committed(t, FALSE)
  /\ UNCHANGED <<rowVars, verdicts, estimates, evaluations, used, owed>>

\* The price is the budget the margin was judged at, not the one of now.
StoreDraft(t) ==
  LET r == t[2]
      e == Len(evaluations[r]) IN
  /\ At(t, "draft", "ask") /\ IsStored(r)
  /\ proposals' = [proposals EXCEPT ![r] =
       Append(@, [evaluation |-> e, amount |-> evaluations[r][e].budget, live |-> TRUE])]
  /\ Committed(t, FALSE)
  /\ UNCHANGED <<rowVars, verdicts, estimates, evaluations, used, owed>>

\* The next worker's job, after the commit.
HandOn(t) ==
  /\ step[t] = "hand"
  /\ Add(NextStage(t))
  /\ step' = [step EXCEPT ![t] = "done"]
  /\ UNCHANGED <<rowVars, judgedVars, used, owed, attempts, got, lost, bounds>>

Finish(t) ==
  /\ step[t] = "done"
  /\ Return(t)
  /\ OnlyTheAttempt

-----------------------------------------------------------------------------
Work(t) ==
  \/ LoadScore(t) \/ LoadEstimate(t) \/ LoadMargin(t) \/ LoadDraft(t)
  \/ Useless(t) \/ Unreached(t) \/ Refused(t)
  \/ StoreScore(t) \/ StoreEstimate(t) \/ StoreMargin(t) \/ StoreDraft(t)
  \/ HandOn(t) \/ Finish(t)

DraftingNext ==
  \/ \E r \in Rows, b \in Budgets : FindNew(r, b) \/ FindAgain(r, b)
  \/ \E r \in Rows : DayPasses(r)
  \/ PurgeUpwork
  \/ \E r \in Rows : RequestScore(r) \/ RequestDraft(r) \/ RejectDraft(r)
  \/ \E m \in Metered : OthersUse(m)
  \/ \E t \in Tasks :
       \/ HandOwed(t) \/ LoseOwed(t)
       \/ Take(t) \/ Work(t) \/ QueryFails(t) \/ Crash(t)

DraftingSpec == DraftingInit /\ [][DraftingNext]_draftingVars

\* The workers go on: a job that waits is taken, an attempt takes its next step,
\* and a process that owes an add makes it or dies.
DraftingFairness ==
  \A t \in Tasks : WF_draftingVars(HandOwed(t) \/ Take(t) \/ Work(t))

-----------------------------------------------------------------------------
Evaluation == [estimate : Nat, budget : Budgets, passed : BOOLEAN]
Proposal == [evaluation : Nat, amount : Budgets, live : BOOLEAN]

\* Every variable keeps its type, counters stay within their limits, and a job
\* is active exactly while an attempt runs.
DraftingTypeOK ==
  /\ rows \in [Rows -> RowStates] /\ stale \subseteq Rows /\ budget \in [Rows -> Budgets \cup {NoBudget}]
  /\ verdicts \in [Rows -> Seq(BOOLEAN)]
  /\ estimates \in [Rows -> Nat]
  /\ evaluations \in [Rows -> Seq(Evaluation)]
  /\ proposals \in [Rows -> Seq(Proposal)]
  /\ used \in [Metered -> 0..Limit]
  /\ owed \subseteq Tasks /\ lost \subseteq Tasks
  /\ taskState \in [Tasks -> TaskStates]
  /\ attempts \in [Tasks -> 0..(Attempts - 1)]
  /\ step \in [Tasks -> Steps]
  /\ got \in [Tasks -> Budgets \cup {NoBudget}]
  /\ requests \in 0..MaxRequests /\ faults \in 0..MaxFaults
  /\ \A t \in Tasks : taskState[t] = "active" <=> step[t] # "idle"

\* A job is scored, estimated and judged once, and has one live draft per
\* judgement, whatever crashes, is tried again or is asked for again
\* (score.ts:115 "does not pay for a second opinion", draft-bid.ts:226); and
\* nothing judged about a row outlives it, in spite of the attempts that held
\* it when it was deleted (ingest-upwork.ts:278-282).
OneJudgementPerJob ==
  \A r \in Rows :
    /\ Len(verdicts[r]) <= 1
    /\ estimates[r] <= 1
    /\ Len(evaluations[r]) <= estimates[r]
    /\ \A e \in DOMAIN evaluations[r] : Cardinality(LiveDrafts(r, e)) <= 1
    /\ ~IsStored(r) => verdicts[r] = <<>> /\ estimates[r] = 0 /\ proposals[r] = <<>>

Results(m, r) == IF m = "score" THEN verdicts[r] ELSE proposals[r]
StoredOf(m) == UNION {{<<r, i>> : i \in DOMAIN Results(m, r)} : r \in Rows}
AskedFor(m) == {r \in Rows : step[<<m, r>>] = "ask"}

\* A unit is given back only for a call that reached no model: what was stored
\* and what is being asked stay counted (plan-usage.ts releasePlanUsage).
UsageCoversWork ==
  \A m \in Metered : Cardinality(StoredOf(m)) + Cardinality(AskedFor(m)) <= used[m]

\* A draft is priced at the budget its margin passed at, though the poll may
\* have stored another since, and none is written for a read-only marketplace
\* (margin.ts:317-318, draft-bid.ts:197).
BidPricedAsJudged ==
  \A r \in Rows : \A i \in DOMAIN proposals[r] :
    LET p == proposals[r][i] IN
    /\ r \notin Upwork
    /\ evaluations[r][p.evaluation].passed
    /\ p.amount = evaluations[r][p.evaluation].budget

Underway(t) == taskState[t] \in {"waiting", "active"}

\* The chain stops only where an attempt ended without a result, which is on
\* record, or where a process died between its commit and the add.
Accounted(t) ==
  \/ t \in owed \cup lost
  \/ Underway(t) \/ taskState[t] = "fruitless"
  \/ \E s \in Tasks : NextStage(s) = t /\ step[s] = "hand"
ChainUnbroken ==
  \A r \in Rows : IsStored(r) =>
    /\ verdicts[r] = <<>> => Accounted(<<"score", r>>)
    /\ Pursued(r) /\ estimates[r] = 0 => Accounted(<<"estimate", r>>)
    /\ estimates[r] > 0 /\ evaluations[r] = <<>> => Accounted(<<"margin", r>>)
    /\ Passed(r) /\ r \notin Upwork /\ proposals[r] = <<>> => Accounted(<<"draft", r>>)

\* However often it is retried and crashes, the chain comes to rest.
ChainSettles == []<>(owed = {} /\ \A t \in Tasks : ~Underway(t))

-----------------------------------------------------------------------------
\* What carries the four.  Of a listing not found yet there is nothing to do; what is
\* held is fetched again or goes, with the budget it was fetched with.
ListingsHold ==
  /\ stale \subseteq {r \in Upwork : IsStored(r)}
  /\ \A r \in Rows : IsStored(r) => budget[r] \in Budgets
  /\ \A r \in Rows, s \in Stages :
       rows[r] = "absent" => <<s, r>> \notin owed /\ taskState[<<s, r>>] = "none"

\* While an answer is awaited about a row that is there, nobody else judges it.
AsksHold ==
  /\ \A r \in Rows : IsStored(r) =>
       /\ step[<<"score", r>>] = "ask" => verdicts[r] = <<>>
       /\ step[<<"estimate", r>>] = "ask" => estimates[r] = 0
       /\ step[<<"margin", r>>] = "ask" =>
            estimates[r] > 0 /\ evaluations[r] = <<>> /\ got[<<"margin", r>>] \in Budgets
       /\ step[<<"draft", r>>] = "ask" => Passed(r) /\ LiveDrafts(r, Len(evaluations[r])) = {}
  /\ \A r \in Rows :
       /\ step[<<"draft", r>>] = "ask" => r \notin Upwork
       /\ step[<<"draft", r>>] # "hand"

\* A job that ended with a result, or is about to, has left its judgement.
HasResult(t) == taskState[t] = "finished" \/ step[t] \in {"hand", "done"}
ResultsHold ==
  \A r \in Rows : IsStored(r) =>
    /\ HasResult(<<"score", r>>) => verdicts[r] # <<>>
    /\ HasResult(<<"estimate", r>>) => estimates[r] > 0
    /\ HasResult(<<"margin", r>>) => evaluations[r] # <<>>
    /\ HasResult(<<"draft", r>>) => proposals[r] # <<>>

DraftsHold ==
  \A r \in Rows : \A i \in DOMAIN proposals[r] : proposals[r][i].evaluation \in DOMAIN evaluations[r]

DraftingInv ==
  /\ DraftingTypeOK /\ ListingsHold /\ AsksHold /\ ResultsHold /\ DraftsHold
  /\ OneJudgementPerJob /\ UsageCoversWork /\ BidPricedAsJudged /\ ChainUnbroken

=============================================================================
