--------------------------- MODULE DraftingProofs ----------------------------
(***************************************************************************)
(* What becomes of a listing, for any number of listings, budgets, units   *)
(* and attempts, whatever fails, crashes or is asked for again (Drafting), *)
(* on the schedules scanners are polled on (Schedules), and what a job     *)
(* costs and sells for, for every deal, list of rate cards and sample      *)
(* (Pricing).  TaskInv is what the jobs and their attempts rely on,        *)
(* JudgedInv what is stored of a listing; UsageCoversWork is proved beside *)
(* them by counting.  Last, these and the accounts side by side, the way   *)
(* MCJobsToBids checks them.                                               *)
(***************************************************************************)
EXTENDS MCJobsToBids, AccountsProofs,
        FiniteSetTheorems, WellFoundedInduction, TLAPS

-----------------------------------------------------------------------------
\* Judging and drafting: the parts, and the names of jobs (Drafting).
JudgedInv == DraftsHold /\ OneJudgementPerJob /\ BidPricedAsJudged
TaskInv == ListingsHold /\ AsksHold /\ ResultsHold /\ ChainUnbroken

\* A job is a stage and a row, and every stage of a row is a job.
LEMMA TaskParts ==
  /\ \A t \in Tasks : t[1] \in Stages /\ t[2] \in Rows /\ t = <<t[1], t[2]>>
  /\ \A s \in Stages, r \in Rows : <<s, r>> \in Tasks /\ <<s, r>>[1] = s /\ <<s, r>>[2] = r
  /\ \A r \in Rows : /\ <<"score", r>> \in Tasks /\ <<"estimate", r>> \in Tasks
                     /\ <<"margin", r>> \in Tasks /\ <<"draft", r>> \in Tasks
  /\ \A s \in Stages, r \in Rows : \A t : t = <<s, r>> => t[1] = s /\ t[2] = r
  BY DEF Tasks, Stages

\* Which job follows each of the four stages.
LEMMA NextStages ==
  ASSUME NEW r \in Rows
  PROVE  /\ NextStage(<<"score", r>>) = <<"estimate", r>>
         /\ NextStage(<<"estimate", r>>) = <<"margin", r>>
         /\ NextStage(<<"margin", r>>) = <<"draft", r>>
         /\ NextStage(<<"draft", r>>) = <<"draft", r>>
  BY DEF NextStage

\* The job that follows a job is a job for the same row.
LEMMA NextStageTyped ==
  ASSUME NEW t \in Tasks
  PROVE  NextStage(t) \in Tasks /\ NextStage(t)[2] = t[2]
  <1>1. PICK s \in Stages, r \in Rows : t = <<s, r>>
    BY TaskParts
  <1>2. s = "score" \/ s = "estimate" \/ s = "margin" \/ s = "draft"
    BY DEF Stages
  <1>3. t[2] = r
    BY <1>1
  <1>4. PICK n : n = NextStage(t)
    OBVIOUS
  <1>5. PICK m \in Stages : n = <<m, r>>
    BY <1>1, <1>2, <1>4, NextStages DEF Stages
  <1>6. n \in Tasks /\ n[2] = r
    BY <1>5, TaskParts
  <1> QED BY <1>3, <1>4, <1>6

-----------------------------------------------------------------------------
\* How an attempt ends.
LEMMA LeaveShape ==
  ASSUME DraftingTypeOK, NEW t \in Tasks, NEW st \in {"waiting", "finished", "fruitless"},
         Leave(t, st)
  PROVE  /\ step' \in [Tasks -> Steps] /\ got' \in [Tasks -> Budgets \cup {NoBudget}]
         /\ taskState' \in [Tasks -> TaskStates]
         /\ step'[t] = "idle" /\ taskState'[t] = st
         /\ \A u \in Tasks : u # t =>
              step'[u] = step[u] /\ got'[u] = got[u] /\ taskState'[u] = taskState[u]
         /\ \A u \in Tasks : taskState'[u] = "active" <=> step'[u] # "idle"
  <1> USE DEF Leave, DraftingTypeOK, Steps, TaskStates
  <1>1. step' \in [Tasks -> Steps] /\ step'[t] = "idle"
        /\ \A u \in Tasks : u # t => step'[u] = step[u]
    OBVIOUS
  <1>2. taskState' \in [Tasks -> TaskStates] /\ taskState'[t] = st
        /\ \A u \in Tasks : u # t => taskState'[u] = taskState[u]
    OBVIOUS
  <1>3. got' \in [Tasks -> Budgets \cup {NoBudget}]
        /\ \A u \in Tasks : u # t => got'[u] = got[u]
    OBVIOUS
  <1>4. \A u \in Tasks : taskState'[u] = "active" <=> step'[u] # "idle"
    BY <1>1, <1>2
  <1> QED BY <1>1, <1>2, <1>3, <1>4

\* Returning takes the job off the queue as finished.
LEMMA ReturnLeaves ==
  ASSUME DraftingTypeOK, NEW t \in Tasks, Return(t)
  PROVE  Leave(t, "finished") /\ attempts' \in [Tasks -> 0..(Attempts - 1)]
  BY DraftingAssumption DEF Return, DraftingTypeOK

\* Ending without a result takes it off as fruitless.
LEMMA EndLeaves ==
  ASSUME DraftingTypeOK, NEW t \in Tasks, End(t)
  PROVE  Leave(t, "fruitless") /\ attempts' \in [Tasks -> 0..(Attempts - 1)]
  BY DraftingAssumption DEF End, DraftingTypeOK

\* Throwing puts it back, or off for good at the last attempt.
LEMMA ThrowLeaves ==
  ASSUME DraftingTypeOK, NEW t \in Tasks, Throw(t)
  PROVE  /\ \E st \in {"waiting", "fruitless"} : Leave(t, st)
         /\ attempts' \in [Tasks -> 0..(Attempts - 1)]
  <1>1. CASE End(t)
    BY <1>1, EndLeaves
  <1>2. CASE /\ attempts[t] + 1 < Attempts /\ Leave(t, "waiting")
             /\ attempts' = [attempts EXCEPT ![t] = @ + 1]
    <2>1. attempts[t] \in 0..(Attempts - 1)
      BY DEF DraftingTypeOK
    <2>2. attempts[t] + 1 \in 0..(Attempts - 1)
      BY <1>2, <2>1, DraftingAssumption
    <2> QED BY <1>2, <2>2 DEF DraftingTypeOK
  <1> QED BY <1>1, <1>2 DEF Throw

\* An attempt goes on.
LEMMA GotoShape ==
  ASSUME DraftingTypeOK, NEW t \in Tasks, NEW label \in Steps \ {"idle"}, step[t] # "idle",
         step' = [step EXCEPT ![t] = label], UNCHANGED taskState
  PROVE  /\ step' \in [Tasks -> Steps] /\ step'[t] = label
         /\ \A u \in Tasks : u # t => step'[u] = step[u]
         /\ \A u \in Tasks : taskState'[u] = "active" <=> step'[u] # "idle"
  BY DEF DraftingTypeOK

\* Adding a job puts it on the queue unless one of its name is there.
LEMMA AddShape ==
  ASSUME DraftingTypeOK, NEW t \in Tasks, Add(t)
  PROVE  /\ taskState' \in [Tasks -> TaskStates]
         /\ \A u \in Tasks : u # t => taskState'[u] = taskState[u]
         /\ \/ taskState[t] \in {"none", "finished", "fruitless"} /\ taskState'[t] = "waiting"
            \/ taskState[t] # "none" /\ taskState'[t] = taskState[t]
         /\ \A u \in Tasks : taskState'[u] = "active" <=> taskState[u] = "active"
  BY DEF Add, DraftingTypeOK, TaskStates

\* A transaction has committed.
LEMMA CommittedShape ==
  ASSUME DraftingTypeOK, NEW t \in Tasks, NEW follows \in BOOLEAN, step[t] = "ask",
         Committed(t, follows)
  PROVE  /\ step' \in [Tasks -> Steps] /\ got' \in [Tasks -> Budgets \cup {NoBudget}]
         /\ taskState' \in [Tasks -> TaskStates]
         /\ attempts' \in [Tasks -> 0..(Attempts - 1)]
         /\ lost \subseteq lost' /\ lost' \subseteq Tasks
         /\ requests' \in 0..MaxRequests /\ faults' \in 0..MaxFaults
         /\ \A u \in Tasks : taskState'[u] = "active" <=> step'[u] # "idle"
         /\ \A u \in Tasks : u # t =>
              step'[u] = step[u] /\ got'[u] = got[u] /\ taskState'[u] = taskState[u]
         /\ \/ follows /\ step'[t] = "hand" /\ taskState'[t] = "active"
            \/ ~follows /\ step'[t] = "idle" /\ taskState'[t] = "finished"
            \/ /\ step'[t] = "idle" /\ taskState'[t] \in {"waiting", "fruitless"}
               /\ follows => NextStage(t) \in lost'
  <1>1. taskState[t] = "active"
    BY DEF DraftingTypeOK
  <1>2. CASE follows /\ Goto(t, "hand") /\ UNCHANGED <<lost, bounds>>
    <2>1. "hand" \in Steps \ {"idle"} /\ step[t] # "idle"
      BY DEF Steps
    <2>2. step' = [step EXCEPT ![t] = "hand"] /\ UNCHANGED <<got, taskState, attempts, lost, requests, faults>>
      BY <1>2 DEF Goto, taskVars, bounds
    <2> QED BY <1>1, <1>2, <2>1, <2>2, GotoShape DEF DraftingTypeOK
  <1>3. CASE ~follows /\ Return(t) /\ UNCHANGED <<lost, bounds>>
    BY <1>3, ReturnLeaves, LeaveShape DEF bounds, DraftingTypeOK
  <1>4. CASE /\ Throw(t) /\ Fault
             /\ lost' = lost \cup (IF follows THEN {NextStage(t)} ELSE {})
    <2>1. PICK st \in {"waiting", "fruitless"} : Leave(t, st)
      BY <1>4, ThrowLeaves
    <2>2. attempts' \in [Tasks -> 0..(Attempts - 1)]
      BY <1>4, ThrowLeaves
    <2>3. requests' \in 0..MaxRequests /\ faults' \in 0..MaxFaults
      BY <1>4, DraftingAssumption DEF Fault, DraftingTypeOK
    <2>4. lost \subseteq lost' /\ lost' \subseteq Tasks /\ (follows => NextStage(t) \in lost')
      BY <1>4, NextStageTyped DEF DraftingTypeOK
    <2> QED BY <2>1, <2>2, <2>3, <2>4, LeaveShape
  <1> QED BY <1>2, <1>3, <1>4 DEF Committed

-----------------------------------------------------------------------------
\* The ways an attempt or a job moves while nothing is judged.
LEMMA AsksStay ==
  ASSUME AsksHold, UNCHANGED <<rows, verdicts, estimates, evaluations, proposals>>,
         \A u \in Tasks : /\ step'[u] = "ask" => step[u] = "ask" /\ got'[u] = got[u]
                          /\ step'[u] = "hand" => step[u] = "hand" \/ u[1] # "draft"
  PROVE  AsksHold'
  <1>1. \A r \in Rows : LiveDrafts(r, Len(evaluations[r]))' = LiveDrafts(r, Len(evaluations[r]))
    BY DEF LiveDrafts
  <1>2. \A r \in Rows : Passed(r)' = Passed(r) /\ IsStored(r)' = IsStored(r)
    BY DEF Passed, IsStored
  <1>3. ASSUME NEW r \in Rows
        PROVE  /\ step'[<<"score", r>>] = "ask" => step[<<"score", r>>] = "ask"
               /\ step'[<<"estimate", r>>] = "ask" => step[<<"estimate", r>>] = "ask"
               /\ step'[<<"margin", r>>] = "ask" =>
                    step[<<"margin", r>>] = "ask" /\ got'[<<"margin", r>>] = got[<<"margin", r>>]
               /\ step'[<<"draft", r>>] = "ask" => step[<<"draft", r>>] = "ask"
               /\ step'[<<"draft", r>>] = "hand" => step[<<"draft", r>>] = "hand"
    <2>1. PICK d \in Tasks : d = <<"draft", r>>
      BY TaskParts
    <2>2. d[1] = "draft"
      BY <2>1
    <2>3. step'[d] = "hand" => step[d] = "hand"
      BY <2>2
    <2>4. PICK a, b, c \in Tasks : a = <<"score", r>> /\ b = <<"estimate", r>> /\ c = <<"margin", r>>
      BY TaskParts
    <2>5. step'[a] = "ask" => step[a] = "ask"
      OBVIOUS
    <2>6. step'[b] = "ask" => step[b] = "ask"
      OBVIOUS
    <2>7. step'[c] = "ask" => step[c] = "ask" /\ got'[c] = got[c]
      OBVIOUS
    <2>8. step'[d] = "ask" => step[d] = "ask"
      OBVIOUS
    <2> QED BY <2>1, <2>3, <2>4, <2>5, <2>6, <2>7, <2>8
  <1> QED BY <1>1, <1>2, <1>3 DEF AsksHold

\* An attempt that stops without a result keeps the invariant of jobs.
LEMMA QuitHolds ==
  ASSUME DraftingTypeOK, TaskInv, NEW t \in Tasks, NEW st \in {"waiting", "fruitless"},
         step[t] # "idle", Leave(t, st),
         UNCHANGED <<rows, stale, budget, verdicts, estimates, evaluations, proposals, owed>>,
         lost \subseteq lost', Forsakes(t) \subseteq lost'
  PROVE  TaskInv'
  <1>1. /\ step'[t] = "idle" /\ taskState'[t] = st
        /\ \A u \in Tasks : u # t =>
             step'[u] = step[u] /\ got'[u] = got[u] /\ taskState'[u] = taskState[u]
    BY LeaveShape
  <1>2. taskState[t] = "active"
    BY DEF DraftingTypeOK
  <1>3. ListingsHold'
    BY <1>1, <1>2, TaskParts DEF TaskInv, ListingsHold, IsStored
  <1>4. AsksHold'
    BY <1>1, AsksStay DEF TaskInv
  <1>5. \A u \in Tasks : HasResult(u)' => HasResult(u)
    BY <1>1 DEF HasResult
  <1>6. ResultsHold'
    BY <1>5, TaskParts DEF TaskInv, ResultsHold, IsStored
  <1>7. ASSUME NEW u \in Tasks, Accounted(u)
        PROVE  Accounted(u)'
    <2>1. CASE u \in owed \cup lost
      BY <2>1 DEF Accounted
    <2>2. CASE Underway(u) \/ taskState[u] = "fruitless"
      BY <1>1, <2>2 DEF Accounted, Underway
    <2>3. CASE \E s \in Tasks : NextStage(s) = u /\ step[s] = "hand"
      BY <1>1, <2>3 DEF Accounted, Forsakes
    <2> QED BY <1>7, <2>1, <2>2, <2>3 DEF Accounted
  <1>8. ChainUnbroken'
    BY <1>7, TaskParts DEF TaskInv, ChainUnbroken, IsStored, Pursued, Passed
  <1> QED BY <1>3, <1>4, <1>6, <1>8 DEF TaskInv

Judged(t) ==
  /\ t[1] = "score" => verdicts[t[2]] # <<>>
  /\ t[1] = "estimate" => estimates[t[2]] > 0
  /\ t[1] = "margin" => evaluations[t[2]] # <<>>
  /\ t[1] = "draft" => proposals[t[2]] # <<>>

\* So does one that returns with its result stored.
LEMMA ReturnHolds ==
  ASSUME DraftingTypeOK, TaskInv, NEW t \in Tasks,
         step[t] \notin {"idle", "hand"}, Leave(t, "finished"),
         IsStored(t[2]) => Judged(t),
         UNCHANGED <<rows, stale, budget, verdicts, estimates, evaluations, proposals, owed, lost>>
  PROVE  TaskInv'
  <1>1. /\ step'[t] = "idle" /\ taskState'[t] = "finished"
        /\ \A u \in Tasks : u # t =>
             step'[u] = step[u] /\ got'[u] = got[u] /\ taskState'[u] = taskState[u]
    BY LeaveShape
  <1>2. taskState[t] = "active"
    BY DEF DraftingTypeOK
  <1>3. ListingsHold'
    BY <1>1, <1>2, TaskParts DEF TaskInv, ListingsHold, IsStored
  <1>4. AsksHold'
    BY <1>1, AsksStay DEF TaskInv
  <1>5. \A u \in Tasks : HasResult(u)' => HasResult(u) \/ u = t
    BY <1>1 DEF HasResult
  <1>6. ResultsHold'
    BY <1>5, TaskParts DEF TaskInv, ResultsHold, IsStored, Judged
  <1>7. ASSUME NEW u \in Tasks, Accounted(u), u # t
        PROVE  Accounted(u)'
    BY <1>1, <1>7 DEF Accounted, Underway
  <1>8. ChainUnbroken'
    <2> SUFFICES ASSUME NEW r \in Rows, IsStored(r)
                 PROVE  /\ verdicts[r] = <<>> => Accounted(<<"score", r>>)'
                        /\ Pursued(r) /\ estimates[r] = 0 => Accounted(<<"estimate", r>>)'
                        /\ estimates[r] > 0 /\ evaluations[r] = <<>> => Accounted(<<"margin", r>>)'
                        /\ Passed(r) /\ r \notin Upwork /\ proposals[r] = <<>> => Accounted(<<"draft", r>>)'
      BY DEF ChainUnbroken, IsStored, Pursued, Passed
    <2>1. \A s \in Stages : <<s, r>> = t => Judged(<<s, r>>)
      BY TaskParts
    <2>2. estimates[r] > 0 => estimates[r] # 0
      BY DEF DraftingTypeOK
    <2> QED BY <1>7, <2>1, <2>2, TaskParts DEF TaskInv, ChainUnbroken, Judged, Stages
  <1> QED BY <1>3, <1>4, <1>6, <1>8 DEF TaskInv

\* So does going on to ask the model.
LEMMA AskHolds ==
  ASSUME DraftingTypeOK, TaskInv, NEW t \in Tasks, step[t] = "load",
         step' = [step EXCEPT ![t] = "ask"], UNCHANGED taskState,
         \A u \in Tasks : u # t => got'[u] = got[u],
         UNCHANGED <<rows, stale, budget, verdicts, estimates, evaluations, proposals, owed, lost>>,
         t[1] = "score" => verdicts[t[2]] = <<>>,
         t[1] = "estimate" => estimates[t[2]] = 0,
         t[1] = "margin" =>
           estimates[t[2]] > 0 /\ evaluations[t[2]] = <<>> /\ got'[t] \in Budgets,
         t[1] = "draft" => Passed(t[2]) /\ LiveDrafts(t[2], Len(evaluations[t[2]])) = {} /\ t[2] \notin Upwork
  PROVE  TaskInv'
  <1>1. "ask" \in Steps \ {"idle"}
    BY DEF Steps
  <1>2. /\ step'[t] = "ask"
        /\ \A u \in Tasks : u # t => step'[u] = step[u]
    BY <1>1, GotoShape
  <1>3. ListingsHold'
    BY DEF TaskInv, ListingsHold, IsStored
  <1>4. AsksHold'
    <2>1. \A r \in Rows : LiveDrafts(r, Len(evaluations[r]))' = LiveDrafts(r, Len(evaluations[r]))
      BY DEF LiveDrafts
    <2>2. \A r \in Rows : Passed(r)' = Passed(r) /\ IsStored(r)' = IsStored(r)
      BY DEF Passed, IsStored
    <2>3. ASSUME NEW r \in Rows, IsStored(r)
          PROVE  /\ step'[<<"score", r>>] = "ask" => verdicts[r] = <<>>
                 /\ step'[<<"estimate", r>>] = "ask" => estimates[r] = 0
                 /\ step'[<<"margin", r>>] = "ask" =>
                      estimates[r] > 0 /\ evaluations[r] = <<>> /\ got'[<<"margin", r>>] \in Budgets
                 /\ step'[<<"draft", r>>] = "ask" => Passed(r) /\ LiveDrafts(r, Len(evaluations[r])) = {}
      <3>1. step'[<<"score", r>>] = "ask" => verdicts[r] = <<>>
        <4>1. CASE t = <<"score", r>>
          BY <4>1, TaskParts DEF Stages
        <4>2. CASE t # <<"score", r>>
          <5>1. PICK u \in Tasks : u = <<"score", r>>
            BY TaskParts
          <5>2. step'[u] = step[u] /\ got'[u] = got[u]
            BY <1>2, <4>2, <5>1
          <5> QED BY <2>3, <5>1, <5>2 DEF TaskInv, AsksHold
        <4> QED BY <4>1, <4>2
      <3>2. step'[<<"estimate", r>>] = "ask" => estimates[r] = 0
        <4>1. CASE t = <<"estimate", r>>
          BY <4>1, TaskParts DEF Stages
        <4>2. CASE t # <<"estimate", r>>
          <5>1. PICK u \in Tasks : u = <<"estimate", r>>
            BY TaskParts
          <5>2. step'[u] = step[u] /\ got'[u] = got[u]
            BY <1>2, <4>2, <5>1
          <5> QED BY <2>3, <5>1, <5>2 DEF TaskInv, AsksHold
        <4> QED BY <4>1, <4>2
      <3>3. step'[<<"margin", r>>] = "ask" =>
              estimates[r] > 0 /\ evaluations[r] = <<>> /\ got'[<<"margin", r>>] \in Budgets
        <4>1. CASE t = <<"margin", r>>
          BY <4>1, TaskParts DEF Stages
        <4>2. CASE t # <<"margin", r>>
          <5>1. PICK u \in Tasks : u = <<"margin", r>>
            BY TaskParts
          <5>2. step'[u] = step[u] /\ got'[u] = got[u]
            BY <1>2, <4>2, <5>1
          <5> QED BY <2>3, <5>1, <5>2 DEF TaskInv, AsksHold
        <4> QED BY <4>1, <4>2
      <3>4. step'[<<"draft", r>>] = "ask" => Passed(r) /\ LiveDrafts(r, Len(evaluations[r])) = {}
        <4>1. CASE t = <<"draft", r>>
          BY <4>1, TaskParts DEF Stages
        <4>2. CASE t # <<"draft", r>>
          <5>1. PICK u \in Tasks : u = <<"draft", r>>
            BY TaskParts
          <5>2. step'[u] = step[u] /\ got'[u] = got[u]
            BY <1>2, <4>2, <5>1
          <5> QED BY <2>3, <5>1, <5>2 DEF TaskInv, AsksHold
        <4> QED BY <4>1, <4>2
      <3> QED BY <3>1, <3>2, <3>3, <3>4
    <2>4. ASSUME NEW r \in Rows
          PROVE  /\ step'[<<"draft", r>>] = "ask" => r \notin Upwork
                 /\ step'[<<"draft", r>>] # "hand"
      BY <1>2, TaskParts DEF TaskInv, AsksHold
    <2> QED BY <2>1, <2>2, <2>3, <2>4 DEF AsksHold
  <1>5. \A u \in Tasks : HasResult(u)' => HasResult(u)
    BY <1>2 DEF HasResult
  <1>6. ResultsHold'
    BY <1>5, TaskParts DEF TaskInv, ResultsHold, IsStored
  <1>7. ASSUME NEW u \in Tasks, Accounted(u)
        PROVE  Accounted(u)'
    BY <1>2, <1>7 DEF Accounted, Underway
  <1>8. ChainUnbroken'
    BY <1>7, TaskParts DEF TaskInv, ChainUnbroken, IsStored, Pursued, Passed
  <1> QED BY <1>3, <1>4, <1>6, <1>8 DEF TaskInv

\* So does handing on what a store still owes.
LEMMA HandOwedHolds ==
  ASSUME DraftingTypeOK, TaskInv, NEW t \in Tasks, HandOwed(t)
  PROVE  TaskInv'
  <1>1. UNCHANGED <<rows, stale, budget, verdicts, estimates, evaluations, proposals, step, got, lost>>
    BY DEF HandOwed, rowVars, judgedVars, stepVars
  <1>2. /\ \A u \in Tasks : u # t => taskState'[u] = taskState[u]
        /\ \/ taskState[t] \in {"none", "finished", "fruitless"} /\ taskState'[t] = "waiting"
           \/ taskState[t] # "none" /\ taskState'[t] = taskState[t]
        /\ t \in owed /\ owed' = owed \ {t}
    BY AddShape DEF HandOwed
  <1>3. ListingsHold'
    BY <1>1, <1>2, TaskParts DEF TaskInv, ListingsHold, IsStored
  <1>4. AsksHold'
    BY <1>1, AsksStay DEF TaskInv
  <1>5. \A u \in Tasks : HasResult(u)' => HasResult(u)
    BY <1>1, <1>2 DEF HasResult
  <1>6. ResultsHold'
    BY <1>1, <1>5, TaskParts DEF TaskInv, ResultsHold, IsStored
  <1>7. ASSUME NEW u \in Tasks, Accounted(u)
        PROVE  Accounted(u)' \/ (u = t /\ HasResult(u))
    <2>1. CASE u # t
      BY <1>1, <1>2, <1>7, <2>1 DEF Accounted, Underway
    <2>2. CASE u = t /\ taskState'[t] = "waiting"
      BY <2>2 DEF Accounted, Underway
    <2>3. CASE u = t /\ taskState'[t] = taskState[t] /\ taskState[t] # "none"
      BY <2>3 DEF Accounted, Underway, HasResult, DraftingTypeOK, TaskStates
    <2> QED BY <1>2, <2>1, <2>2, <2>3
  <1>8. ChainUnbroken'
    <2>1. ASSUME NEW r \in Rows, IsStored(r)
          PROVE  /\ verdicts[r] = <<>> => Accounted(<<"score", r>>)'
                 /\ Pursued(r) /\ estimates[r] = 0 => Accounted(<<"estimate", r>>)'
                 /\ estimates[r] > 0 /\ evaluations[r] = <<>> => Accounted(<<"margin", r>>)'
                 /\ Passed(r) /\ r \notin Upwork /\ proposals[r] = <<>> => Accounted(<<"draft", r>>)'
      <3>1. estimates[r] > 0 => estimates[r] # 0
        BY DEF DraftingTypeOK
      <3> QED BY <1>7, <2>1, <3>1, TaskParts DEF TaskInv, ChainUnbroken, ResultsHold
    <2> QED BY <1>1, <2>1 DEF ChainUnbroken, IsStored, Pursued, Passed
  <1> QED BY <1>3, <1>4, <1>6, <1>8 DEF TaskInv

\* So does handing the row to the next stage.
LEMMA HandOnHolds ==
  ASSUME DraftingTypeOK, TaskInv, NEW t \in Tasks, HandOn(t)
  PROVE  TaskInv'
  <1>1. UNCHANGED <<rows, stale, budget, verdicts, estimates, evaluations, proposals, got, lost, owed>>
    BY DEF HandOn, rowVars, judgedVars
  <1>2. PICK n \in Tasks : n = NextStage(t) /\ n[2] = t[2]
    BY NextStageTyped
  <1>3. /\ \A u \in Tasks : u # n => taskState'[u] = taskState[u]
        /\ \/ taskState[n] \in {"none", "finished", "fruitless"} /\ taskState'[n] = "waiting"
           \/ taskState[n] # "none" /\ taskState'[n] = taskState[n]
    BY <1>2, AddShape DEF HandOn
  <1>4. /\ step[t] = "hand" /\ step'[t] = "done"
        /\ \A u \in Tasks : u # t => step'[u] = step[u]
    BY DEF HandOn, DraftingTypeOK
  <1>5. taskState[t] = "active"
    BY <1>4 DEF DraftingTypeOK
  <1>6. rows[n[2]] # "absent"
    BY <1>2, <1>5, TaskParts DEF TaskInv, ListingsHold
  <1>7. ListingsHold'
    BY <1>1, <1>3, <1>6, TaskParts DEF TaskInv, ListingsHold, IsStored
  <1>8. AsksHold'
    BY <1>1, <1>4, AsksStay DEF TaskInv
  <1>9. \A u \in Tasks : HasResult(u)' => HasResult(u)
    BY <1>3, <1>4 DEF HasResult
  <1>10. ResultsHold'
    BY <1>1, <1>9, TaskParts DEF TaskInv, ResultsHold, IsStored
  <1>11. ASSUME NEW u \in Tasks, Accounted(u)
         PROVE  Accounted(u)' \/ HasResult(u)
    <2>1. CASE u # n
      <3>1. \A s \in Tasks : NextStage(s) = u /\ step[s] = "hand" => step'[s] = "hand"
        BY <1>2, <1>4, <2>1
      <3> QED BY <1>1, <1>3, <1>11, <2>1, <3>1 DEF Accounted, Underway
    <2>2. CASE u = n /\ taskState'[n] = "waiting"
      BY <2>2 DEF Accounted, Underway
    <2>3. CASE u = n /\ taskState'[n] = taskState[n] /\ taskState[n] # "none"
      BY <2>3 DEF Accounted, Underway, HasResult, DraftingTypeOK, TaskStates
    <2> QED BY <1>3, <2>1, <2>2, <2>3
  <1>12. ChainUnbroken'
    <2>1. ASSUME NEW r \in Rows, IsStored(r)
          PROVE  /\ verdicts[r] = <<>> => Accounted(<<"score", r>>)'
                 /\ Pursued(r) /\ estimates[r] = 0 => Accounted(<<"estimate", r>>)'
                 /\ estimates[r] > 0 /\ evaluations[r] = <<>> => Accounted(<<"margin", r>>)'
                 /\ Passed(r) /\ r \notin Upwork /\ proposals[r] = <<>> => Accounted(<<"draft", r>>)'
      <3>1. estimates[r] > 0 => estimates[r] # 0
        BY DEF DraftingTypeOK
      <3> QED BY <1>11, <2>1, <3>1, TaskParts DEF TaskInv, ChainUnbroken, ResultsHold
    <2> QED BY <1>1, <2>1 DEF ChainUnbroken, IsStored, Pursued, Passed
  <1> QED BY <1>7, <1>8, <1>10, <1>12 DEF TaskInv

\* The rest of what moves no attempt out of a step, and judges nothing.
LEMMA QueueHolds ==
  ASSUME DraftingTypeOK, TaskInv, NEW t \in Tasks, LoseOwed(t) \/ Take(t)
  PROVE  TaskInv'
  <1>1. UNCHANGED <<rows, stale, budget, verdicts, estimates, evaluations, proposals, got>>
    BY DEF LoseOwed, Take, rowVars, judgedVars, stepVars
  <1>2. \/ /\ UNCHANGED <<taskState, step>> /\ owed' = owed \ {t} /\ lost' = lost \cup {t}
        \/ /\ taskState[t] = "waiting" /\ taskState'[t] = "active" /\ step'[t] = "load"
           /\ \A u \in Tasks : u # t => taskState'[u] = taskState[u] /\ step'[u] = step[u]
           /\ UNCHANGED <<owed, lost>>
    BY DEF LoseOwed, Take, taskVars, stepVars, DraftingTypeOK
  <1>3. ListingsHold'
    BY <1>1, <1>2, TaskParts DEF TaskInv, ListingsHold, IsStored
  <1>4. AsksHold'
    BY <1>1, <1>2, AsksStay DEF TaskInv
  <1>5. \A u \in Tasks : HasResult(u)' => HasResult(u)
    BY <1>2 DEF HasResult
  <1>6. ResultsHold'
    BY <1>1, <1>5, TaskParts DEF TaskInv, ResultsHold, IsStored
  <1>7. step[t] # "hand" \/ UNCHANGED step
    BY <1>2 DEF DraftingTypeOK
  <1>8. ASSUME NEW u \in Tasks, Accounted(u)
        PROVE  Accounted(u)'
    BY <1>2, <1>7, <1>8 DEF Accounted, Underway
  <1>9. ChainUnbroken'
    BY <1>1, <1>8, TaskParts DEF TaskInv, ChainUnbroken, IsStored, Pursued, Passed
  <1> QED BY <1>3, <1>4, <1>6, <1>9 DEF TaskInv

-----------------------------------------------------------------------------
\* Listings come, are fetched again and go; people ask for a score or a draft.
LEMMA ListingsSteps ==
  ASSUME DraftingTypeOK, TaskInv, JudgedInv, NEW r \in Rows, NEW b \in Budgets,
         FindNew(r, b) \/ FindAgain(r, b) \/ DayPasses(r) \/ RequestScore(r) \/ RequestDraft(r)
  PROVE  TaskInv' /\ JudgedInv'
  <1>1. UNCHANGED <<verdicts, estimates, evaluations, proposals, taskState, step, got, lost>>
    BY DEF FindNew, FindAgain, DayPasses, RequestScore, RequestDraft, rowVars, judgedVars,
           taskVars, stepVars
  <1>2. /\ owed \subseteq owed'
        /\ \A u \in owed' : u \in owed \/ (u[2] = r /\ rows'[r] = "stored")
        /\ \A x \in Rows : rows'[x] = rows[x] \/ (x = r /\ rows[r] = "absent" /\ rows'[r] = "stored")
    <2>1. CASE FindNew(r, b)
      BY <2>1, TaskParts DEF FindNew, DraftingTypeOK, Stages
    <2>2. CASE FindAgain(r, b) \/ DayPasses(r)
      BY <2>2 DEF FindAgain, DayPasses
    <2>3. CASE RequestScore(r) \/ RequestDraft(r)
      BY <2>3, TaskParts DEF RequestScore, RequestDraft, rowVars, IsStored, Stages
    <2> QED BY <2>1, <2>2, <2>3
  <1>3. \A x \in Rows : IsStored(x) => IsStored(x)'
    BY <1>2 DEF IsStored
  \* Of a listing that was not there nothing is underway, and nothing is judged.
  <1>4. ASSUME NEW x \in Rows, IsStored(x)', ~IsStored(x)
        PROVE  /\ \A s \in Stages : taskState[<<s, x>>] = "none" /\ step[<<s, x>>] = "idle"
               /\ verdicts[x] = <<>> /\ estimates[x] = 0 /\ evaluations[x] = <<>>
               /\ <<"score", x>> \in owed'
    <2>1. x = r /\ rows[r] = "absent"
      BY <1>2, <1>4 DEF IsStored
    <2>2. FindNew(r, b)
      BY <1>4, <2>1 DEF IsStored, FindAgain, DayPasses, RequestScore, RequestDraft, rowVars
    <2>3. \A s \in Stages : taskState[<<s, x>>] = "none" /\ step[<<s, x>>] = "idle"
      BY <2>1, TaskParts DEF TaskInv, ListingsHold, DraftingTypeOK
    <2>4. verdicts[x] = <<>> /\ estimates[x] = 0 /\ Len(evaluations[x]) <= estimates[x]
      BY <1>4 DEF JudgedInv, OneJudgementPerJob
    <2>5. evaluations[x] = <<>>
      BY <2>4 DEF DraftingTypeOK
    <2> QED BY <2>1, <2>2, <2>3, <2>4, <2>5 DEF FindNew
  <1>5. stale' \subseteq {x \in Upwork : IsStored(x)'}
    <2>1. CASE UNCHANGED stale
      BY <1>3, <2>1, DraftingAssumption DEF TaskInv, ListingsHold
    <2>2. CASE FindAgain(r, b)
      BY <1>3, <2>2, DraftingAssumption DEF TaskInv, ListingsHold, FindAgain
    <2>3. CASE DayPasses(r)
      BY <1>3, <2>3, DraftingAssumption DEF TaskInv, ListingsHold, DayPasses
    <2> QED BY <2>1, <2>2, <2>3 DEF FindNew, RequestScore, RequestDraft, rowVars
  <1>6. \A x \in Rows : IsStored(x)' => budget'[x] \in Budgets
    <2>1. CASE FindNew(r, b)
      BY <2>1 DEF TaskInv, ListingsHold, FindNew, IsStored, DraftingTypeOK
    <2>2. CASE FindAgain(r, b)
      BY <2>2 DEF TaskInv, ListingsHold, FindAgain, IsStored, DraftingTypeOK
    <2>3. CASE DayPasses(r) \/ RequestScore(r) \/ RequestDraft(r)
      BY <2>3 DEF TaskInv, ListingsHold, DayPasses, RequestScore, RequestDraft, IsStored, rowVars
    <2> QED BY <2>1, <2>2, <2>3
  <1>7. ASSUME NEW x \in Rows, NEW s \in Stages, rows'[x] = "absent"
        PROVE  <<s, x>> \notin owed' /\ taskState'[<<s, x>>] = "none"
    <2>1. rows[x] = "absent"
      BY <1>2, <1>7
    <2>2. PICK u : u = <<s, x>>
      OBVIOUS
    <2>3. u[2] = x
      BY <2>2
    <2>4. u \notin owed /\ taskState[u] = "none"
      BY <2>1, <2>2 DEF TaskInv, ListingsHold
    <2> QED BY <1>1, <1>2, <1>7, <2>2, <2>3, <2>4
  <1>8. ListingsHold'
    BY <1>5, <1>6, <1>7 DEF ListingsHold
  <1>9. AsksHold'
    <2>1. \A x \in Rows : /\ LiveDrafts(x, Len(evaluations[x]))' = LiveDrafts(x, Len(evaluations[x]))
                          /\ Passed(x)' = Passed(x)
      BY <1>1 DEF LiveDrafts, Passed
    <2>2. \A x \in Rows : IsStored(x)' /\ ~IsStored(x) =>
            /\ step[<<"score", x>>] = "idle" /\ step[<<"estimate", x>>] = "idle"
            /\ step[<<"margin", x>>] = "idle" /\ step[<<"draft", x>>] = "idle"
      BY <1>4 DEF Stages
    <2> QED BY <1>1, <2>1, <2>2 DEF AsksHold, TaskInv
  <1>10. ResultsHold'
    <2>1. \A u \in Tasks : HasResult(u)' = HasResult(u)
      BY <1>1 DEF HasResult
    <2>2. \A x \in Rows, s \in Stages : IsStored(x)' /\ ~IsStored(x) => ~HasResult(<<s, x>>)
      BY <1>4 DEF HasResult
    <2> QED BY <1>1, <2>1, <2>2, TaskParts DEF ResultsHold, TaskInv, Stages
  <1>11. \A u \in Tasks : Accounted(u) => Accounted(u)'
    BY <1>1, <1>2 DEF Accounted, Underway
  <1>12. ChainUnbroken'
    <2>1. \A x \in Rows : Pursued(x)' = Pursued(x) /\ Passed(x)' = Passed(x)
      BY <1>1 DEF Pursued, Passed
    <2>2. \A x \in Rows : IsStored(x)' /\ ~IsStored(x) =>
            /\ Accounted(<<"score", x>>)' /\ ~Pursued(x) /\ estimates[x] = 0 /\ ~Passed(x)
      BY <1>4 DEF Accounted, Pursued, Passed
    <2> QED BY <1>1, <1>11, <2>1, <2>2, TaskParts DEF ChainUnbroken, TaskInv
  <1>13. JudgedInv'
    <2>1. DraftsHold' /\ BidPricedAsJudged'
      BY <1>1 DEF JudgedInv, DraftsHold, BidPricedAsJudged
    <2>2. \A x \in Rows : \A e : LiveDrafts(x, e)' = LiveDrafts(x, e)
      BY <1>1 DEF LiveDrafts
    <2>3. \A x \in Rows : ~IsStored(x)' => ~IsStored(x)
      BY <1>3
    <2>4. OneJudgementPerJob'
      BY <1>1, <2>2, <2>3 DEF JudgedInv, OneJudgementPerJob
    <2> QED BY <2>1, <2>4 DEF JudgedInv
  <1> QED BY <1>8, <1>9, <1>10, <1>12, <1>13 DEF TaskInv

\* What is deleted is of Upwork, and takes along what was judged about it.
LEMMA PurgeHolds ==
  ASSUME DraftingTypeOK, TaskInv, JudgedInv, PurgeUpwork
  PROVE  TaskInv' /\ JudgedInv'
  <1>1. UNCHANGED <<budget, proposals, taskState, step, got, lost, owed>> /\ stale' = {}
    BY DEF PurgeUpwork, taskVars, stepVars
  <1>2. /\ \A x \in Rows : x \in stale =>
             /\ rows'[x] = "purged" /\ verdicts'[x] = <<>> /\ estimates'[x] = 0 /\ evaluations'[x] = <<>>
        /\ \A x \in Rows : x \notin stale =>
             /\ rows'[x] = rows[x] /\ verdicts'[x] = verdicts[x] /\ estimates'[x] = estimates[x]
             /\ evaluations'[x] = evaluations[x]
    BY DEF PurgeUpwork
  <1>3. \A x \in Rows : IsStored(x)' => IsStored(x) /\ x \notin stale
    BY <1>2 DEF IsStored
  <1>4. \A x \in stale : x \in Rows /\ x \in Upwork /\ IsStored(x)
    BY DraftingAssumption DEF TaskInv, ListingsHold
  <1>5. \A x \in stale : proposals[x] = <<>>
    <2> SUFFICES ASSUME NEW x \in stale PROVE proposals[x] = <<>>
      OBVIOUS
    <2>1. DOMAIN proposals[x] = {}
      BY <1>4 DEF JudgedInv, BidPricedAsJudged
    <2>2. PICK p \in Seq(Proposal) : p = proposals[x]
      BY <1>4 DEF DraftingTypeOK
    <2>3. p # <<>> => 1 \in DOMAIN p
      OBVIOUS
    <2> QED BY <2>1, <2>2, <2>3
  <1>6. ListingsHold'
    <2>1. \A x \in Rows : rows'[x] = "absent" => rows[x] = "absent"
      BY <1>2
    <2> QED BY <1>1, <1>3, <2>1 DEF TaskInv, ListingsHold
  <1>7. \A x \in Rows \ stale : /\ LiveDrafts(x, Len(evaluations[x]))' = LiveDrafts(x, Len(evaluations[x]))
                                /\ Passed(x)' = Passed(x) /\ Pursued(x)' = Pursued(x)
    BY <1>1, <1>2 DEF LiveDrafts, Passed, Pursued
  <1>8. AsksHold'
    BY <1>1, <1>2, <1>3, <1>7 DEF TaskInv, AsksHold
  <1>9. ResultsHold'
    BY <1>1, <1>2, <1>3 DEF TaskInv, ResultsHold, HasResult
  <1>10. \A u \in Tasks : Accounted(u)' = Accounted(u)
    BY <1>1 DEF Accounted, Underway
  <1>11. ChainUnbroken'
    BY <1>1, <1>2, <1>3, <1>7, <1>10, TaskParts DEF TaskInv, ChainUnbroken
  <1>12. DraftsHold'
    BY <1>1, <1>2, <1>5 DEF JudgedInv, DraftsHold
  <1>13. BidPricedAsJudged'
    BY <1>1, <1>2, <1>5 DEF JudgedInv, BidPricedAsJudged
  <1>14. OneJudgementPerJob'
    <2>1. \A x \in Rows : \A e : LiveDrafts(x, e)' = LiveDrafts(x, e)
      BY <1>1 DEF LiveDrafts
    <2> SUFFICES ASSUME NEW x \in Rows
                 PROVE  /\ Len(verdicts'[x]) <= 1 /\ estimates'[x] <= 1
                        /\ Len(evaluations'[x]) <= estimates'[x]
                        /\ \A e \in DOMAIN evaluations'[x] : Cardinality(LiveDrafts(x, e)) <= 1
                        /\ ~IsStored(x)' => verdicts'[x] = <<>> /\ estimates'[x] = 0 /\ proposals'[x] = <<>>
      BY <2>1 DEF OneJudgementPerJob
    <2>2. CASE x \in stale
      BY <1>1, <1>2, <1>5, <2>2
    <2>3. CASE x \notin stale
      <3>1. IsStored(x)' = IsStored(x)
        BY <1>2, <2>3 DEF IsStored
      <3> QED BY <1>1, <1>2, <2>3, <3>1 DEF JudgedInv, OneJudgementPerJob
    <2> QED BY <2>2, <2>3
  <1> QED BY <1>6, <1>8, <1>9, <1>11, <1>12, <1>13, <1>14 DEF TaskInv, JudgedInv

\* What others use of the plan touches neither jobs nor results.
LEMMA OthersUseHolds ==
  ASSUME TaskInv, JudgedInv, UNCHANGED <<rowVars, judgedVars, owed, taskVars, stepVars, lost>>
  PROVE  TaskInv' /\ JudgedInv'
  <1> USE DEF rowVars, judgedVars, taskVars, stepVars
  <1>1. ListingsHold' /\ AsksHold'
    BY DEF TaskInv, ListingsHold, AsksHold, IsStored, Passed, LiveDrafts
  <1>2. ResultsHold'
    BY DEF TaskInv, ResultsHold, IsStored, HasResult
  <1>3. \A u \in Tasks : Accounted(u)' = Accounted(u)
    BY DEF Accounted, Underway
  <1>4. ChainUnbroken'
    BY <1>3, TaskParts DEF TaskInv, ChainUnbroken, IsStored, Pursued, Passed
  <1>5. JudgedInv'
    BY DEF JudgedInv, DraftsHold, OneJudgementPerJob, BidPricedAsJudged, IsStored, LiveDrafts
  <1> QED BY <1>1, <1>2, <1>4, <1>5 DEF TaskInv

\* Nothing judged changes, and no row does.
LEMMA JudgedStays ==
  ASSUME JudgedInv, UNCHANGED <<rows, verdicts, estimates, evaluations, proposals>>
  PROVE  JudgedInv'
  BY DEF JudgedInv, DraftsHold, OneJudgementPerJob, BidPricedAsJudged, IsStored, LiveDrafts

\* The drafts of an evaluation that are still in play are finitely many.
LEMMA LiveDraftsFinite ==
  ASSUME NEW r, NEW e, proposals[r] \in Seq(Proposal)
  PROVE  IsFiniteSet(LiveDrafts(r, e))
  <1>1. DOMAIN proposals[r] = 1..Len(proposals[r]) /\ Len(proposals[r]) \in Nat
    OBVIOUS
  <1>2. IsFiniteSet(1..Len(proposals[r]))
    BY <1>1, FS_Interval
  <1>3. LiveDrafts(r, e) \subseteq 1..Len(proposals[r])
    BY <1>1 DEF LiveDrafts
  <1> QED BY <1>2, <1>3, FS_Subset

\* Rejecting a draft keeps both invariants and the number of drafts.
LEMMA RejectHolds ==
  ASSUME DraftingTypeOK, TaskInv, JudgedInv, NEW r \in Rows, RejectDraft(r)
  PROVE  /\ TaskInv' /\ JudgedInv'
         /\ proposals' \in [Rows -> Seq(Proposal)]
         /\ \A x \in Rows : DOMAIN proposals'[x] = DOMAIN proposals[x]
  <1>1. PICK i \in DOMAIN proposals[r] :
          proposals[r][i].live /\ proposals' = [proposals EXCEPT ![r][i].live = FALSE]
    BY DEF RejectDraft
  <1>2. UNCHANGED <<rows, stale, budget, verdicts, estimates, evaluations, owed, taskState, step, got, lost>>
    BY DEF RejectDraft, rowVars, taskVars, stepVars
  <1>3. PICK s \in Seq(Proposal) : s = proposals[r]
    BY DEF DraftingTypeOK
  <1>4. PICK p \in Proposal : p = s[i]
    BY <1>1, <1>3
  <1>5. PICK q : q = [p EXCEPT !.live = FALSE]
    OBVIOUS
  <1>6. q \in Proposal /\ q.evaluation = p.evaluation /\ q.amount = p.amount /\ q.live = FALSE
    BY <1>5 DEF Proposal
  <1>7. PICK z : z = [s EXCEPT ![i] = q]
    OBVIOUS
  <1>8. /\ z \in Seq(Proposal) /\ DOMAIN z = DOMAIN s /\ z[i] = q
        /\ \A j \in DOMAIN s \ {i} : z[j] = s[j]
    BY <1>1, <1>3, <1>6, <1>7
  <1>9. proposals' = [proposals EXCEPT ![r] = z]
    BY <1>1, <1>3, <1>4, <1>5, <1>7
  <1>10. /\ proposals'[r] = z /\ proposals' \in [Rows -> Seq(Proposal)]
         /\ \A x \in Rows \ {r} : proposals'[x] = proposals[x]
    BY <1>8, <1>9 DEF DraftingTypeOK
  <1>11. \A x \in Rows : DOMAIN proposals'[x] = DOMAIN proposals[x]
    BY <1>3, <1>8, <1>10
  <1>12. ASSUME NEW x \in Rows, NEW j \in DOMAIN proposals[x]
         PROVE  /\ proposals'[x][j].evaluation = proposals[x][j].evaluation
                /\ proposals'[x][j].amount = proposals[x][j].amount
                /\ proposals'[x][j].live => proposals[x][j].live
    <2>1. CASE x # r
      BY <1>10, <2>1
    <2>2. CASE x = r /\ j # i
      BY <1>3, <1>8, <1>10, <2>2
    <2>3. CASE x = r /\ j = i
      BY <1>3, <1>4, <1>8, <1>10, <1>6, <2>3
    <2> QED BY <2>1, <2>2, <2>3
  <1>13. \A x \in Rows : \A e : LiveDrafts(x, e)' \subseteq LiveDrafts(x, e)
    BY <1>11, <1>12 DEF LiveDrafts
  <1>14. \A x \in Rows : (proposals'[x] = <<>>) <=> (proposals[x] = <<>>)
    <2>1. z # <<>> /\ s # <<>>
      BY <1>1, <1>3, <1>8
    <2> QED BY <1>3, <1>10, <2>1
  <1>15. ListingsHold'
    BY <1>2 DEF TaskInv, ListingsHold, IsStored
  <1>16. AsksHold'
    BY <1>2, <1>13 DEF TaskInv, AsksHold, IsStored, Passed
  <1>17. ResultsHold'
    BY <1>2, <1>14 DEF TaskInv, ResultsHold, IsStored, HasResult
  <1>18. \A u \in Tasks : Accounted(u)' = Accounted(u)
    BY <1>2 DEF Accounted, Underway
  <1>19. ChainUnbroken'
    BY <1>2, <1>14, <1>18, TaskParts DEF TaskInv, ChainUnbroken, IsStored, Pursued, Passed
  <1>20. DraftsHold' /\ BidPricedAsJudged'
    BY <1>2, <1>11, <1>12 DEF JudgedInv, DraftsHold, BidPricedAsJudged
  <1>21. OneJudgementPerJob'
    <2>1. ASSUME NEW x \in Rows, NEW e \in DOMAIN evaluations[x]
          PROVE  Cardinality(LiveDrafts(x, e)') <= 1
      <3>1. Cardinality(LiveDrafts(x, e)) <= 1
        BY DEF JudgedInv, OneJudgementPerJob
      <3>2. IsFiniteSet(LiveDrafts(x, e))
        BY LiveDraftsFinite DEF DraftingTypeOK
      <3>3. Cardinality(LiveDrafts(x, e)') <= Cardinality(LiveDrafts(x, e))
        BY <1>13, <3>2, FS_Subset
      <3>4. IsFiniteSet(LiveDrafts(x, e)')
        BY <1>13, <3>2, FS_Subset
      <3>5. Cardinality(LiveDrafts(x, e)') \in Nat /\ Cardinality(LiveDrafts(x, e)) \in Nat
        BY <3>2, <3>4, FS_CardinalityType
      <3> QED BY <3>1, <3>3, <3>5
    <2> QED BY <1>2, <1>14, <2>1 DEF JudgedInv, OneJudgementPerJob, IsStored
  <1> QED BY <1>10, <1>11, <1>15, <1>16, <1>17, <1>19, <1>20, <1>21 DEF TaskInv, JudgedInv

-----------------------------------------------------------------------------
\* A judgement is stored.
LEMMA StoreFrame ==
  ASSUME DraftingTypeOK, TaskInv, NEW r \in Rows, NEW t \in Tasks, t[2] = r, step[t] = "ask",
         UNCHANGED <<rows, stale, budget, owed>>, lost \subseteq lost',
         taskState'[t] # "none",
         \A u \in Tasks : u # t =>
           step'[u] = step[u] /\ got'[u] = got[u] /\ taskState'[u] = taskState[u]
  PROVE  /\ ListingsHold'
         /\ \A u \in Tasks : u # t => /\ HasResult(u)' = HasResult(u)
                                      /\ Accounted(u) => Accounted(u)'
  <1>1. taskState[t] = "active"
    BY DEF DraftingTypeOK
  <1>2. rows[r] # "absent"
    BY <1>1, TaskParts DEF TaskInv, ListingsHold
  <1>3. ListingsHold'
    <2>1. ASSUME NEW x \in Rows, NEW s \in Stages, rows[x] = "absent"
          PROVE  <<s, x>> \notin owed /\ taskState'[<<s, x>>] = "none"
      <3>1. PICK u \in Tasks : u = <<s, x>>
        BY TaskParts
      <3>2. u # t
        BY <1>2, <2>1, <3>1
      <3> QED BY <2>1, <3>1, <3>2 DEF TaskInv, ListingsHold
    <2> QED BY <2>1 DEF TaskInv, ListingsHold, IsStored
  <1>4. \A u \in Tasks : u # t => HasResult(u)' = HasResult(u)
    BY DEF HasResult
  <1>5. \A u \in Tasks : u # t /\ Accounted(u) => Accounted(u)'
    BY DEF Accounted, Underway
  <1> QED BY <1>3, <1>4, <1>5

\* The same of the four jobs of a row, by name.
LEMMA JobsElsewhere ==
  ASSUME NEW t \in Tasks, NEW x \in Rows,
         \A u \in Tasks : u # t => step'[u] = step[u] /\ got'[u] = got[u]
  PROVE  /\ <<"score", x>> # t => step'[<<"score", x>>] = step[<<"score", x>>]
         /\ <<"estimate", x>> # t => step'[<<"estimate", x>>] = step[<<"estimate", x>>]
         /\ <<"margin", x>> # t => step'[<<"margin", x>>] = step[<<"margin", x>>]
         /\ <<"margin", x>> # t => got'[<<"margin", x>>] = got[<<"margin", x>>]
         /\ <<"draft", x>> # t => step'[<<"draft", x>>] = step[<<"draft", x>>]
  BY TaskParts

\* A result stored for one job leaves the results of other rows alone.
LEMMA ResultsElsewhere ==
  ASSUME NEW t \in Tasks, NEW x \in Rows,
         \A u \in Tasks : u # t => HasResult(u)' = HasResult(u)
  PROVE  /\ <<"score", x>> # t => HasResult(<<"score", x>>)' = HasResult(<<"score", x>>)
         /\ <<"estimate", x>> # t => HasResult(<<"estimate", x>>)' = HasResult(<<"estimate", x>>)
         /\ <<"margin", x>> # t => HasResult(<<"margin", x>>)' = HasResult(<<"margin", x>>)
         /\ <<"draft", x>> # t => HasResult(<<"draft", x>>)' = HasResult(<<"draft", x>>)
  BY TaskParts

\* An attempt has its answer, and what others await an answer for is as it was.
LEMMA AsksAfter ==
  ASSUME AsksHold, NEW t \in Tasks, UNCHANGED rows,
         step'[t] # "ask", t[1] # "draft" \/ step'[t] # "hand",
         \A u \in Tasks : u # t => step'[u] = step[u] /\ got'[u] = got[u],
         \A x \in Rows :
           /\ <<"score", x>> # t => (verdicts[x] = <<>> => verdicts'[x] = <<>>)
           /\ <<"estimate", x>> # t => (estimates[x] = 0 => estimates'[x] = 0)
           /\ <<"margin", x>> # t => (estimates[x] > 0 => estimates'[x] > 0)
           /\ <<"margin", x>> # t => (evaluations[x] = <<>> => evaluations'[x] = <<>>)
           /\ <<"draft", x>> # t => (Passed(x) => Passed(x)')
           /\ <<"draft", x>> # t /\ Passed(x) =>
                (LiveDrafts(x, Len(evaluations[x])) = {} => LiveDrafts(x, Len(evaluations[x]))' = {})
  PROVE  AsksHold'
  <1>1. ASSUME NEW x \in Rows, IsStored(x)
        PROVE  /\ step'[<<"score", x>>] = "ask" => verdicts'[x] = <<>>
               /\ step'[<<"estimate", x>>] = "ask" => estimates'[x] = 0
               /\ step'[<<"margin", x>>] = "ask" =>
                    estimates'[x] > 0 /\ evaluations'[x] = <<>> /\ got'[<<"margin", x>>] \in Budgets
               /\ step'[<<"draft", x>>] = "ask" => Passed(x)' /\ LiveDrafts(x, Len(evaluations[x]))' = {}
    <2>1. /\ step[<<"score", x>>] = "ask" => verdicts[x] = <<>>
          /\ step[<<"estimate", x>>] = "ask" => estimates[x] = 0
          /\ step[<<"margin", x>>] = "ask" =>
               estimates[x] > 0 /\ evaluations[x] = <<>> /\ got[<<"margin", x>>] \in Budgets
          /\ step[<<"draft", x>>] = "ask" => Passed(x) /\ LiveDrafts(x, Len(evaluations[x])) = {}
      BY <1>1 DEF AsksHold
    <2>2. step'[<<"score", x>>] = "ask" => verdicts'[x] = <<>>
      BY <2>1, JobsElsewhere
    <2>3. step'[<<"estimate", x>>] = "ask" => estimates'[x] = 0
      BY <2>1, JobsElsewhere
    <2>4. step'[<<"margin", x>>] = "ask" =>
            estimates'[x] > 0 /\ evaluations'[x] = <<>> /\ got'[<<"margin", x>>] \in Budgets
      BY <2>1, JobsElsewhere
    <2>5. step'[<<"draft", x>>] = "ask" => Passed(x)' /\ LiveDrafts(x, Len(evaluations[x]))' = {}
      BY <2>1, JobsElsewhere
    <2> QED BY <2>2, <2>3, <2>4, <2>5
  <1>2. ASSUME NEW x \in Rows
        PROVE  /\ step'[<<"draft", x>>] = "ask" => x \notin Upwork
               /\ step'[<<"draft", x>>] # "hand"
    <2>1. /\ step[<<"draft", x>>] = "ask" => x \notin Upwork
          /\ step[<<"draft", x>>] # "hand"
      BY DEF AsksHold
    <2>2. CASE t = <<"draft", x>>
      <3>1. t[1] = "draft"
        BY <2>2
      <3> QED BY <2>2, <3>1
    <2>3. CASE t # <<"draft", x>>
      BY <2>1, <2>3, JobsElsewhere
    <2> QED BY <2>2, <2>3
  <1>3. \A x \in Rows : IsStored(x)' = IsStored(x)
    BY DEF IsStored
  <1> QED BY <1>1, <1>2, <1>3 DEF AsksHold

\* What follows is at hand, or its job is lost.
LEMMA FollowIsAccounted ==
  ASSUME NEW t \in Tasks, step'[t] = "hand" \/ NextStage(t) \in lost'
  PROVE  Accounted(NextStage(t))'
  BY DEF Accounted

\* Storing a verdict keeps both invariants, and is the row's first.
LEMMA StoreScoreHolds ==
  ASSUME DraftingTypeOK, TaskInv, JudgedInv, NEW t \in Tasks, StoreScore(t)
  PROVE  /\ TaskInv' /\ JudgedInv'
         /\ verdicts' \in [Rows -> Seq(BOOLEAN)] /\ Len(verdicts'[t[2]]) = 1
         /\ verdicts[t[2]] = <<>> /\ \A x \in Rows \ {t[2]} : verdicts'[x] = verdicts[x]
  <1>1. PICK r \in Rows : r = t[2] /\ t = <<"score", r>> /\ IsStored(r) /\ step[t] = "ask"
    BY TaskParts DEF StoreScore, At
  <1>2. PICK pursue \in BOOLEAN :
          /\ verdicts' = [verdicts EXCEPT ![r] = Append(@, pursue)]
          /\ Committed(t, pursue)
    BY <1>1 DEF StoreScore
  <1>3. UNCHANGED <<rows, stale, budget, estimates, evaluations, proposals, owed>>
    BY DEF StoreScore, rowVars
  <1>4. verdicts[r] = <<>>
    BY <1>1 DEF TaskInv, AsksHold
  <1>5. PICK v : v = Append(<<>>, pursue)
    OBVIOUS
  <1>6. v \in Seq(BOOLEAN) /\ v # <<>> /\ Len(v) = 1 /\ v[1] = pursue
    BY <1>5
  <1>7. verdicts'[r] = v /\ verdicts' \in [Rows -> Seq(BOOLEAN)]
        /\ \A x \in Rows \ {r} : verdicts'[x] = verdicts[x]
    BY <1>2, <1>4, <1>5, <1>6 DEF DraftingTypeOK
  <1>8. Pursued(r)' = pursue /\ \A x \in Rows \ {r} : Pursued(x)' = Pursued(x)
    BY <1>6, <1>7 DEF Pursued
  <1>9. /\ lost \subseteq lost'
        /\ \A u \in Tasks : u # t =>
             step'[u] = step[u] /\ got'[u] = got[u] /\ taskState'[u] = taskState[u]
        /\ \/ pursue /\ step'[t] = "hand" /\ taskState'[t] = "active"
           \/ ~pursue /\ step'[t] = "idle" /\ taskState'[t] = "finished"
           \/ /\ step'[t] = "idle" /\ taskState'[t] \in {"waiting", "fruitless"}
              /\ pursue => NextStage(t) \in lost'
    BY <1>1, <1>2, CommittedShape
  <1>10. /\ ListingsHold'
         /\ \A u \in Tasks : u # t => HasResult(u)' = HasResult(u) /\ (Accounted(u) => Accounted(u)')
    BY <1>1, <1>3, <1>9, StoreFrame
  <1>11. \A x \in Rows :
           /\ <<"estimate", x>> # t /\ <<"margin", x>> # t /\ <<"draft", x>> # t
           /\ x # r => <<"score", x>> # t
    BY <1>1
  <1>12. \A x \in Rows :
           /\ IsStored(x)' = IsStored(x) /\ Passed(x)' = Passed(x)
           /\ LiveDrafts(x, Len(evaluations[x]))' = LiveDrafts(x, Len(evaluations[x]))
           /\ \A e : LiveDrafts(x, e)' = LiveDrafts(x, e)
    BY <1>3 DEF IsStored, Passed, LiveDrafts
  <1>13. AsksHold'
    <2>1. step'[t] # "ask" /\ t[1] = "score"
      BY <1>1, <1>9
    <2>2. \A x \in Rows :
           /\ <<"score", x>> # t => (verdicts[x] = <<>> => verdicts'[x] = <<>>)
           /\ <<"estimate", x>> # t => (estimates[x] = 0 => estimates'[x] = 0)
           /\ <<"margin", x>> # t => (estimates[x] > 0 => estimates'[x] > 0)
           /\ <<"margin", x>> # t => (evaluations[x] = <<>> => evaluations'[x] = <<>>)
      BY <1>1, <1>3, <1>7, <1>9, <1>11, <1>12
    <2>3. AsksHold
      BY DEF TaskInv
    <2> QED BY <1>3, <1>9, <1>12, <2>1, <2>2, <2>3, AsksAfter
  <1>14. ResultsHold'
    BY <1>1, <1>3, <1>6, <1>7, <1>10, <1>11, <1>12, ResultsElsewhere DEF TaskInv, ResultsHold
  <1>15. pursue => Accounted(<<"estimate", r>>)'
    BY <1>1, <1>9, FollowIsAccounted, NextStages
  <1>16. ChainUnbroken'
    BY <1>3, <1>6, <1>7, <1>8, <1>10, <1>11, <1>12, <1>15, TaskParts DEF TaskInv, ChainUnbroken
  <1>17. JudgedInv'
    <2>1. DraftsHold' /\ BidPricedAsJudged'
      BY <1>3 DEF JudgedInv, DraftsHold, BidPricedAsJudged
    <2>2. ASSUME NEW x \in Rows
          PROVE  /\ (\A e \in DOMAIN evaluations[x] : Cardinality(LiveDrafts(x, e)) <= 1)'
                 /\ Len(verdicts'[x]) <= 1
                 /\ ~IsStored(x)' => verdicts'[x] = <<>>
      <3>1. \A e \in DOMAIN evaluations[x] : Cardinality(LiveDrafts(x, e)) <= 1
        BY DEF JudgedInv, OneJudgementPerJob
      <3>2. (\A e \in DOMAIN evaluations[x] : Cardinality(LiveDrafts(x, e)) <= 1)'
        BY <1>3, <1>12, <3>1
      <3>3. Len(verdicts[x]) <= 1 /\ (~IsStored(x) => verdicts[x] = <<>>)
        BY DEF JudgedInv, OneJudgementPerJob
      <3>4. Len(verdicts'[x]) <= 1 /\ (~IsStored(x)' => verdicts'[x] = <<>>)
        <4>1. CASE x = r
          <5>1. verdicts'[x] = v /\ Len(v) = 1 /\ IsStored(x)
            BY <1>1, <1>6, <1>7, <4>1
          <5>2. Len(verdicts'[x]) = 1 /\ IsStored(x)'
            BY <1>12, <5>1
          <5> QED BY <5>2
        <4>2. CASE x # r
          <5>1. verdicts'[x] = verdicts[x]
            BY <1>7, <4>2
          <5> QED BY <1>12, <3>3, <5>1
        <4> QED BY <4>1, <4>2
      <3> QED BY <3>2, <3>4
    <2>3. \A x \in Rows : /\ estimates'[x] <= 1 /\ Len(evaluations'[x]) <= estimates'[x]
                          /\ ~IsStored(x)' => estimates'[x] = 0 /\ proposals'[x] = <<>>
      BY <1>3, <1>12 DEF JudgedInv, OneJudgementPerJob
    <2>4. OneJudgementPerJob'
      BY <2>2, <2>3 DEF OneJudgementPerJob
    <2> QED BY <2>1, <2>4 DEF JudgedInv
  <1> QED BY <1>1, <1>4, <1>6, <1>7, <1>10, <1>13, <1>14, <1>16, <1>17 DEF TaskInv

\* Storing an estimate keeps both invariants.
LEMMA StoreEstimateHolds ==
  ASSUME DraftingTypeOK, TaskInv, JudgedInv, NEW t \in Tasks, StoreEstimate(t)
  PROVE  TaskInv' /\ JudgedInv' /\ estimates' \in [Rows -> Nat]
  <1>1. PICK r \in Rows : r = t[2] /\ t = <<"estimate", r>> /\ IsStored(r) /\ step[t] = "ask"
    BY TaskParts DEF StoreEstimate, At
  <1>2. estimates' = [estimates EXCEPT ![r] = @ + 1] /\ Committed(t, TRUE)
    BY <1>1 DEF StoreEstimate
  <1>3. UNCHANGED <<rows, stale, budget, verdicts, evaluations, proposals, owed>>
    BY DEF StoreEstimate, rowVars
  <1>4. estimates[r] = 0
    BY <1>1 DEF TaskInv, AsksHold
  <1>5. estimates'[r] = 1 /\ estimates' \in [Rows -> Nat]
        /\ \A x \in Rows \ {r} : estimates'[x] = estimates[x]
    BY <1>2, <1>4 DEF DraftingTypeOK
  <1>6. evaluations[r] = <<>>
    BY <1>4 DEF JudgedInv, OneJudgementPerJob, DraftingTypeOK
  <1>7. /\ lost \subseteq lost'
        /\ \A u \in Tasks : u # t =>
             step'[u] = step[u] /\ got'[u] = got[u] /\ taskState'[u] = taskState[u]
        /\ \/ step'[t] = "hand" /\ taskState'[t] = "active"
           \/ /\ step'[t] = "idle" /\ taskState'[t] \in {"waiting", "fruitless"}
              /\ NextStage(t) \in lost'
    BY <1>1, <1>2, CommittedShape
  <1>8. /\ ListingsHold'
        /\ \A u \in Tasks : u # t => HasResult(u)' = HasResult(u) /\ (Accounted(u) => Accounted(u)')
    BY <1>1, <1>3, <1>7, StoreFrame
  <1>9. \A x \in Rows :
           /\ <<"score", x>> # t /\ <<"margin", x>> # t /\ <<"draft", x>> # t
           /\ x # r => <<"estimate", x>> # t
    BY <1>1
  <1>10. \A x \in Rows :
           /\ IsStored(x)' = IsStored(x) /\ Passed(x)' = Passed(x)
           /\ Pursued(x)' = Pursued(x)
           /\ LiveDrafts(x, Len(evaluations[x]))' = LiveDrafts(x, Len(evaluations[x]))
           /\ \A e : LiveDrafts(x, e)' = LiveDrafts(x, e)
    BY <1>3 DEF IsStored, Passed, Pursued, LiveDrafts
  <1>11. AsksHold'
    <2>1. step'[t] # "ask" /\ t[1] = "estimate"
      BY <1>1, <1>7
    <2>2. \A x \in Rows :
           /\ <<"score", x>> # t => (verdicts[x] = <<>> => verdicts'[x] = <<>>)
           /\ <<"estimate", x>> # t => (estimates[x] = 0 => estimates'[x] = 0)
           /\ <<"margin", x>> # t => (estimates[x] > 0 => estimates'[x] > 0)
           /\ <<"margin", x>> # t => (evaluations[x] = <<>> => evaluations'[x] = <<>>)
      BY <1>1, <1>3, <1>4, <1>5, <1>7, <1>9, <1>10
    <2>3. AsksHold
      BY DEF TaskInv
    <2> QED BY <1>3, <1>7, <1>10, <2>1, <2>2, <2>3, AsksAfter
  <1>12. ResultsHold'
    <2>1. ASSUME NEW x \in Rows, IsStored(x)
          PROVE  /\ HasResult(<<"score", x>>)' => verdicts[x] # <<>>
                 /\ HasResult(<<"estimate", x>>)' => estimates'[x] > 0
                 /\ HasResult(<<"margin", x>>)' => evaluations[x] # <<>>
                 /\ HasResult(<<"draft", x>>)' => proposals[x] # <<>>
      <3>1. /\ HasResult(<<"score", x>>)' = HasResult(<<"score", x>>)
            /\ x # r => HasResult(<<"estimate", x>>)' = HasResult(<<"estimate", x>>)
            /\ HasResult(<<"margin", x>>)' = HasResult(<<"margin", x>>)
            /\ HasResult(<<"draft", x>>)' = HasResult(<<"draft", x>>)
        BY <1>8, <1>9, ResultsElsewhere
      <3> QED BY <1>5, <2>1, <3>1 DEF TaskInv, ResultsHold
    <2> QED BY <1>3, <1>10, <2>1 DEF ResultsHold
  <1>13. Accounted(<<"margin", r>>)'
    BY <1>1, <1>7, FollowIsAccounted, NextStages
  <1>14. ChainUnbroken'
    BY <1>3, <1>5, <1>8, <1>9, <1>10, <1>13, TaskParts DEF TaskInv, ChainUnbroken
  <1>15. JudgedInv'
    <2>1. DraftsHold' /\ BidPricedAsJudged'
      BY <1>3 DEF JudgedInv, DraftsHold, BidPricedAsJudged
    <2>2. ASSUME NEW x \in Rows
          PROVE  /\ (\A e \in DOMAIN evaluations[x] : Cardinality(LiveDrafts(x, e)) <= 1)'
                 /\ estimates'[x] <= 1 /\ Len(evaluations'[x]) <= estimates'[x]
                 /\ ~IsStored(x)' => estimates'[x] = 0
      <3>1. \A e \in DOMAIN evaluations[x] : Cardinality(LiveDrafts(x, e)) <= 1
        BY DEF JudgedInv, OneJudgementPerJob
      <3>2. (\A e \in DOMAIN evaluations[x] : Cardinality(LiveDrafts(x, e)) <= 1)'
        BY <1>3, <1>10, <3>1
      <3>3. /\ estimates[x] <= 1 /\ Len(evaluations[x]) <= estimates[x]
            /\ ~IsStored(x) => estimates[x] = 0
        BY DEF JudgedInv, OneJudgementPerJob
      <3>4. /\ estimates'[x] <= 1 /\ Len(evaluations[x]) <= estimates'[x]
            /\ ~IsStored(x)' => estimates'[x] = 0
        <4>1. IsStored(x)' = IsStored(x)
          BY <1>10
        <4>2. CASE x = r
          BY <1>1, <1>5, <1>6, <4>1, <4>2
        <4>3. CASE x # r
          BY <1>5, <3>3, <4>1, <4>3
        <4> QED BY <4>2, <4>3
      <3> QED BY <1>3, <3>2, <3>4
    <2>3. \A x \in Rows : /\ Len(verdicts'[x]) <= 1
                          /\ ~IsStored(x)' => verdicts'[x] = <<>> /\ proposals'[x] = <<>>
      BY <1>3, <1>10 DEF JudgedInv, OneJudgementPerJob
    <2>4. OneJudgementPerJob'
      BY <2>2, <2>3 DEF OneJudgementPerJob
    <2> QED BY <2>1, <2>4 DEF JudgedInv
  <1> QED BY <1>5, <1>8, <1>11, <1>12, <1>14, <1>15 DEF TaskInv

\* Storing an evaluation keeps both invariants.
LEMMA StoreMarginHolds ==
  ASSUME DraftingTypeOK, TaskInv, JudgedInv, NEW t \in Tasks, StoreMargin(t)
  PROVE  TaskInv' /\ JudgedInv' /\ evaluations' \in [Rows -> Seq(Evaluation)]
  <1>1. PICK r \in Rows : r = t[2] /\ t = <<"margin", r>> /\ IsStored(r) /\ step[t] = "ask"
    BY TaskParts DEF StoreMargin, At
  <1>2. PICK k : k = (got[t] \in Passing)
    OBVIOUS
  <1>3. k \in BOOLEAN
    BY <1>2
  <1>4. PICK j : j = [estimate |-> estimates[r], budget |-> got[t], passed |-> k]
    OBVIOUS
  <1>5. PICK follows \in BOOLEAN : follows = (got[t] \in Passing /\ r \notin Upwork)
    OBVIOUS
  <1>6. evaluations' = [evaluations EXCEPT ![r] = Append(@, j)] /\ Committed(t, follows)
    BY <1>1, <1>4, <1>5, <1>2 DEF StoreMargin
  <1>7. UNCHANGED <<rows, stale, budget, verdicts, estimates, proposals, owed>>
    BY DEF StoreMargin, rowVars
  <1>8. estimates[r] > 0 /\ evaluations[r] = <<>> /\ got[t] \in Budgets
    BY <1>1 DEF TaskInv, AsksHold
  <1>9. j \in Evaluation /\ (j.passed <=> got[t] \in Passing)
    BY <1>4, <1>8, <1>2, <1>3 DEF Evaluation, DraftingTypeOK
  <1>10. PICK v : v = Append(<<>>, j)
    OBVIOUS
  <1>11. v \in Seq(Evaluation) /\ v # <<>> /\ Len(v) = 1 /\ v[1] = j /\ DOMAIN v = 1..1
    BY <1>9, <1>10
  <1>12. evaluations'[r] = v /\ evaluations' \in [Rows -> Seq(Evaluation)]
        /\ \A x \in Rows \ {r} : evaluations'[x] = evaluations[x]
    BY <1>6, <1>8, <1>11, <1>10 DEF DraftingTypeOK
  <1>13. (Passed(r)' <=> got[t] \in Passing) /\ ~Passed(r) /\ \A x \in Rows \ {r} : Passed(x)' = Passed(x)
    BY <1>8, <1>9, <1>11, <1>12 DEF Passed
  <1>14. DOMAIN proposals[r] = {}
    <2>1. DOMAIN evaluations[r] = {}
      BY <1>8
    <2> QED BY <2>1 DEF JudgedInv, DraftsHold
  <1>15. /\ lost \subseteq lost'
         /\ \A u \in Tasks : u # t =>
              step'[u] = step[u] /\ got'[u] = got[u] /\ taskState'[u] = taskState[u]
         /\ \/ follows /\ step'[t] = "hand" /\ taskState'[t] = "active"
            \/ ~follows /\ step'[t] = "idle" /\ taskState'[t] = "finished"
            \/ /\ step'[t] = "idle" /\ taskState'[t] \in {"waiting", "fruitless"}
               /\ follows => NextStage(t) \in lost'
    BY <1>1, <1>6, CommittedShape
  <1>16. /\ ListingsHold'
         /\ \A u \in Tasks : u # t => HasResult(u)' = HasResult(u) /\ (Accounted(u) => Accounted(u)')
    BY <1>1, <1>7, <1>15, StoreFrame
  <1>17. \A x \in Rows :
           /\ <<"score", x>> # t /\ <<"estimate", x>> # t /\ <<"draft", x>> # t
           /\ x # r => <<"margin", x>> # t
    BY <1>1
  <1>18. \A x \in Rows : /\ IsStored(x)' = IsStored(x) /\ Pursued(x)' = Pursued(x)
                         /\ \A e : LiveDrafts(x, e)' = LiveDrafts(x, e)
    BY <1>7 DEF IsStored, Pursued, LiveDrafts
  <1>19. AsksHold'
    <2>1. ASSUME NEW x \in Rows \ {r}
          PROVE  LiveDrafts(x, Len(evaluations[x]))' = LiveDrafts(x, Len(evaluations[x]))
      <3>1. evaluations'[x] = evaluations[x] /\ proposals'[x] = proposals[x]
        BY <1>7, <1>12
      <3> QED BY <3>1 DEF LiveDrafts
    <2>2. step'[t] # "ask" /\ t[1] = "margin"
      BY <1>1, <1>15
    <2>3. \A x \in Rows :
           /\ <<"margin", x>> # t => (evaluations[x] = <<>> => evaluations'[x] = <<>>)
           /\ Passed(x) => (Passed(x)' /\ LiveDrafts(x, Len(evaluations[x]))' = LiveDrafts(x, Len(evaluations[x])))
      BY <1>1, <1>12, <1>13, <2>1
    <2>4. AsksHold
      BY DEF TaskInv
    <2> QED BY <1>7, <1>15, <2>2, <2>3, <2>4, AsksAfter
  <1>20. ResultsHold'
    BY <1>1, <1>7, <1>11, <1>12, <1>16, <1>17, <1>18, ResultsElsewhere DEF TaskInv, ResultsHold
  <1>21. follows => Accounted(<<"draft", r>>)'
    BY <1>1, <1>15, FollowIsAccounted, NextStages
  <1>22. ChainUnbroken'
    <2>1. ASSUME NEW x \in Rows, IsStored(x)
          PROVE  /\ verdicts[x] = <<>> => Accounted(<<"score", x>>)'
                 /\ Pursued(x) /\ estimates[x] = 0 => Accounted(<<"estimate", x>>)'
                 /\ x # r => (Passed(x) /\ x \notin Upwork /\ proposals[x] = <<>> => Accounted(<<"draft", x>>)')
                 /\ x # r => (estimates[x] > 0 /\ evaluations[x] = <<>> => Accounted(<<"margin", x>>)')
      <3>1. /\ Accounted(<<"score", x>>) => Accounted(<<"score", x>>)'
            /\ Accounted(<<"estimate", x>>) => Accounted(<<"estimate", x>>)'
            /\ Accounted(<<"draft", x>>) => Accounted(<<"draft", x>>)'
            /\ x # r => (Accounted(<<"margin", x>>) => Accounted(<<"margin", x>>)')
        BY <1>16, <1>17, TaskParts
      <3> QED BY <2>1, <3>1 DEF TaskInv, ChainUnbroken
    <2>2. evaluations'[r] # <<>> /\ (Passed(r)' /\ r \notin Upwork => Accounted(<<"draft", r>>)')
      BY <1>5, <1>11, <1>12, <1>13, <1>21
    <2> QED BY <1>7, <1>12, <1>13, <1>18, <2>1, <2>2 DEF ChainUnbroken
  <1>23. DraftsHold'
    BY <1>7, <1>12, <1>14 DEF JudgedInv, DraftsHold
  <1>24. BidPricedAsJudged'
    BY <1>7, <1>12, <1>14 DEF JudgedInv, BidPricedAsJudged
  <1>25. OneJudgementPerJob'
    <2>1. Cardinality(LiveDrafts(r, 1)) <= 1
      <3>1. LiveDrafts(r, 1) = {}
        BY <1>14 DEF LiveDrafts
      <3> QED BY <3>1, FS_EmptySet
    <2>2. Len(v) <= estimates[r] /\ \A e \in DOMAIN v : e = 1
      BY <1>8, <1>11 DEF DraftingTypeOK
    <2> QED BY <1>1, <1>7, <1>12, <1>18, <2>1, <2>2 DEF JudgedInv, OneJudgementPerJob
  <1> QED BY <1>12, <1>16, <1>19, <1>20, <1>22, <1>23, <1>24, <1>25 DEF TaskInv, JudgedInv

\* Storing a draft keeps both invariants, and is the only one in play.
LEMMA StoreDraftHolds ==
  ASSUME DraftingTypeOK, TaskInv, JudgedInv, NEW t \in Tasks, StoreDraft(t)
  PROVE  /\ TaskInv' /\ JudgedInv' /\ proposals' \in [Rows -> Seq(Proposal)]
         /\ DOMAIN proposals'[t[2]] = DOMAIN proposals[t[2]] \cup {Len(proposals[t[2]]) + 1}
         /\ \A x \in Rows \ {t[2]} : proposals'[x] = proposals[x]
  <1>1. PICK r \in Rows : r = t[2] /\ t = <<"draft", r>> /\ IsStored(r) /\ step[t] = "ask"
    BY TaskParts DEF StoreDraft, At
  <1>2. UNCHANGED <<rows, stale, budget, verdicts, estimates, evaluations, owed>>
    BY DEF StoreDraft, rowVars
  <1>3. Passed(r) /\ LiveDrafts(r, Len(evaluations[r])) = {} /\ r \notin Upwork
    BY <1>1 DEF TaskInv, AsksHold
  <1>4. PICK e : e = Len(evaluations[r])
    OBVIOUS
  <1>5. e \in DOMAIN evaluations[r] /\ e \in Nat /\ evaluations[r][e] \in Evaluation /\ evaluations[r][e].passed
    <2>1. PICK z \in Seq(Evaluation) : z = evaluations[r]
      BY DEF DraftingTypeOK
    <2>2. z # <<>> /\ z[Len(z)].passed
      BY <1>3, <2>1 DEF Passed
    <2>3. Len(z) \in DOMAIN z /\ Len(z) \in Nat /\ z[Len(z)] \in Evaluation
      BY <2>2
    <2> QED BY <1>4, <2>1, <2>2, <2>3
  <1>6. PICK a \in Budgets : a = evaluations[r][e].budget
    BY <1>5 DEF Evaluation
  <1>7. PICK d : d = [evaluation |-> e, amount |-> a, live |-> TRUE]
    OBVIOUS
  <1>8. d \in Proposal /\ d.evaluation = e /\ d.amount = a
    BY <1>5, <1>7 DEF Proposal
  <1>9. proposals' = [proposals EXCEPT ![r] = Append(@, d)] /\ Committed(t, FALSE)
    BY <1>1, <1>4, <1>6, <1>7 DEF StoreDraft
  <1>10. PICK o \in Seq(Proposal) : o = proposals[r]
    BY DEF DraftingTypeOK
  <1>11. PICK z : z = Append(o, d)
    OBVIOUS
  <1>12. PICK n \in Nat : n = Len(o) /\ DOMAIN o = 1..n
    BY <1>10
  <1>13. /\ z \in Seq(Proposal) /\ DOMAIN z = DOMAIN o \cup {n + 1} /\ z # <<>>
         /\ z[n + 1] = d /\ \A j \in DOMAIN o : z[j] = o[j]
    BY <1>8, <1>10, <1>11, <1>12
  <1>14. proposals'[r] = z /\ proposals' \in [Rows -> Seq(Proposal)]
         /\ \A x \in Rows \ {r} : proposals'[x] = proposals[x]
    BY <1>9, <1>10, <1>11, <1>13 DEF DraftingTypeOK
  <1>15. /\ lost \subseteq lost'
         /\ \A u \in Tasks : u # t =>
              step'[u] = step[u] /\ got'[u] = got[u] /\ taskState'[u] = taskState[u]
         /\ step'[t] = "idle" /\ taskState'[t] \in {"finished", "waiting", "fruitless"}
    BY <1>1, <1>9, CommittedShape
  <1>16. /\ ListingsHold'
         /\ \A u \in Tasks : u # t => HasResult(u)' = HasResult(u) /\ (Accounted(u) => Accounted(u)')
    BY <1>1, <1>2, <1>15, StoreFrame
  <1>17. \A x \in Rows :
           /\ <<"score", x>> # t /\ <<"estimate", x>> # t /\ <<"margin", x>> # t
           /\ x # r => <<"draft", x>> # t
    BY <1>1
  <1>18. \A x \in Rows :
           IsStored(x)' = IsStored(x) /\ Pursued(x)' = Pursued(x) /\ Passed(x)' = Passed(x)
    BY <1>2 DEF IsStored, Pursued, Passed
  <1>19. \A x \in Rows \ {r} : \A k : LiveDrafts(x, k)' = LiveDrafts(x, k)
    BY <1>14 DEF LiveDrafts
  <1>20. AsksHold'
    <2>1. ASSUME NEW x \in Rows \ {r}
          PROVE  LiveDrafts(x, Len(evaluations[x]))' = LiveDrafts(x, Len(evaluations[x]))
      <3>1. evaluations'[x] = evaluations[x] /\ proposals'[x] = proposals[x]
        BY <1>2, <1>14
      <3> QED BY <3>1 DEF LiveDrafts
    <2>2. step'[t] # "ask" /\ step'[t] # "hand"
      BY <1>15
    <2>3. \A x \in Rows :
            /\ verdicts'[x] = verdicts[x] /\ estimates'[x] = estimates[x] /\ evaluations'[x] = evaluations[x]
            /\ <<"draft", x>> # t => LiveDrafts(x, Len(evaluations[x]))' = LiveDrafts(x, Len(evaluations[x]))
      BY <1>1, <1>2, <2>1
    <2>4. AsksHold
      BY DEF TaskInv
    <2>5. \A x \in Rows :
            /\ <<"score", x>> # t => (verdicts[x] = <<>> => verdicts'[x] = <<>>)
            /\ <<"estimate", x>> # t => (estimates[x] = 0 => estimates'[x] = 0)
            /\ <<"margin", x>> # t => (estimates[x] > 0 => estimates'[x] > 0)
            /\ <<"margin", x>> # t => (evaluations[x] = <<>> => evaluations'[x] = <<>>)
            /\ <<"draft", x>> # t => (Passed(x) => Passed(x)')
            /\ <<"draft", x>> # t /\ Passed(x) =>
                 (LiveDrafts(x, Len(evaluations[x])) = {} => LiveDrafts(x, Len(evaluations[x]))' = {})
      BY <1>18, <2>3
    <2> QED BY <1>2, <1>15, <2>2, <2>4, <2>5, AsksAfter
  <1>21. ResultsHold'
    BY <1>1, <1>2, <1>13, <1>14, <1>16, <1>17, <1>18, ResultsElsewhere DEF TaskInv, ResultsHold
  <1>22. ChainUnbroken'
    BY <1>2, <1>13, <1>14, <1>16, <1>17, <1>18, TaskParts DEF TaskInv, ChainUnbroken
  <1>23. DraftsHold'
    <2>1. \A j \in DOMAIN z : z[j].evaluation \in DOMAIN evaluations[r]
      BY <1>5, <1>8, <1>10, <1>13 DEF JudgedInv, DraftsHold
    <2> QED BY <1>2, <1>14, <2>1 DEF JudgedInv, DraftsHold
  <1>24. BidPricedAsJudged'
    <2>1. \A j \in DOMAIN z :
            /\ evaluations[r][z[j].evaluation].passed
            /\ z[j].amount = evaluations[r][z[j].evaluation].budget
      BY <1>5, <1>6, <1>8, <1>10, <1>13 DEF JudgedInv, BidPricedAsJudged
    <2> QED BY <1>2, <1>3, <1>14, <2>1 DEF JudgedInv, BidPricedAsJudged
  <1>25. OneJudgementPerJob'
    <2>1. ASSUME NEW k \in DOMAIN evaluations[r]
          PROVE  Cardinality(LiveDrafts(r, k)') <= 1
      <3>1. LiveDrafts(r, k)' = {j \in DOMAIN z : z[j].live /\ z[j].evaluation = k}
        BY <1>14 DEF LiveDrafts
      <3>2. LiveDrafts(r, k) = {j \in DOMAIN o : o[j].live /\ o[j].evaluation = k}
        BY <1>10 DEF LiveDrafts
      <3>3. CASE k = e
        <4>1. LiveDrafts(r, k)' \subseteq {n + 1}
          BY <1>3, <1>4, <1>13, <3>1, <3>2, <3>3
        <4>2. CASE LiveDrafts(r, k)' = {}
          BY <4>2, FS_EmptySet
        <4>3. CASE LiveDrafts(r, k)' = {n + 1}
          <5>1. Cardinality({n + 1}) = 1
            BY FS_Singleton
          <5> QED BY <4>3, <5>1
        <4> QED BY <4>1, <4>2, <4>3
      <3>4. CASE k # e
        <4>1. LiveDrafts(r, k)' = LiveDrafts(r, k)
          BY <1>8, <1>13, <3>1, <3>2, <3>4
        <4> QED BY <4>1 DEF JudgedInv, OneJudgementPerJob
      <3> QED BY <3>3, <3>4
    <2> QED BY <1>1, <1>2, <1>14, <1>18, <1>19, <2>1 DEF JudgedInv, OneJudgementPerJob
  <1> QED BY <1>1, <1>10, <1>12, <1>13, <1>14, <1>16, <1>20, <1>21, <1>22, <1>23, <1>24, <1>25
          DEF TaskInv, JudgedInv

-----------------------------------------------------------------------------
\* Every step.
LEMMA GivesUpHolds ==
  ASSUME DraftingTypeOK, TaskInv, NEW t \in Tasks, step[t] \notin {"idle", "hand"},
         End(t) \/ Throw(t),
         UNCHANGED <<rows, stale, budget, verdicts, estimates, evaluations, proposals, owed, lost>>
  PROVE  TaskInv'
  <1>1. PICK st \in {"waiting", "fruitless"} : Leave(t, st)
    BY EndLeaves, ThrowLeaves
  <1>2. Forsakes(t) \subseteq lost'
    BY DEF Forsakes
  <1> QED BY <1>1, <1>2, QuitHolds

\* Metering a request before it is made keeps the invariant of jobs.
LEMMA MeterHolds ==
  ASSUME DraftingTypeOK, TaskInv, NEW t \in Tasks, step[t] = "load", Meter(t),
         UNCHANGED <<rows, stale, budget, verdicts, estimates, evaluations, proposals, owed, lost>>,
         \/ t[1] = "score" /\ verdicts[t[2]] = <<>>
         \/ /\ t[1] = "draft" /\ t[2] \notin Upwork
            /\ Passed(t[2]) /\ LiveDrafts(t[2], Len(evaluations[t[2]])) = {}
  PROVE  TaskInv'
  <1>1. CASE Goto(t, "ask")
    BY <1>1, AskHolds DEF Goto, taskVars
  <1>2. CASE Throw(t) \/ End(t)
    BY <1>2, GivesUpHolds
  <1> QED BY <1>1, <1>2 DEF Meter

\* Loading, at each of the four stages, keeps the invariant of jobs.
LEMMA LoadsHold ==
  ASSUME DraftingTypeOK, TaskInv, NEW t \in Tasks,
         LoadScore(t) \/ LoadEstimate(t) \/ LoadMargin(t) \/ LoadDraft(t)
  PROVE  TaskInv'
  <1>1. UNCHANGED <<rows, stale, budget, verdicts, estimates, evaluations, proposals, owed, lost>>
    BY DEF LoadScore, LoadEstimate, LoadMargin, LoadDraft, OnlyTheAttempt, rowVars, judgedVars
  <1>2. step[t] = "load"
    BY DEF LoadScore, LoadEstimate, LoadMargin, LoadDraft, At
  <1>3. ASSUME Return(t), IsStored(t[2]) => Judged(t) PROVE TaskInv'
    BY <1>1, <1>2, <1>3, ReturnLeaves, ReturnHolds
  <1>4. ASSUME End(t) PROVE TaskInv'
    BY <1>1, <1>2, <1>4, GivesUpHolds
  <1>5. CASE LoadScore(t)
    <2>1. t[1] = "score"
      BY <1>5 DEF LoadScore, At
    <2>2. \/ End(t)
          \/ verdicts[t[2]] # <<>> /\ Return(t)
          \/ verdicts[t[2]] = <<>> /\ Meter(t)
      BY <1>5 DEF LoadScore
    <2>3. CASE verdicts[t[2]] # <<>> /\ Return(t)
      BY <1>3, <2>1, <2>3 DEF Judged
    <2>4. CASE verdicts[t[2]] = <<>> /\ Meter(t)
      BY <1>1, <1>2, <2>1, <2>4, MeterHolds
    <2> QED BY <1>4, <2>2, <2>3, <2>4
  <1>6. CASE LoadEstimate(t)
    <2>1. t[1] = "estimate"
      BY <1>6 DEF LoadEstimate, At
    <2>2. \/ End(t)
          \/ estimates[t[2]] > 0 /\ Return(t)
          \/ estimates[t[2]] = 0 /\ Goto(t, "ask")
      BY <1>6 DEF LoadEstimate
    <2>3. CASE estimates[t[2]] > 0 /\ Return(t)
      BY <1>3, <2>1, <2>3 DEF Judged
    <2>4. CASE estimates[t[2]] = 0 /\ Goto(t, "ask")
      BY <1>1, <1>2, <2>1, <2>4, AskHolds DEF Goto, taskVars
    <2> QED BY <1>4, <2>2, <2>3, <2>4
  <1>7. CASE LoadMargin(t)
    <2>1. t[1] = "margin" /\ t[2] \in Rows
      BY <1>7, TaskParts DEF LoadMargin, At
    <2>2. \/ End(t)
          \/ evaluations[t[2]] # <<>> /\ Return(t)
          \/ /\ IsStored(t[2]) /\ estimates[t[2]] > 0 /\ evaluations[t[2]] = <<>>
             /\ got' = [got EXCEPT ![t] = budget[t[2]]]
             /\ step' = [step EXCEPT ![t] = "ask"] /\ UNCHANGED taskState
      BY <1>7 DEF LoadMargin, taskVars
    <2>3. CASE evaluations[t[2]] # <<>> /\ Return(t)
      BY <1>3, <2>1, <2>3 DEF Judged
    <2>4. CASE /\ IsStored(t[2]) /\ estimates[t[2]] > 0 /\ evaluations[t[2]] = <<>>
               /\ got' = [got EXCEPT ![t] = budget[t[2]]]
               /\ step' = [step EXCEPT ![t] = "ask"] /\ UNCHANGED taskState
      <3>1. budget[t[2]] \in Budgets
        BY <2>1, <2>4 DEF TaskInv, ListingsHold
      <3>2. got'[t] \in Budgets /\ \A u \in Tasks : u # t => got'[u] = got[u]
        BY <2>4, <3>1 DEF DraftingTypeOK
      <3> QED BY <1>1, <1>2, <2>1, <2>4, <3>2, AskHolds
    <2> QED BY <1>4, <2>2, <2>3, <2>4
  <1>8. CASE LoadDraft(t)
    <2>1. t[1] = "draft" /\ t[2] \in Rows
      BY <1>8, TaskParts DEF LoadDraft, At
    <2>2. \/ End(t)
          \/ LiveDrafts(t[2], Len(evaluations[t[2]])) # {} /\ Return(t)
          \/ /\ t[2] \notin Upwork /\ Passed(t[2])
             /\ LiveDrafts(t[2], Len(evaluations[t[2]])) = {} /\ Meter(t)
      BY <1>8 DEF LoadDraft
    <2>3. CASE LiveDrafts(t[2], Len(evaluations[t[2]])) # {} /\ Return(t)
      <3>1. proposals[t[2]] # <<>>
        BY <2>3 DEF LiveDrafts
      <3> QED BY <1>3, <2>1, <2>3, <3>1 DEF Judged
    <2>4. CASE /\ t[2] \notin Upwork /\ Passed(t[2])
               /\ LiveDrafts(t[2], Len(evaluations[t[2]])) = {} /\ Meter(t)
      BY <1>1, <1>2, <2>1, <2>4, MeterHolds
    <2> QED BY <1>4, <2>2, <2>3, <2>4
  <1> QED BY <1>5, <1>6, <1>7, <1>8

\* So does every way an attempt goes wrong, or ends.
LEMMA AttemptsHold ==
  ASSUME DraftingTypeOK, TaskInv, NEW t \in Tasks,
         Useless(t) \/ Unreached(t) \/ Refused(t) \/ Finish(t) \/ QueryFails(t) \/ Crash(t)
  PROVE  TaskInv'
  <1>1. UNCHANGED <<rows, stale, budget, verdicts, estimates, evaluations, proposals, owed>>
    BY DEF Useless, Unreached, Refused, Finish, QueryFails, Crash, OnlyTheAttempt, rowVars, judgedVars
  <1>2. CASE Useless(t) \/ Unreached(t) \/ Refused(t)
    <2>1. step[t] = "ask" /\ (End(t) \/ Throw(t)) /\ UNCHANGED lost
      BY <1>2 DEF Useless, Unreached, Refused, OnlyTheAttempt
    <2> QED BY <1>1, <2>1, GivesUpHolds
  <1>3. CASE Finish(t)
    <2>1. step[t] = "done" /\ Return(t) /\ UNCHANGED lost
      BY <1>3 DEF Finish, OnlyTheAttempt
    <2>2. PICK s \in Stages, r \in Rows : t = <<s, r>> /\ s = t[1] /\ r = t[2]
      BY TaskParts
    <2>3. HasResult(t)
      BY <2>1 DEF HasResult
    <2>4. IsStored(t[2]) => Judged(t)
      BY <2>2, <2>3 DEF TaskInv, ResultsHold, Judged
    <2> QED BY <1>1, <2>1, <2>4, ReturnLeaves, ReturnHolds
  <1>4. CASE QueryFails(t) \/ Crash(t)
    <2>1. step[t] # "idle" /\ lost' = lost \cup Forsakes(t)
      BY <1>4 DEF QueryFails, Crash
    <2>2. PICK st \in {"waiting", "fruitless"} : Leave(t, st)
      BY <1>4, ThrowLeaves, EndLeaves DEF QueryFails, Crash
    <2> QED BY <1>1, <2>1, <2>2, QuitHolds
  <1> QED BY <1>2, <1>3, <1>4

\* Every step keeps the invariants of jobs and of what is stored.
LEMMA DraftingStepHolds ==
  ASSUME DraftingTypeOK, TaskInv, JudgedInv, DraftingNext
  PROVE  TaskInv' /\ JudgedInv'
  <1>1. ASSUME NEW r \in Rows, NEW b \in Budgets, FindNew(r, b) \/ FindAgain(r, b)
        PROVE  TaskInv' /\ JudgedInv'
    BY <1>1, ListingsSteps
  <1>2. ASSUME NEW r \in Rows, DayPasses(r) \/ RequestScore(r) \/ RequestDraft(r)
        PROVE  TaskInv' /\ JudgedInv'
    <2>1. CASE Budgets = {}
      \* No row is there without a budget.
      BY <1>2, <2>1 DEF TaskInv, ListingsHold, DayPasses, RequestScore, RequestDraft
    <2>2. CASE Budgets # {}
      BY <1>2, <2>2, ListingsSteps
    <2> QED BY <2>1, <2>2
  <1>3. CASE PurgeUpwork
    BY <1>3, PurgeHolds
  <1>4. ASSUME NEW r \in Rows, RejectDraft(r)
        PROVE  TaskInv' /\ JudgedInv'
    BY <1>4, RejectHolds
  <1>5. ASSUME NEW m \in Metered, OthersUse(m)
        PROVE  TaskInv' /\ JudgedInv'
    BY <1>5, OthersUseHolds DEF OthersUse
  <1>6. ASSUME NEW t \in Tasks, HandOwed(t) \/ LoseOwed(t) \/ Take(t) \/ HandOn(t)
        PROVE  TaskInv' /\ JudgedInv'
    <2>1. UNCHANGED <<rows, verdicts, estimates, evaluations, proposals>>
      BY <1>6 DEF HandOwed, LoseOwed, Take, HandOn, rowVars, judgedVars
    <2> QED BY <1>6, <2>1, HandOwedHolds, QueueHolds, HandOnHolds, JudgedStays
  <1>7. ASSUME NEW t \in Tasks, LoadScore(t) \/ LoadEstimate(t) \/ LoadMargin(t) \/ LoadDraft(t)
        PROVE  TaskInv' /\ JudgedInv'
    <2>1. UNCHANGED <<rows, verdicts, estimates, evaluations, proposals>>
      BY <1>7 DEF LoadScore, LoadEstimate, LoadMargin, LoadDraft, OnlyTheAttempt, rowVars, judgedVars
    <2> QED BY <1>7, <2>1, LoadsHold, JudgedStays
  <1>8. ASSUME NEW t \in Tasks,
               Useless(t) \/ Unreached(t) \/ Refused(t) \/ Finish(t) \/ QueryFails(t) \/ Crash(t)
        PROVE  TaskInv' /\ JudgedInv'
    <2>1. UNCHANGED <<rows, verdicts, estimates, evaluations, proposals>>
      BY <1>8 DEF Useless, Unreached, Refused, Finish, QueryFails, Crash, OnlyTheAttempt, rowVars, judgedVars
    <2> QED BY <1>8, <2>1, AttemptsHold, JudgedStays
  <1>9. ASSUME NEW t \in Tasks, StoreScore(t) \/ StoreEstimate(t) \/ StoreMargin(t) \/ StoreDraft(t)
        PROVE  TaskInv' /\ JudgedInv'
    BY <1>9, StoreScoreHolds, StoreEstimateHolds, StoreMarginHolds, StoreDraftHolds
  <1> QED BY <1>1, <1>2, <1>3, <1>4, <1>5, <1>6, <1>7, <1>8, <1>9 DEF DraftingNext, Work

-----------------------------------------------------------------------------
\* Types.
LEMMA MeterTyped ==
  ASSUME DraftingTypeOK, NEW t \in Tasks, t[1] \in Metered, step[t] = "load", Meter(t)
  PROVE  /\ used' \in [Metered -> 0..Limit]
         /\ step' \in [Tasks -> Steps] /\ got' \in [Tasks -> Budgets \cup {NoBudget}]
         /\ taskState' \in [Tasks -> TaskStates]
         /\ attempts' \in [Tasks -> 0..(Attempts - 1)]
         /\ requests' \in 0..MaxRequests /\ faults' \in 0..MaxFaults
         /\ \A u \in Tasks : taskState'[u] = "active" <=> step'[u] # "idle"
  <1>1. ASSUME used[t[1]] < Limit, used' = [used EXCEPT ![t[1]] = @ + 1]
        PROVE  used' \in [Metered -> 0..Limit]
    BY <1>1, DraftingAssumption DEF DraftingTypeOK
  <1>2. ASSUME Fault
        PROVE  requests' \in 0..MaxRequests /\ faults' \in 0..MaxFaults
    BY <1>2, DraftingAssumption DEF Fault, DraftingTypeOK
  <1>3. CASE /\ used[t[1]] < Limit /\ used' = [used EXCEPT ![t[1]] = @ + 1]
             /\ Goto(t, "ask") /\ UNCHANGED bounds
    <2>1. "ask" \in Steps \ {"idle"}
      BY DEF Steps
    <2>2. step' = [step EXCEPT ![t] = "ask"] /\ UNCHANGED <<got, taskState, attempts, requests, faults>>
      BY <1>3 DEF Goto, taskVars, bounds
    <2> QED BY <1>1, <1>3, <2>1, <2>2, GotoShape DEF DraftingTypeOK
  <1>4. CASE /\ used[t[1]] < Limit /\ used' = [used EXCEPT ![t[1]] = @ + 1]
             /\ Throw(t) /\ Fault
    <2>1. PICK st \in {"waiting", "fruitless"} : Leave(t, st)
      BY <1>4, ThrowLeaves
    <2> QED BY <1>1, <1>2, <1>4, <2>1, ThrowLeaves, LeaveShape
  <1>5. CASE End(t) /\ UNCHANGED <<used, bounds>>
    BY <1>5, EndLeaves, LeaveShape DEF bounds, DraftingTypeOK
  <1> QED BY <1>3, <1>4, <1>5 DEF Meter

\* Finding, ageing and asking for a listing keeps the types.
LEMMA ListingsTyped ==
  ASSUME DraftingTypeOK, NEW r \in Rows, NEW b \in Budgets,
         \/ FindNew(r, b) \/ FindAgain(r, b) \/ DayPasses(r)
         \/ RequestScore(r) \/ RequestDraft(r)
  PROVE  DraftingTypeOK'
  <1>1. <<"score", r>> \in Tasks /\ <<"draft", r>> \in Tasks
    BY TaskParts
  <1>2. CASE FindNew(r, b)
    BY <1>1, <1>2 DEF FindNew, DraftingTypeOK, RowStates, judgedVars, taskVars, stepVars, bounds,
                      Evaluation, Proposal
  <1>3. CASE FindAgain(r, b)
    <2>1. requests' \in 0..MaxRequests
      BY <1>3, DraftingAssumption DEF FindAgain, DraftingTypeOK
    <2> QED BY <1>3, <2>1 DEF FindAgain, DraftingTypeOK, judgedVars, taskVars, stepVars,
                              Evaluation, Proposal
  <1>4. CASE DayPasses(r)
    BY <1>4 DEF DayPasses, DraftingTypeOK, judgedVars, taskVars, stepVars, bounds, Evaluation, Proposal
  <1>5. CASE RequestScore(r) \/ RequestDraft(r)
    <2>1. /\ UNCHANGED <<rows, stale, budget, verdicts, estimates, evaluations, proposals, used,
                         taskState, attempts, step, got, lost, faults>>
          /\ requests < MaxRequests /\ requests' = requests + 1
          /\ owed' \subseteq Tasks
      BY <1>1, <1>5 DEF RequestScore, RequestDraft, DraftingTypeOK, rowVars, judgedVars, taskVars, stepVars
    <2>2. requests' \in 0..MaxRequests
      BY <2>1, DraftingAssumption DEF DraftingTypeOK
    <2> QED BY <2>1, <2>2 DEF DraftingTypeOK, Evaluation, Proposal
  <1> QED BY <1>2, <1>3, <1>4, <1>5

\* Removing old listings keeps the types.
LEMMA PurgeTyped ==
  ASSUME DraftingTypeOK, PurgeUpwork
  PROVE  DraftingTypeOK'
  <1>1. rows' \in [Rows -> RowStates]
    BY DEF PurgeUpwork, DraftingTypeOK, RowStates
  <1>2. verdicts' \in [Rows -> Seq(BOOLEAN)]
    <2>1. PICK B : B = BOOLEAN
      OBVIOUS
    <2>2. verdicts \in [Rows -> Seq(B)]
      BY <2>1 DEF DraftingTypeOK
    <2>3. verdicts' = [r \in Rows |-> IF r \in stale THEN <<>> ELSE verdicts[r]]
      BY DEF PurgeUpwork
    <2>4. verdicts' \in [Rows -> Seq(B)]
      BY <2>2, <2>3
    <2> QED BY <2>1, <2>4
  <1>3. estimates' \in [Rows -> Nat]
    BY DEF PurgeUpwork, DraftingTypeOK
  <1>4. evaluations' \in [Rows -> Seq(Evaluation)]
    <2>1. PICK E : E = Evaluation
      OBVIOUS
    <2>2. evaluations \in [Rows -> Seq(E)]
      BY <2>1 DEF DraftingTypeOK
    <2>3. evaluations' = [r \in Rows |-> IF r \in stale THEN <<>> ELSE evaluations[r]]
      BY DEF PurgeUpwork
    <2>4. evaluations' \in [Rows -> Seq(E)]
      BY <2>2, <2>3
    <2> QED BY <2>1, <2>4 DEF Evaluation
  <1> QED BY <1>1, <1>2, <1>3, <1>4
          DEF PurgeUpwork, DraftingTypeOK, taskVars, stepVars, bounds, Evaluation, Proposal

\* What others use of the plan keeps the types.
LEMMA OthersTyped ==
  ASSUME DraftingTypeOK, NEW m \in Metered, OthersUse(m)
  PROVE  DraftingTypeOK'
  <1>1. used' \in [Metered -> 0..Limit]
    BY DraftingAssumption DEF OthersUse, DraftingTypeOK
  <1> QED BY <1>1 DEF OthersUse, DraftingTypeOK, rowVars, judgedVars, taskVars, stepVars, bounds,
                      Evaluation, Proposal

\* What the queue does, and what an attempt does without judging.
LEMMA QueueTyped ==
  ASSUME DraftingTypeOK, NEW t \in Tasks,
         HandOwed(t) \/ LoseOwed(t) \/ Take(t) \/ HandOn(t)
  PROVE  DraftingTypeOK'
  <1>1. UNCHANGED <<rows, stale, budget, verdicts, estimates, evaluations, proposals, used, got, attempts>>
    BY DEF HandOwed, LoseOwed, Take, HandOn, rowVars, judgedVars, taskVars, stepVars
  <1>2. CASE HandOwed(t)
    <2>1. UNCHANGED <<step, lost, requests, faults>> /\ owed' \subseteq Tasks /\ Add(t)
      BY <1>2 DEF HandOwed, DraftingTypeOK, stepVars, bounds
    <2>2. taskState' \in [Tasks -> TaskStates] /\ \A u \in Tasks : taskState'[u] = "active" <=> step'[u] # "idle"
      BY <2>1, AddShape DEF DraftingTypeOK
    <2> QED BY <1>1, <2>1, <2>2 DEF DraftingTypeOK, Evaluation, Proposal
  <1>3. CASE LoseOwed(t)
    <2>1. /\ UNCHANGED <<step, taskState, requests>>
          /\ owed' \subseteq Tasks /\ lost' \subseteq Tasks /\ faults' \in 0..MaxFaults
      BY <1>3, DraftingAssumption DEF LoseOwed, Fault, DraftingTypeOK, taskVars, stepVars
    <2> QED BY <1>1, <2>1 DEF DraftingTypeOK, Evaluation, Proposal
  <1>4. CASE Take(t)
    <2>1. /\ UNCHANGED <<owed, lost, requests, faults>>
          /\ taskState' = [taskState EXCEPT ![t] = "active"] /\ step' = [step EXCEPT ![t] = "load"]
      BY <1>4 DEF Take, bounds
    <2>2. /\ taskState' \in [Tasks -> TaskStates] /\ step' \in [Tasks -> Steps]
          /\ \A u \in Tasks : taskState'[u] = "active" <=> step'[u] # "idle"
      BY <2>1 DEF DraftingTypeOK, TaskStates, Steps
    <2> QED BY <1>1, <2>1, <2>2 DEF DraftingTypeOK, Evaluation, Proposal
  <1>5. CASE HandOn(t)
    <2>1. /\ UNCHANGED <<owed, lost, requests, faults>> /\ step[t] = "hand"
          /\ Add(NextStage(t)) /\ step' = [step EXCEPT ![t] = "done"]
      BY <1>5 DEF HandOn, bounds
    <2>2. step' \in [Tasks -> Steps] /\ \A u \in Tasks : step'[u] # "idle" <=> step[u] # "idle"
      BY <2>1 DEF DraftingTypeOK, Steps
    <2>3. taskState' \in [Tasks -> TaskStates] /\ \A u \in Tasks : taskState'[u] = "active" <=> step'[u] # "idle"
      BY <2>1, <2>2, NextStageTyped, AddShape DEF DraftingTypeOK
    <2> QED BY <1>1, <2>1, <2>2, <2>3 DEF DraftingTypeOK, Evaluation, Proposal
  <1> QED BY <1>2, <1>3, <1>4, <1>5

\* Loading, at each of the four stages, keeps the types.
LEMMA LoadsTyped ==
  ASSUME DraftingTypeOK, TaskInv, NEW t \in Tasks,
         LoadScore(t) \/ LoadEstimate(t) \/ LoadMargin(t) \/ LoadDraft(t)
  PROVE  DraftingTypeOK'
  <1>1. UNCHANGED <<rows, stale, budget, verdicts, estimates, evaluations, proposals, owed, lost>>
    BY DEF LoadScore, LoadEstimate, LoadMargin, LoadDraft, OnlyTheAttempt, rowVars, judgedVars
  <1>2. step[t] = "load"
    BY DEF LoadScore, LoadEstimate, LoadMargin, LoadDraft, At
  <1>3. ASSUME End(t) \/ Return(t), UNCHANGED <<used, bounds>> PROVE DraftingTypeOK'
    <2>1. \E st \in {"finished", "fruitless"} : Leave(t, st)
      BY <1>3, ReturnLeaves, EndLeaves
    <2> QED BY <1>1, <1>3, <2>1, LeaveShape, ReturnLeaves, EndLeaves
            DEF DraftingTypeOK, bounds, Evaluation, Proposal
  <1>4. ASSUME t[1] \in Metered, Meter(t) PROVE DraftingTypeOK'
    BY <1>1, <1>2, <1>4, MeterTyped DEF DraftingTypeOK, Evaluation, Proposal
  <1>5. ASSUME step' = [step EXCEPT ![t] = "ask"], got' \in [Tasks -> Budgets \cup {NoBudget}],
               UNCHANGED <<taskState, attempts, used, requests, faults>>
        PROVE  DraftingTypeOK'
    <2>1. "ask" \in Steps \ {"idle"} /\ step[t] # "idle"
      BY <1>2 DEF Steps
    <2> QED BY <1>1, <1>5, <2>1, GotoShape DEF DraftingTypeOK, Evaluation, Proposal
  <1>6. CASE LoadScore(t)
    <2>1. t[1] \in Metered
      BY <1>6 DEF LoadScore, At, Metered
    <2> QED BY <1>3, <1>4, <1>6, <2>1 DEF LoadScore
  <1>7. CASE LoadEstimate(t)
    <2>1. UNCHANGED <<used, bounds>>
      BY <1>7 DEF LoadEstimate, OnlyTheAttempt
    <2>2. CASE Goto(t, "ask")
      BY <1>5, <2>1, <2>2 DEF Goto, taskVars, bounds, DraftingTypeOK
    <2> QED BY <1>3, <1>7, <2>1, <2>2 DEF LoadEstimate
  <1>8. CASE LoadMargin(t)
    <2>1. UNCHANGED <<used, bounds>>
      BY <1>8 DEF LoadMargin, OnlyTheAttempt
    <2>2. CASE /\ got' = [got EXCEPT ![t] = budget[t[2]]]
               /\ step' = [step EXCEPT ![t] = "ask"]
               /\ UNCHANGED taskVars
      <3>1. got' \in [Tasks -> Budgets \cup {NoBudget}]
        BY <2>2, TaskParts DEF DraftingTypeOK
      <3> QED BY <1>5, <2>1, <2>2, <3>1 DEF taskVars, bounds
    <2> QED BY <1>3, <1>8, <2>1, <2>2 DEF LoadMargin
  <1>9. CASE LoadDraft(t)
    <2>1. t[1] \in Metered
      BY <1>9 DEF LoadDraft, At, Metered
    <2> QED BY <1>3, <1>4, <1>9, <2>1 DEF LoadDraft
  <1> QED BY <1>6, <1>7, <1>8, <1>9

\* Every way an attempt goes wrong, or ends, keeps the types.
LEMMA AttemptsTyped ==
  ASSUME DraftingTypeOK, NEW t \in Tasks,
         Useless(t) \/ Unreached(t) \/ Refused(t) \/ Finish(t) \/ QueryFails(t) \/ Crash(t)
  PROVE  DraftingTypeOK'
  <1>1. UNCHANGED <<rows, stale, budget, verdicts, estimates, evaluations, proposals, owed>>
    BY DEF Useless, Unreached, Refused, Finish, QueryFails, Crash, OnlyTheAttempt, rowVars, judgedVars
  <1>2. \E st \in {"waiting", "finished", "fruitless"} : Leave(t, st)
    BY ReturnLeaves, EndLeaves, ThrowLeaves
       DEF Useless, Unreached, Refused, Finish, QueryFails, Crash
  <1>3. attempts' \in [Tasks -> 0..(Attempts - 1)]
    <2>1. CASE UNCHANGED attempts
      BY <2>1 DEF DraftingTypeOK
    <2>2. CASE Return(t) \/ End(t) \/ Throw(t)
      BY <2>2, ReturnLeaves, EndLeaves, ThrowLeaves
    <2> QED BY <2>1, <2>2 DEF Useless, Unreached, Refused, Finish, QueryFails, Crash
  <1>4. used' \in [Metered -> 0..Limit]
    <2>1. CASE Unreached(t)
      BY <2>1, DraftingAssumption DEF Unreached, DraftingTypeOK
    <2>2. CASE UNCHANGED used
      BY <2>2 DEF DraftingTypeOK
    <2> QED BY <2>1, <2>2 DEF Useless, Refused, Finish, QueryFails, Crash, OnlyTheAttempt
  <1>5. lost' \subseteq Tasks /\ requests' \in 0..MaxRequests /\ faults' \in 0..MaxFaults
    <2>1. CASE UNCHANGED <<lost, bounds>>
      BY <2>1 DEF DraftingTypeOK, bounds
    <2>2. CASE Fault /\ lost' = lost \cup Forsakes(t)
      BY <2>2, NextStageTyped, DraftingAssumption DEF Fault, Forsakes, DraftingTypeOK
    <2> QED BY <2>1, <2>2 DEF Useless, Unreached, Refused, Finish, QueryFails, Crash, OnlyTheAttempt
  <1> QED BY <1>1, <1>2, <1>3, <1>4, <1>5, LeaveShape DEF DraftingTypeOK, Evaluation, Proposal

\* Storing, at each of the four stages, keeps the types.
LEMMA StoresTyped ==
  ASSUME DraftingTypeOK, TaskInv, JudgedInv, NEW t \in Tasks,
         StoreScore(t) \/ StoreEstimate(t) \/ StoreMargin(t) \/ StoreDraft(t)
  PROVE  DraftingTypeOK'
  <1>1. UNCHANGED <<rows, stale, budget, used, owed>> /\ step[t] = "ask"
    BY DEF StoreScore, StoreEstimate, StoreMargin, StoreDraft, At, rowVars
  <1>2. \E follows \in BOOLEAN : Committed(t, follows)
    <2>1. CASE StoreMargin(t)
      <3>1. PICK f : f = (got[t] \in Passing /\ t[2] \notin Upwork)
        OBVIOUS
      <3>2. f \in BOOLEAN
        BY <3>1
      <3>3. Committed(t, f)
        BY <2>1, <3>1 DEF StoreMargin
      <3> QED BY <3>2, <3>3
    <2>2. CASE StoreScore(t)
      BY <2>2 DEF StoreScore
    <2>3. CASE StoreEstimate(t) \/ StoreDraft(t)
      BY <2>3 DEF StoreEstimate, StoreDraft
    <2> QED BY <2>1, <2>2, <2>3
  <1>3. /\ verdicts' \in [Rows -> Seq(BOOLEAN)]
        /\ estimates' \in [Rows -> Nat]
        /\ evaluations' \in [Rows -> Seq(Evaluation)]
        /\ proposals' \in [Rows -> Seq(Proposal)]
    <2>1. CASE StoreScore(t)
      BY <2>1, StoreScoreHolds DEF StoreScore, DraftingTypeOK
    <2>2. CASE StoreEstimate(t)
      BY <2>2, StoreEstimateHolds DEF StoreEstimate, DraftingTypeOK
    <2>3. CASE StoreMargin(t)
      BY <2>3, StoreMarginHolds DEF StoreMargin, DraftingTypeOK
    <2>4. CASE StoreDraft(t)
      BY <2>4, StoreDraftHolds DEF StoreDraft, DraftingTypeOK
    <2> QED BY <2>1, <2>2, <2>3, <2>4
  <1> QED BY <1>1, <1>2, <1>3, CommittedShape DEF DraftingTypeOK, Evaluation, Proposal

\* Every step of judging and drafting keeps the types.
LEMMA DraftingTyped ==
  ASSUME DraftingTypeOK, TaskInv, JudgedInv, DraftingNext
  PROVE  DraftingTypeOK'
  <1>1. ASSUME NEW r \in Rows, DayPasses(r) \/ RequestScore(r) \/ RequestDraft(r)
        PROVE  DraftingTypeOK'
    <2>1. PICK b \in Budgets : TRUE
      BY <1>1 DEF TaskInv, ListingsHold, DayPasses, RequestScore, RequestDraft
    <2> QED BY <1>1, <2>1, ListingsTyped
  <1>2. ASSUME NEW r \in Rows, RejectDraft(r)
        PROVE  DraftingTypeOK'
    BY <1>2, RejectHolds
       DEF RejectDraft, DraftingTypeOK, rowVars, taskVars, stepVars, bounds, Evaluation
  <1> QED BY <1>1, <1>2, ListingsTyped, PurgeTyped, OthersTyped, QueueTyped, LoadsTyped,
             AttemptsTyped, StoresTyped DEF DraftingNext, Work

-----------------------------------------------------------------------------
\* What was stored and what is being asked, counted.
LEMMA AskedFinite ==
  ASSUME NEW m
  PROVE  IsFiniteSet(AskedFor(m))
  BY DraftingAssumption, FS_Subset DEF AskedFor

\* The stored results of a kind are finitely many.
LEMMA StoredFinite ==
  ASSUME DraftingTypeOK, NEW m \in Metered
  PROVE  IsFiniteSet(StoredOf(m))
  <1> DEFINE Of(r) == {<<r, i>> : i \in DOMAIN Results(m, r)}
             All == {Of(r) : r \in Rows}
  <1>1. ASSUME NEW r \in Rows
        PROVE  IsFiniteSet(Of(r))
    <2>1. PICK n \in Nat : DOMAIN Results(m, r) = 1..n
      <3>1. CASE m = "score"
        <4>1. PICK z \in Seq(BOOLEAN) : z = verdicts[r]
          BY DEF DraftingTypeOK
        <4>2. Len(z) \in Nat /\ DOMAIN z = 1..Len(z)
          OBVIOUS
        <4> QED BY <3>1, <4>1, <4>2 DEF Results
      <3>2. CASE m # "score"
        <4>1. PICK z \in Seq(Proposal) : z = proposals[r]
          BY DEF DraftingTypeOK
        <4>2. Len(z) \in Nat /\ DOMAIN z = 1..Len(z)
          OBVIOUS
        <4> QED BY <3>2, <4>1, <4>2 DEF Results
      <3> QED BY <3>1, <3>2
    <2>2. IsFiniteSet(1..n)
      BY FS_Interval
    <2>3. [i \in 1..n |-> <<r, i>>] \in Surjection(1..n, Of(r))
      BY <2>1 DEF Surjection
    <2> QED BY <2>2, <2>3, FS_Surjection
  <1>2. [r \in Rows |-> Of(r)] \in Surjection(Rows, All)
    BY DEF Surjection
  <1>3. IsFiniteSet(All)
    BY <1>2, DraftingAssumption, FS_Surjection
  <1>4. IsFiniteSet(UNION All)
    <2>1. \A T \in All : IsFiniteSet(T)
      BY <1>1
    <2> HIDE DEF All
    <2> QED BY <1>3, <2>1, FS_UNION
  <1> QED BY <1>4 DEF StoredOf

\* The four things a step does to a count.
Fewer(m) ==
  StoredOf(m)' \subseteq StoredOf(m) /\ AskedFor(m)' \subseteq AskedFor(m) /\ used'[m] >= used[m]
Asks(m) == \E r :
  /\ StoredOf(m)' \subseteq StoredOf(m) /\ AskedFor(m)' \subseteq AskedFor(m) \cup {r}
  /\ used'[m] = used[m] + 1
GivesBack(m) == \E r \in AskedFor(m) :
  /\ StoredOf(m)' \subseteq StoredOf(m) /\ AskedFor(m)' \subseteq AskedFor(m) \ {r}
  /\ used'[m] >= used[m] - 1
Stores(m) == \E r \in AskedFor(m) : \E x :
  /\ StoredOf(m)' \subseteq StoredOf(m) \cup {x} /\ AskedFor(m)' \subseteq AskedFor(m) \ {r}
  /\ used'[m] = used[m]

\* Each of the four ways the counts move leaves them covered by the plan's
\* use.
LEMMA CountHolds ==
  ASSUME DraftingTypeOK, DraftingTypeOK', NEW m \in Metered,
         Cardinality(StoredOf(m)) + Cardinality(AskedFor(m)) <= used[m],
         Fewer(m) \/ Asks(m) \/ GivesBack(m) \/ Stores(m)
  PROVE  (Cardinality(StoredOf(m)) + Cardinality(AskedFor(m)) <= used[m])'
  <1> DEFINE S == StoredOf(m)
             A == AskedFor(m)
             S1 == StoredOf(m)'
             A1 == AskedFor(m)'
  <1>1. IsFiniteSet(S) /\ IsFiniteSet(A)
    BY StoredFinite, AskedFinite
  <1>2. Cardinality(S) \in Nat /\ Cardinality(A) \in Nat
    BY <1>1, FS_CardinalityType
  <1>3. used[m] \in Int /\ used'[m] \in Int
    BY DEF DraftingTypeOK
  <1>4. ASSUME S1 \subseteq S
        PROVE  Cardinality(S1) \in Nat /\ Cardinality(S1) <= Cardinality(S)
    BY <1>1, <1>4, FS_Subset, FS_CardinalityType
  <1>5. ASSUME A1 \subseteq A
        PROVE  Cardinality(A1) \in Nat /\ Cardinality(A1) <= Cardinality(A)
    BY <1>1, <1>5, FS_Subset, FS_CardinalityType
  <1>6. ASSUME NEW r \in A, A1 \subseteq A \ {r}
        PROVE  Cardinality(A1) \in Nat /\ Cardinality(A1) <= Cardinality(A) - 1
    <2>1. IsFiniteSet(A \ {r}) /\ Cardinality(A \ {r}) = Cardinality(A) - 1
      BY <1>1, <1>6, FS_RemoveElement
    <2> QED BY <1>6, <2>1, FS_Subset, FS_CardinalityType
  <1>7. ASSUME NEW X, NEW X1, NEW x, IsFiniteSet(X), X1 \subseteq X \cup {x}
        PROVE  Cardinality(X1) \in Nat /\ Cardinality(X1) <= Cardinality(X) + 1
    <2>1. IsFiniteSet(X \cup {x}) /\ Cardinality(X \cup {x}) <= Cardinality(X) + 1
      <3>1. Cardinality(X) \in Nat
        BY <1>7, FS_CardinalityType
      <3> QED BY <1>7, <3>1, FS_AddElement
    <2>2. Cardinality(X) \in Nat /\ Cardinality(X \cup {x}) \in Nat
      BY <1>7, <2>1, FS_CardinalityType
    <2> QED BY <1>7, <2>1, <2>2, FS_Subset, FS_CardinalityType
  <1> SUFFICES Cardinality(S1) + Cardinality(A1) <= used'[m]
    OBVIOUS
  <1>8. Cardinality(S) + Cardinality(A) <= used[m]
    OBVIOUS
  <1>9. CASE Fewer(m)
    <2>1. S1 \subseteq S /\ A1 \subseteq A /\ used'[m] >= used[m]
      BY <1>9 DEF Fewer
    <2> HIDE DEF S, A, S1, A1
    <2> QED BY <1>2, <1>3, <1>4, <1>5, <1>8, <2>1
  <1>10. CASE Asks(m)
    <2>1. PICK r : S1 \subseteq S /\ A1 \subseteq A \cup {r} /\ used'[m] = used[m] + 1
      BY <1>10 DEF Asks
    <2> HIDE DEF S, A, S1, A1
    <2>2. Cardinality(A1) \in Nat /\ Cardinality(A1) <= Cardinality(A) + 1
      BY <1>1, <1>7, <2>1
    <2> QED BY <1>2, <1>3, <1>4, <1>8, <2>1, <2>2
  <1>11. CASE GivesBack(m)
    <2>1. PICK r \in A : S1 \subseteq S /\ A1 \subseteq A \ {r} /\ used'[m] >= used[m] - 1
      BY <1>11 DEF GivesBack
    <2> HIDE DEF S, A, S1, A1
    <2> QED BY <1>2, <1>3, <1>4, <1>6, <1>8, <2>1
  <1>12. CASE Stores(m)
    <2>1. PICK r \in A : \E x : S1 \subseteq S \cup {x} /\ A1 \subseteq A \ {r} /\ used'[m] = used[m]
      BY <1>12 DEF Stores
    <2> HIDE DEF S, A, S1, A1
    <2>2. Cardinality(S1) \in Nat /\ Cardinality(S1) <= Cardinality(S) + 1
      BY <1>1, <1>7, <2>1
    <2> QED BY <1>2, <1>3, <1>6, <1>8, <2>1, <2>2
  <1> QED BY <1>9, <1>10, <1>11, <1>12

\* Where no result is added, none is counted more.
LEMMA StoredStays ==
  ASSUME NEW m \in Metered,
         \A r \in Rows : /\ DOMAIN verdicts'[r] \subseteq DOMAIN verdicts[r]
                         /\ DOMAIN proposals'[r] \subseteq DOMAIN proposals[r]
  PROVE  StoredOf(m)' \subseteq StoredOf(m)
  <1>1. ASSUME NEW r \in Rows
        PROVE  DOMAIN Results(m, r)' \subseteq DOMAIN Results(m, r)
    BY DEF Results
  <1> QED BY <1>1 DEF StoredOf

\* A job that moves alone changes only what its own kind has asked for.
LEMMA AskedAfter ==
  ASSUME NEW t \in Tasks, NEW m \in Metered,
         \A u \in Tasks : u # t => step'[u] = step[u]
  PROVE  /\ m # t[1] => AskedFor(m)' \subseteq AskedFor(m)
         /\ m = t[1] => AskedFor(m)' \subseteq AskedFor(m) \cup {t[2]}
         /\ m = t[1] /\ step'[t] # "ask" => AskedFor(m)' \subseteq AskedFor(m) \ {t[2]}
         /\ m = t[1] /\ step[t] = "ask" => t[2] \in AskedFor(m)
         /\ step'[t] # "ask" => AskedFor(m)' \subseteq AskedFor(m)
  <1>1. PICK s \in Stages, q \in Rows : t = <<s, q>>
    BY TaskParts
  <1>2. t[1] = s /\ t[2] = q
    BY <1>1
  <1>3. ASSUME NEW r \in Rows, r # q \/ m # s
        PROVE  step'[<<m, r>>] = step[<<m, r>>]
    <2>1. m \in Stages
      BY DEF Metered, Stages
    <2>2. PICK u \in Tasks : u = <<m, r>>
      BY <2>1, TaskParts
    <2>3. u # t
      BY <1>1, <1>3, <2>2
    <2> QED BY <2>2, <2>3
  <1>4. m # s => AskedFor(m)' \subseteq AskedFor(m)
    BY <1>3 DEF AskedFor
  <1>5. AskedFor(m)' \subseteq AskedFor(m) \cup {q}
    BY <1>3 DEF AskedFor
  <1>6. ASSUME m = s
        PROVE  /\ step'[t] # "ask" => AskedFor(m)' \subseteq AskedFor(m) \ {q}
               /\ step[t] = "ask" => q \in AskedFor(m)
    BY <1>1, <1>3, <1>6 DEF AskedFor
  <1> QED BY <1>2, <1>4, <1>5, <1>6

\* An attempt leaves, or a job is over, and nothing is stored.
LEMMA LeavesFewer ==
  ASSUME NEW t \in Tasks, NEW m \in Metered, UNCHANGED <<verdicts, proposals>>,
         \A u \in Tasks : u # t => step'[u] = step[u],
         step'[t] # "ask", used'[m] >= used[m]
  PROVE  Fewer(m)
  BY StoredStays, AskedAfter DEF Fewer

\* Metering asks once more and counts once more, or is refused.
LEMMA MeterCounts ==
  ASSUME DraftingTypeOK, NEW t \in Tasks, NEW m \in Metered, t[1] \in Metered,
         UNCHANGED <<verdicts, proposals>>, step[t] = "load", Meter(t)
  PROVE  Fewer(m) \/ Asks(m)
  <1>1. used[m] \in Int /\ used[t[1]] \in Int
    BY DEF DraftingTypeOK
  <1>2. /\ m # t[1] => used'[m] = used[m]
        /\ m = t[1] => used'[m] = used[m] \/ used'[m] = used[m] + 1
    BY DEF Meter, DraftingTypeOK
  <1>3. CASE used' = [used EXCEPT ![t[1]] = @ + 1] /\ Goto(t, "ask")
    <2>1. \A u \in Tasks : u # t => step'[u] = step[u]
      BY <1>3 DEF Goto, DraftingTypeOK
    <2>2. StoredOf(m)' \subseteq StoredOf(m)
      BY StoredStays
    <2>3. CASE m = t[1]
      <3>1. used'[m] = used[m] + 1
        BY <1>3, <2>3 DEF DraftingTypeOK
      <3> QED BY <2>1, <2>2, <2>3, <3>1, AskedAfter DEF Asks
    <2>4. CASE m # t[1]
      BY <1>1, <1>2, <2>1, <2>2, <2>4, AskedAfter DEF Fewer
    <2> QED BY <2>3, <2>4
  <1>4. CASE Throw(t) \/ End(t)
    <2>1. PICK st \in {"waiting", "fruitless"} : Leave(t, st)
      BY <1>4, ThrowLeaves, EndLeaves
    <2>2. step'[t] # "ask" /\ \A u \in Tasks : u # t => step'[u] = step[u]
      BY <2>1, LeaveShape
    <2>3. used'[m] >= used[m]
      BY <1>1, <1>2
    <2> QED BY <2>2, <2>3, LeavesFewer
  <1> QED BY <1>3, <1>4 DEF Meter

\* Loading counts no less than it asks for.
LEMMA LoadsCount ==
  ASSUME DraftingTypeOK, NEW t \in Tasks, NEW m \in Metered,
         LoadScore(t) \/ LoadEstimate(t) \/ LoadMargin(t) \/ LoadDraft(t)
  PROVE  Fewer(m) \/ Asks(m)
  <1>1. UNCHANGED <<verdicts, proposals>> /\ step[t] = "load"
    BY DEF LoadScore, LoadEstimate, LoadMargin, LoadDraft, OnlyTheAttempt, judgedVars, At
  <1>2. used[m] \in Int
    BY DEF DraftingTypeOK
  <1>3. ASSUME Return(t) \/ End(t), UNCHANGED used
        PROVE  Fewer(m)
    <2>1. PICK st \in {"finished", "fruitless"} : Leave(t, st)
      BY <1>3, ReturnLeaves, EndLeaves
    <2>2. step'[t] # "ask" /\ \A u \in Tasks : u # t => step'[u] = step[u]
      BY <2>1, LeaveShape
    <2> QED BY <1>1, <1>2, <1>3, <2>2, LeavesFewer
  <1>4. CASE LoadScore(t)
    <2>1. t[1] \in Metered
      BY <1>4 DEF LoadScore, At, Metered
    <2> QED BY <1>1, <1>3, <1>4, <2>1, MeterCounts DEF LoadScore
  <1>5. CASE LoadDraft(t)
    <2>1. t[1] \in Metered
      BY <1>5 DEF LoadDraft, At, Metered
    <2> QED BY <1>1, <1>3, <1>5, <2>1, MeterCounts DEF LoadDraft
  <1>6. CASE LoadEstimate(t) \/ LoadMargin(t)
    <2>1. UNCHANGED used /\ t[1] \notin Metered
      BY <1>6 DEF LoadEstimate, LoadMargin, OnlyTheAttempt, At, Metered
    <2>2. CASE step' = [step EXCEPT ![t] = "ask"]
      <3>1. \A u \in Tasks : u # t => step'[u] = step[u]
        BY <2>2 DEF DraftingTypeOK
      <3> QED BY <1>1, <1>2, <2>1, <3>1, StoredStays, AskedAfter DEF Fewer
    <2> QED BY <1>3, <1>6, <2>1, <2>2 DEF LoadEstimate, LoadMargin, Goto
  <1> QED BY <1>4, <1>5, <1>6

\* An attempt that goes wrong asks no more, or gives back what it asked.
LEMMA AttemptsCount ==
  ASSUME DraftingTypeOK, NEW t \in Tasks, NEW m \in Metered,
         Useless(t) \/ Unreached(t) \/ Refused(t) \/ Finish(t) \/ QueryFails(t) \/ Crash(t)
  PROVE  Fewer(m) \/ GivesBack(m)
  <1>1. UNCHANGED <<verdicts, proposals>>
    BY DEF Useless, Unreached, Refused, Finish, QueryFails, Crash, OnlyTheAttempt, judgedVars
  <1>2. PICK st \in {"waiting", "finished", "fruitless"} : Leave(t, st)
    BY ReturnLeaves, EndLeaves, ThrowLeaves
       DEF Useless, Unreached, Refused, Finish, QueryFails, Crash
  <1>3. step'[t] # "ask" /\ \A u \in Tasks : u # t => step'[u] = step[u]
    BY <1>2, LeaveShape
  <1>4. used[m] \in Nat
    BY DraftingAssumption DEF DraftingTypeOK
  <1>5. CASE Unreached(t) /\ m = t[1]
    <2>1. step[t] = "ask" /\ used'[m] >= used[m] - 1
      BY <1>4, <1>5 DEF Unreached
    <2> QED BY <1>1, <1>3, <1>5, <2>1, StoredStays, AskedAfter DEF GivesBack
  <1>6. CASE ~(Unreached(t) /\ m = t[1])
    <2>1. used'[m] = used[m]
      BY <1>6 DEF Useless, Unreached, Refused, Finish, QueryFails, Crash, OnlyTheAttempt
    <2> QED BY <1>1, <1>3, <1>4, <2>1, LeavesFewer
  <1> QED BY <1>5, <1>6

\* Storing turns what was asked for into what is stored.
LEMMA StoresCount ==
  ASSUME DraftingTypeOK, TaskInv, JudgedInv, NEW t \in Tasks, NEW m \in Metered,
         StoreScore(t) \/ StoreEstimate(t) \/ StoreMargin(t) \/ StoreDraft(t)
  PROVE  Fewer(m) \/ Stores(m)
  <1>1. /\ UNCHANGED used /\ step[t] = "ask"
        /\ \E follows \in BOOLEAN : Committed(t, follows)
    <2>1. CASE StoreMargin(t)
      <3>1. PICK f : f = (got[t] \in Passing /\ t[2] \notin Upwork)
        OBVIOUS
      <3>2. f \in BOOLEAN
        BY <3>1
      <3>3. Committed(t, f) /\ UNCHANGED used /\ step[t] = "ask"
        BY <2>1, <3>1 DEF StoreMargin, At
      <3> QED BY <3>2, <3>3
    <2>2. CASE StoreScore(t)
      BY <2>2 DEF StoreScore, At
    <2>3. CASE StoreEstimate(t) \/ StoreDraft(t)
      BY <2>3 DEF StoreEstimate, StoreDraft, At
    <2> QED BY <2>1, <2>2, <2>3
  <1>2. step'[t] # "ask" /\ \A u \in Tasks : u # t => step'[u] = step[u]
    BY <1>1, CommittedShape
  <1>3. used[m] \in Int /\ used'[m] = used[m]
    BY <1>1 DEF DraftingTypeOK
  <1>4. CASE StoreEstimate(t) \/ StoreMargin(t)
    <2>1. UNCHANGED <<verdicts, proposals>>
      BY <1>4 DEF StoreEstimate, StoreMargin
    <2> QED BY <1>2, <1>3, <2>1, LeavesFewer
  <1>5. CASE StoreScore(t)
    <2>1. t[1] = "score" /\ t[2] \in Rows /\ UNCHANGED proposals
      BY <1>5, TaskParts DEF StoreScore, At
    <2>2. \A x \in Rows \ {t[2]} : verdicts'[x] = verdicts[x]
      BY <1>5, StoreScoreHolds
    <2>3. CASE m = "score"
      <3>1. DOMAIN verdicts'[t[2]] = {1}
        <4>1. PICK z \in Seq(BOOLEAN) : z = verdicts'[t[2]] /\ Len(z) = 1
          BY <1>5, <2>1, StoreScoreHolds
        <4> QED BY <4>1
      <3>2. StoredOf(m)' \subseteq StoredOf(m) \cup {<<t[2], 1>>}
        BY <2>2, <2>3, <3>1 DEF StoredOf, Results
      <3> QED BY <1>1, <1>2, <1>3, <2>1, <2>3, <3>2, AskedAfter DEF Stores
    <2>4. CASE m # "score"
      <3>1. StoredOf(m)' \subseteq StoredOf(m)
        BY <2>1, <2>4 DEF StoredOf, Results
      <3> QED BY <1>2, <1>3, <3>1, AskedAfter DEF Fewer
    <2> QED BY <2>3, <2>4
  <1>6. CASE StoreDraft(t)
    <2>1. t[1] = "draft" /\ t[2] \in Rows /\ UNCHANGED verdicts
      BY <1>6, TaskParts DEF StoreDraft, At
    <2>2. \A x \in Rows \ {t[2]} : proposals'[x] = proposals[x]
      BY <1>6, StoreDraftHolds
    <2>3. PICK n : DOMAIN proposals'[t[2]] = DOMAIN proposals[t[2]] \cup {n}
      BY <1>6, StoreDraftHolds
    <2>4. CASE m = "draft"
      <3>1. StoredOf(m)' \subseteq StoredOf(m) \cup {<<t[2], n>>}
        BY <2>2, <2>3, <2>4 DEF StoredOf, Results
      <3> QED BY <1>1, <1>2, <1>3, <2>1, <2>4, <3>1, AskedAfter DEF Stores
    <2>5. CASE m = "score"
      <3>1. StoredOf(m)' \subseteq StoredOf(m)
        BY <2>1, <2>5 DEF StoredOf, Results
      <3> QED BY <1>2, <1>3, <3>1, AskedAfter DEF Fewer
    <2> QED BY <2>4, <2>5 DEF Metered
  <1> QED BY <1>1, <1>4, <1>5, <1>6

\* Queueing neither asks nor stores.
LEMMA QueueCounts ==
  ASSUME DraftingTypeOK, NEW t \in Tasks, NEW m \in Metered,
         HandOwed(t) \/ LoseOwed(t) \/ Take(t) \/ HandOn(t)
  PROVE  Fewer(m)
  <1>1. UNCHANGED <<verdicts, proposals, used>>
    BY DEF HandOwed, LoseOwed, Take, HandOn, judgedVars
  <1>2. used[m] \in Int
    BY DEF DraftingTypeOK
  <1>3. CASE UNCHANGED step
    BY <1>1, <1>2, <1>3, StoredStays DEF Fewer, AskedFor
  <1>4. ASSUME NEW label \in {"load", "done"}, step' = [step EXCEPT ![t] = label]
        PROVE  Fewer(m)
    <2>1. step'[t] # "ask" /\ \A u \in Tasks : u # t => step'[u] = step[u]
      BY <1>4 DEF DraftingTypeOK
    <2> QED BY <1>1, <1>2, <2>1, LeavesFewer
  <1> QED BY <1>3, <1>4 DEF HandOwed, LoseOwed, Take, HandOn, stepVars

\* Nor does a step that adds no result and moves no job.
LEMMA OthersCount ==
  ASSUME DraftingTypeOK, NEW m \in Metered, UNCHANGED step,
         \A r \in Rows : /\ DOMAIN verdicts'[r] \subseteq DOMAIN verdicts[r]
                         /\ DOMAIN proposals'[r] \subseteq DOMAIN proposals[r],
         used'[m] >= used[m]
  PROVE  Fewer(m)
  BY StoredStays DEF Fewer, AskedFor

\* Every step moves the counts in one of the four ways.
LEMMA StepsCount ==
  ASSUME DraftingTypeOK, TaskInv, JudgedInv, DraftingNext, NEW m \in Metered
  PROVE  Fewer(m) \/ Asks(m) \/ GivesBack(m) \/ Stores(m)
  <1>1. used[m] \in Int
    BY DEF DraftingTypeOK
  <1>2. ASSUME NEW r \in Rows, NEW b \in Budgets, FindNew(r, b) \/ FindAgain(r, b)
        PROVE  Fewer(m)
    <2>1. UNCHANGED <<step, verdicts, proposals, used>>
      BY <1>2 DEF FindNew, FindAgain, judgedVars, stepVars
    <2> QED BY <1>1, <2>1, OthersCount
  <1>3. ASSUME NEW r \in Rows, DayPasses(r) \/ RequestScore(r) \/ RequestDraft(r)
        PROVE  Fewer(m)
    <2>1. UNCHANGED <<step, verdicts, proposals, used>>
      BY <1>3 DEF DayPasses, RequestScore, RequestDraft, judgedVars, stepVars
    <2> QED BY <1>1, <2>1, OthersCount
  <1>4. CASE PurgeUpwork
    <2>1. UNCHANGED <<step, proposals, used>>
      BY <1>4 DEF PurgeUpwork, stepVars
    <2>2. verdicts' = [r \in Rows |-> IF r \in stale THEN <<>> ELSE verdicts[r]]
      BY <1>4 DEF PurgeUpwork
    <2>3. \A r \in Rows : verdicts'[r] = verdicts[r] \/ verdicts'[r] = <<>>
      BY <2>2
    <2>4. \A r \in Rows : DOMAIN verdicts'[r] \subseteq DOMAIN verdicts[r]
      BY <2>3
    <2> QED BY <1>1, <2>1, <2>4, OthersCount
  <1>5. ASSUME NEW r \in Rows, RejectDraft(r)
        PROVE  Fewer(m)
    <2>1. UNCHANGED <<step, verdicts, used>>
      BY <1>5 DEF RejectDraft, stepVars
    <2> QED BY <1>1, <1>5, <2>1, RejectHolds, OthersCount
  <1>6. ASSUME NEW n \in Metered, OthersUse(n)
        PROVE  Fewer(m)
    <2>1. UNCHANGED <<step, verdicts, proposals>> /\ used'[m] >= used[m]
      BY <1>1, <1>6 DEF OthersUse, judgedVars, stepVars, DraftingTypeOK
    <2> QED BY <2>1, OthersCount
  <1> QED BY <1>2, <1>3, <1>4, <1>5, <1>6, QueueCounts, LoadsCount, AttemptsCount, StoresCount
          DEF DraftingNext, Work

-----------------------------------------------------------------------------
\* Before any listing the invariant holds.
LEMMA DraftingInitInv ==
  ASSUME DraftingInit
  PROVE  DraftingInv
  <1>1. \A r \in Rows : ~IsStored(r)
    BY DEF DraftingInit, IsStored
  <1>2. DraftingTypeOK
    <2>1. Attempts - 1 \in Nat /\ 0 \in 0..(Attempts - 1) /\ 0 \in 0..Limit
          /\ 0 \in 0..MaxRequests /\ 0 \in 0..MaxFaults
      BY DraftingAssumption
    <2> QED BY <2>1 DEF DraftingInit, DraftingTypeOK, RowStates, TaskStates, Steps, Evaluation, Proposal
  <1>3. ListingsHold
    BY <1>1, TaskParts DEF DraftingInit, ListingsHold
  <1>4. AsksHold
    BY <1>1, TaskParts DEF DraftingInit, AsksHold
  <1>5. ResultsHold /\ ChainUnbroken
    BY <1>1 DEF ResultsHold, ChainUnbroken
  <1>6. DraftsHold /\ BidPricedAsJudged
    BY DEF DraftingInit, DraftsHold, BidPricedAsJudged
  <1>7. OneJudgementPerJob
    BY DEF DraftingInit, OneJudgementPerJob
  <1>8. UsageCoversWork
    <2>1. ASSUME NEW m \in Metered
          PROVE  Cardinality(StoredOf(m)) + Cardinality(AskedFor(m)) <= used[m]
      <3>1. m \in Stages
        BY DEF Metered, Stages
      <3>2. AskedFor(m) = {}
        BY <3>1, TaskParts DEF DraftingInit, AskedFor
      <3>3. \A r \in Rows : Results(m, r) = <<>>
        BY DEF DraftingInit, Results
      <3>4. StoredOf(m) = {}
        BY <3>3 DEF StoredOf
      <3> QED BY <3>2, <3>4, FS_EmptySet DEF DraftingInit
    <2> QED BY <2>1 DEF UsageCoversWork
  <1> QED BY <1>2, <1>3, <1>4, <1>5, <1>6, <1>7, <1>8 DEF DraftingInv

\* Every step of judging and drafting keeps the invariant.
LEMMA DraftingNextInv ==
  ASSUME DraftingInv, [DraftingNext]_draftingVars
  PROVE  DraftingInv'
  <1>1. CASE DraftingNext
    <2>1. DraftingTypeOK /\ TaskInv /\ JudgedInv /\ UsageCoversWork
      BY DEF DraftingInv, TaskInv, JudgedInv
    <2>2. TaskInv' /\ JudgedInv' /\ DraftingTypeOK'
      BY <1>1, <2>1, DraftingStepHolds, DraftingTyped
    <2>3. ASSUME NEW m \in Metered
          PROVE  (Cardinality(StoredOf(m)) + Cardinality(AskedFor(m)) <= used[m])'
      BY <1>1, <2>1, <2>2, StepsCount, CountHolds DEF UsageCoversWork
    <2>4. UsageCoversWork'
      BY <2>3 DEF UsageCoversWork
    <2> QED BY <2>2, <2>4 DEF DraftingInv, TaskInv, JudgedInv
  <1>2. CASE UNCHANGED draftingVars
    <2>1. UNCHANGED <<rows, stale, budget, verdicts, estimates, evaluations, proposals, used, owed,
                      taskState, attempts, step, got, lost, requests, faults>>
      BY <1>2 DEF draftingVars, rowVars, judgedVars, taskVars, stepVars, bounds
    <2>2. DraftingTypeOK'
      BY <2>1 DEF DraftingInv, DraftingTypeOK, Evaluation, Proposal
    <2>3. ListingsHold' /\ AsksHold' /\ ResultsHold' /\ DraftsHold'
      BY <2>1 DEF DraftingInv, ListingsHold, AsksHold, ResultsHold, DraftsHold, IsStored, Passed,
                  LiveDrafts, HasResult
    <2>4. OneJudgementPerJob' /\ BidPricedAsJudged'
      BY <2>1 DEF DraftingInv, OneJudgementPerJob, BidPricedAsJudged, IsStored, LiveDrafts
    <2>5. UsageCoversWork'
      BY <2>1 DEF DraftingInv, UsageCoversWork, StoredOf, AskedFor, Results
    <2>6. ChainUnbroken'
      BY <2>1 DEF DraftingInv, ChainUnbroken, Accounted, Underway, IsStored, Pursued, Passed
    <2> QED BY <2>2, <2>3, <2>4, <2>5, <2>6 DEF DraftingInv
  <1> QED BY <1>1, <1>2

\* Of every listing, whoever works on it and whatever fails: the types, and what
\* carries the four properties below (score.ts, estimate.ts, margin.ts, draft-bid.ts).
THEOREM DraftingHolds == DraftingSpec => []DraftingInv
  <1>1. DraftingInit => DraftingInv
    BY DraftingInitInv
  <1>2. DraftingInv /\ [DraftingNext]_draftingVars => DraftingInv'
    BY DraftingNextInv
  <1> QED BY <1>1, <1>2, PTL DEF DraftingSpec

\* A job is scored, estimated and judged once, and has one live draft per
\* judgement, however often an attempt is retried or crashes (score.ts:115).
THEOREM NobodyPaysForASecondOpinion == DraftingSpec => []OneJudgementPerJob
  <1>1. DraftingInv => OneJudgementPerJob
    BY DEF DraftingInv
  <1> QED BY <1>1, DraftingHolds, PTL

\* What the models answered, and what they are being asked, never exceeds the
\* units counted, though units are given back (plan-usage.ts releasePlanUsage).
THEOREM EveryAnswerIsCounted == DraftingSpec => []UsageCoversWork
  <1>1. DraftingInv => UsageCoversWork
    BY DEF DraftingInv
  <1> QED BY <1>1, DraftingHolds, PTL

\* A draft is priced at the budget its margin passed at, whatever budget the
\* poll stored meanwhile (margin.ts:317-318, draft-bid.ts:197).
THEOREM DraftsKeepTheirPrice == DraftingSpec => []BidPricedAsJudged
  <1>1. DraftingInv => BidPricedAsJudged
    BY DEF DraftingInv
  <1> QED BY <1>1, DraftingHolds, PTL

\* From listing to draft, a job stands still only where an attempt ended without
\* a result or a process died between its commit and the add.
THEOREM ChainStopsOnRecord == DraftingSpec => []ChainUnbroken
  <1>1. DraftingInv => ChainUnbroken
    BY DEF DraftingInv
  <1> QED BY <1>1, DraftingHolds, PTL

-----------------------------------------------------------------------------
\* The schedules of the scanners (Schedules).

\* Before any scanner the invariant holds.
LEMMA InitSchedules == SchedulesInit => SchedulesInv
  <1> SUFFICES ASSUME SchedulesInit PROVE SchedulesInv
    OBVIOUS
  <1> USE SchedulesAssumption DEF SchedulesInit, NoScanner, Off, NoSync
  <1>1. SchedulesTypeOK
    BY DEF SchedulesTypeOK
  <1>2. RowsAgree /\ SyncsAgree
    BY DEF RowsAgree, SyncsAgree, There, Created
  <1> QED BY <1>1, <1>2 DEF SchedulesInv

\* An owner's request writes a row that has an interval unless it is deleted.
LEMMA OwnersWrite ==
  ASSUME SchedulesTypeOK, RowsAgree, NEW s \in Scanners,
         CreateScanner(s) \/ SwitchScanner(s) \/ RetimeScanner(s) \/ DeleteScanner(s)
  PROVE  \E row \in [state : {"on", "off", "gone"}, every : Intervals \cup {0}] :
           Order(s, row) /\ (row.every # 0 <=> row.state \in {"on", "off"})
  <1> DEFINE Written == [state : {"on", "off", "gone"}, every : Intervals \cup {0}]
             Fits(row) == row \in Written /\ (row.every # 0 <=> row.state \in {"on", "off"})
  <1>0. 0 \notin Intervals /\ scanner[s] \in [state : {"none", "on", "off", "gone"}, every : Intervals \cup {0}]
    BY SchedulesAssumption DEF SchedulesTypeOK
  <1>1. CASE CreateScanner(s)
    BY <1>0, <1>1 DEF CreateScanner
  <1>2. CASE SwitchScanner(s)
    <2>1. PICK state \in {"on", "off"} : Order(s, [scanner[s] EXCEPT !.state = state])
      BY <1>2 DEF SwitchScanner
    <2>2. Fits([scanner[s] EXCEPT !.state = state])
      BY <1>0, <1>2 DEF SwitchScanner, There
    <2> QED BY <2>1, <2>2
  <1>3. CASE RetimeScanner(s)
    <2>1. PICK every \in Intervals : Order(s, [scanner[s] EXCEPT !.every = every])
      BY <1>3 DEF RetimeScanner
    <2>2. scanner[s].state \in {"on", "off"}
      BY <1>3 DEF RetimeScanner, RowsAgree, There
    <2>3. Fits([scanner[s] EXCEPT !.every = every])
      BY <1>0, <2>2
    <2> QED BY <2>1, <2>3
  <1>4. CASE DeleteScanner(s)
    BY <1>0, <1>4 DEF DeleteScanner
  <1> QED BY <1>1, <1>2, <1>3, <1>4

\* Every request, step of the sync and step of a poll keeps the types.
LEMMA SchedulesTypes ==
  ASSUME SchedulesTypeOK, RowsAgree, SchedulesNext
  PROVE  SchedulesTypeOK'
  <1> USE SchedulesAssumption DEF SchedulesTypeOK
  <1>1. ASSUME NEW s \in Scanners,
               CreateScanner(s) \/ SwitchScanner(s) \/ RetimeScanner(s) \/ DeleteScanner(s)
        PROVE  SchedulesTypeOK'
    <2>1. PICK row \in [state : {"on", "off", "gone"}, every : Intervals \cup {0}] : Order(s, row)
      BY <1>1, OwnersWrite
    <2> QED BY <2>1 DEF Order
  <1>2. CASE Reconnect
    BY <1>2 DEF Reconnect, Upset
  <1>3. NoSync \in [step : {"idle", "scanners", "apply"}, found : [Scanners -> Intervals \cup {0}],
                    wanted : [Scanners -> Intervals \cup {0}], left : SUBSET Scanners]
    BY DEF NoSync, Off
  <1>4. CASE SyncReadsSchedules
    BY <1>3, <1>4 DEF SyncReadsSchedules
  <1>5. CASE SyncReadsScanners
    <2>1. [s \in Scanners |-> Wanted(s)] \in [Scanners -> Intervals \cup {0}]
      BY DEF Wanted
    <2> QED BY <1>5, <2>1 DEF SyncReadsScanners
  <1>6. ASSUME NEW s \in Scanners, SyncApplies(s) PROVE SchedulesTypeOK'
    BY <1>6 DEF SyncApplies
  <1>7. CASE SyncEnds \/ SyncDies
    BY <1>3, <1>7 DEF SyncEnds, SyncDies, Upset
  <1>8. ASSUME NEW s \in Scanners, PollStarts(s) \/ PollStep(s) \/ PollRefused(s)
        PROVE  SchedulesTypeOK'
    <2>1. \A to \in {"idle", "started", "stale", "search"} :
            PollAt(s, to) => poll' \in [Scanners -> {"idle", "started", "stale", "search"}]
      BY DEF PollAt
    <2>2. CASE PollStarts(s) \/ PollReads(s) \/ PollReturns(s)
      BY <2>1, <2>2 DEF PollStarts, PollReads, PollReturns
    <2>3. CASE PollUnschedules(s)
      BY <2>1, <2>3 DEF PollUnschedules
    <2>4. CASE PollRefused(s)
      <3>1. poll' \in [Scanners -> {"idle", "started", "stale", "search"}]
        BY <2>1, <2>4 DEF PollRefused
      <3>2. upsets' \in 0..MaxUpsets
        BY <2>4 DEF PollRefused, Upset
      <3> QED BY <2>4, <3>1, <3>2 DEF PollRefused
    <2> QED BY <1>8, <2>2, <2>3, <2>4 DEF PollStep
  <1> QED BY <1>1, <1>2, <1>4, <1>5, <1>6, <1>7, <1>8 DEF SchedulesNext, SyncStep

\* Every step leaves what is read, wanted, scheduled or polled to created scanners.
LEMMA RowsAgreeNext ==
  ASSUME SchedulesTypeOK, RowsAgree, SyncsAgree, SchedulesNext
  PROVE  RowsAgree' /\ SyncsAgree'
  <1> USE SchedulesAssumption DEF SchedulesTypeOK, RowsAgree, SyncsAgree, There, Created, NoSync, Off
  <1>1. ASSUME NEW s \in Scanners,
               CreateScanner(s) \/ SwitchScanner(s) \/ RetimeScanner(s) \/ DeleteScanner(s)
        PROVE  RowsAgree' /\ SyncsAgree'
    <2>1. PICK row \in [state : {"on", "off", "gone"}, every : Intervals \cup {0}] :
            Order(s, row) /\ (row.every # 0 <=> row.state \in {"on", "off"})
      BY <1>1, OwnersWrite
    <2> QED BY <2>1 DEF Order
  <1>2. CASE Reconnect
    BY <1>2 DEF Reconnect
  <1>4. CASE SyncReadsSchedules
    BY <1>4 DEF SyncReadsSchedules
  <1>5. CASE SyncReadsScanners
    BY <1>5 DEF SyncReadsScanners, Wanted, Active
  <1>6. ASSUME NEW s \in Scanners, SyncApplies(s) PROVE RowsAgree' /\ SyncsAgree'
    BY <1>6 DEF SyncApplies
  <1>7. CASE SyncEnds \/ SyncDies
    BY <1>7 DEF SyncEnds, SyncDies
  <1>8. ASSUME NEW s \in Scanners, PollStarts(s) \/ PollStep(s) \/ PollRefused(s)
        PROVE  RowsAgree' /\ SyncsAgree'
    BY <1>8 DEF PollStarts, PollStep, PollReads, PollUnschedules, PollReturns, PollRefused, PollAt
  <1> QED BY <1>1, <1>2, <1>4, <1>5, <1>6, <1>7, <1>8 DEF SchedulesNext, SyncStep

\* Every step on scanners and schedules keeps the invariant.
LEMMA NextSchedules == SchedulesInv /\ [SchedulesNext]_scheduleVars => SchedulesInv'
  <1> SUFFICES ASSUME SchedulesInv, [SchedulesNext]_scheduleVars PROVE SchedulesInv'
    OBVIOUS
  <1>1. CASE SchedulesNext
    BY <1>1, SchedulesTypes, RowsAgreeNext DEF SchedulesInv
  <1>2. CASE UNCHANGED scheduleVars
    BY <1>2 DEF scheduleVars, SchedulesInv, SchedulesTypeOK, RowsAgree, SyncsAgree, There, Created,
                NoSync, Off
  <1> QED BY <1>1, <1>2

\* For any number of scanners and intervals, only what a person created is ever
\* read, scheduled or polled, whatever syncs die and accounts break (ingest.ts:92-175).
THEOREM OnlyCreatedArePolled == SchedulesSpec => []SchedulesInv
  BY InitSchedules, NextSchedules, PTL DEF SchedulesSpec

-----------------------------------------------------------------------------
\* The estimate and the margin (Pricing).
\* Figures have a lowest and, where they are finitely many, a highest.
LEMMA LowestFigure ==
  ASSUME NEW f, NEW A, A # {}, \A i \in A : f[i] \in Nat
  PROVE  \E i \in A : \A j \in A : f[i] <= f[j]
  <1> DEFINE V == {f[i] : i \in A}
  <1>1. V \subseteq Nat /\ V # {}
    OBVIOUS
  <1>2. PICK v \in V : \A u \in V : ~(<<u, v>> \in OpToRel(<, Nat))
    <2> HIDE DEF V
    <2>1. IsWellFoundedOn(OpToRel(<, Nat), Nat)
      BY NatLessThanWellFounded
    <2> QED BY <1>1, <2>1, WFMin
  <1>3. \A u \in V : ~(u < v)
    BY <1>1, <1>2 DEF OpToRel
  <1>4. PICK i \in A : v = f[i]
    OBVIOUS
  <1>5. \A j \in A : ~(f[j] < f[i])
    BY <1>3, <1>4
  <1> QED BY <1>5

\* A finite set that is not empty has a place with the highest figure.
LEMMA HighestFigure ==
  ASSUME NEW f, NEW A, IsFiniteSet(A), A # {}, \A i \in A : f[i] \in Nat
  PROVE  \E i \in A : \A j \in A : f[j] <= f[i]
  <1> DEFINE Over(i) == {j \in A : f[j] > f[i]}
             g == [i \in A |-> Cardinality(Over(i))]
  <1>1. \A i \in A : IsFiniteSet(Over(i)) /\ Cardinality(Over(i)) \in Nat
    BY FS_Subset, FS_CardinalityType
  <1>2. \A i \in A : g[i] \in Nat
    BY <1>1
  <1>3. PICK i \in A : \A j \in A : g[i] <= g[j]
    <2> HIDE DEF g
    <2> QED BY <1>2, LowestFigure
  <1>4. ASSUME NEW j \in A, f[j] > f[i]
        PROVE  FALSE
    <2>1. Over(j) \subseteq Over(i) /\ j \in Over(i) /\ j \notin Over(j)
      BY <1>4
    <2>2. Cardinality(Over(j)) # Cardinality(Over(i)) /\ Cardinality(Over(j)) <= Cardinality(Over(i))
      BY <1>1, <2>1, FS_Subset
    <2>3. g[i] = Cardinality(Over(i)) /\ g[j] = Cardinality(Over(j))
      OBVIOUS
    <2>4. g[i] <= g[j]
      BY <1>3
    <2> HIDE DEF g, Over
    <2> QED BY <1>1, <2>2, <2>3, <2>4
  <1>5. \A j \in A : ~(f[j] > f[i])
    BY <1>4
  <1> QED BY <1>5

\* A list of figures, as far as the estimates look at it.
Figures(f) == IsFiniteSet(DOMAIN f) /\ \A i \in DOMAIN f : f[i] \in Nat

\* How many figures lie below a value, or up to it, is a number.
LEMMA Ranked ==
  ASSUME NEW f, Figures(f), NEW v \in Nat
  PROVE  /\ IsFiniteSet(Below(f, v)) /\ IsFiniteSet(UpTo(f, v))
         /\ Cardinality(Below(f, v)) \in Nat /\ Cardinality(UpTo(f, v)) \in Nat
         /\ Count(f) \in Nat
  BY FS_Subset, FS_CardinalityType DEF Figures, Below, UpTo, Count

\* Each place of the sorted figures has its figure.
LEMMA Placed ==
  ASSUME NEW f, Figures(f), NEW n \in 1..Count(f)
  PROVE  \E v \in {f[i] : i \in DOMAIN f} :
           Cardinality(Below(f, v)) < n /\ n <= Cardinality(UpTo(f, v))
  <1> DEFINE D == DOMAIN f
             A == {i \in D : n <= Cardinality(UpTo(f, f[i]))}
  <1>1. D # {} /\ Count(f) \in Nat /\ Count(f) = Cardinality(D)
    <2>1. Count(f) \in Nat /\ Count(f) = Cardinality(D)
      BY FS_CardinalityType DEF Figures, Count
    <2>2. Cardinality(D) # 0
      BY <2>1
    <2> QED BY <2>1, <2>2, FS_EmptySet
  <1>2. A # {}
    <2>1. PICK i \in D : \A j \in D : f[j] <= f[i]
      BY <1>1, HighestFigure DEF Figures
    <2>2. UpTo(f, f[i]) = D
      BY <2>1 DEF UpTo
    <2>3. n <= Cardinality(UpTo(f, f[i]))
      BY <1>1, <2>2
    <2> QED BY <2>3
  <1>3. PICK i \in A : \A j \in A : f[i] <= f[j]
    <2>1. \A k \in A : f[k] \in Nat
      BY DEF Figures
    <2> HIDE DEF A
    <2> QED BY <1>2, <2>1, LowestFigure
  <1>4. Cardinality(Below(f, f[i])) < n
    <2> SUFFICES ASSUME ~(Cardinality(Below(f, f[i])) < n) PROVE FALSE
      OBVIOUS
    <2> DEFINE B == Below(f, f[i])
    <2>1. f[i] \in Nat /\ IsFiniteSet(B) /\ Cardinality(B) \in Nat /\ Cardinality(B) >= n
      BY Ranked DEF Figures
    <2>2. B # {}
      BY <2>1, FS_EmptySet
    <2>3. PICK k \in B : \A j \in B : f[j] <= f[k]
      <3>1. \A j \in B : f[j] \in Nat
        BY DEF Figures, Below
      <3> HIDE DEF B
      <3> QED BY <2>1, <2>2, <3>1, HighestFigure
    <2>4. k \in D /\ f[k] \in Nat /\ f[k] < f[i]
      BY DEF Below, Figures
    <2>5. B \subseteq UpTo(f, f[k])
      BY <2>3 DEF Below, UpTo
    <2>6. IsFiniteSet(UpTo(f, f[k])) /\ Cardinality(UpTo(f, f[k])) \in Nat
      BY <2>4, Ranked
    <2>7. Cardinality(B) <= Cardinality(UpTo(f, f[k]))
      BY <2>5, <2>6, FS_Subset
    <2>8. n <= Cardinality(UpTo(f, f[k]))
      BY <2>1, <2>6, <2>7
    <2>9. f[i] <= f[k]
      BY <1>3, <2>4, <2>8
    <2> QED BY <2>1, <2>4, <2>9
  <1> QED BY <1>3, <1>4

\* What sorting leaves: one of the figures at each place, in ascending order.
LEMMA SortedAscends ==
  ASSUME NEW f, Figures(f)
  PROVE  /\ \A n \in 1..Count(f) : Sorted(f)[n] \in Nat
         /\ \A m, n \in 1..Count(f) : m <= n => Sorted(f)[m] <= Sorted(f)[n]
  <1>1. ASSUME NEW n \in 1..Count(f)
        PROVE  /\ Sorted(f)[n] \in {f[i] : i \in DOMAIN f}
               /\ Cardinality(Below(f, Sorted(f)[n])) < n
               /\ n <= Cardinality(UpTo(f, Sorted(f)[n]))
    BY <1>1, Placed DEF Sorted
  <1>2. \A n \in 1..Count(f) : Sorted(f)[n] \in Nat
    BY <1>1 DEF Figures
  <1>3. ASSUME NEW m \in 1..Count(f), NEW n \in 1..Count(f), m <= n,
               Sorted(f)[n] < Sorted(f)[m]
        PROVE  FALSE
    <2> DEFINE u == Sorted(f)[n]
               v == Sorted(f)[m]
    <2>1. u \in Nat /\ v \in Nat /\ u < v
      BY <1>2, <1>3
    <2>2. n <= Cardinality(UpTo(f, u)) /\ Cardinality(Below(f, v)) < m
      BY <1>1
    <2> HIDE DEF u, v
    <2>3. UpTo(f, u) \subseteq Below(f, v)
      BY <2>1 DEF UpTo, Below, Figures
    <2>4. Cardinality(UpTo(f, u)) <= Cardinality(Below(f, v))
      BY <2>1, <2>3, Ranked, FS_Subset
    <2>5. Count(f) \in Nat /\ Cardinality(UpTo(f, u)) \in Nat /\ Cardinality(Below(f, v)) \in Nat
      BY <2>1, Ranked
    <2> QED BY <1>3, <2>2, <2>4, <2>5
  <1>4. Count(f) \in Nat
    BY Ranked
  <1> QED BY <1>2, <1>3, <1>4

\* The middle value lies between the first and the last.
LEMMA CardsAreChoice ==
  ASSUME NEW f, Figures(f), Count(f) > 0, NEW method \in Methods
  PROVE  IsChoice(FromCards(method, f))
  <1> DEFINE t == Sorted(f)
             n == Count(f)
  <1>1. n \in Nat \ {0}
    BY Ranked
  <1>2. \A k \in 1..n : t[k] \in Nat /\ t[1] <= t[k] /\ t[k] <= t[n]
    <2> HIDE DEF t
    <2>1. \A k, m \in 1..n : k <= m => t[k] <= t[m]
      BY SortedAscends DEF t
    <2>2. \A k \in 1..n : t[k] \in Nat
      BY SortedAscends DEF t
    <2>3. 1 \in 1..n /\ n \in 1..n
      BY <1>1
    <2> QED BY <1>1, <2>1, <2>2, <2>3
  <1>3. MedianMinor(f) \in Nat /\ t[1] <= MedianMinor(f) /\ MedianMinor(f) <= t[n]
    <2>1. MedianMinor(f) = IF n % 2 = 1 THEN t[(n \div 2) + 1]
                           ELSE (t[n \div 2] + t[(n \div 2) + 1]) \div 2
      BY DEF MedianMinor
    <2> HIDE DEF t, n
    <2>2. CASE n % 2 = 1
      <3>1. (n \div 2) + 1 \in 1..n
        BY <1>1, <2>2
      <3> QED BY <1>2, <2>1, <2>2, <3>1
    <2>3. CASE n % 2 # 1
      <3>1. n \div 2 \in 1..n /\ (n \div 2) + 1 \in 1..n
        BY <1>1, <2>3
      <3>2. \A a, b, l, h \in Nat : l <= a /\ l <= b /\ a <= h /\ b <= h
              => (a + b) \div 2 \in Nat /\ l <= (a + b) \div 2 /\ (a + b) \div 2 <= h
        OBVIOUS
      <3>3. 1 \in 1..n /\ n \in 1..n
        BY <1>1
      <3> DEFINE a == t[n \div 2]
                 b == t[(n \div 2) + 1]
      <3>4. /\ a \in Nat /\ b \in Nat /\ t[1] \in Nat /\ t[n] \in Nat
            /\ t[1] <= a /\ t[1] <= b /\ a <= t[n] /\ b <= t[n]
        BY <1>2, <3>1, <3>3
      <3>5. MedianMinor(f) = (a + b) \div 2
        BY <2>1, <2>3
      <3> HIDE DEF a, b
      <3> QED BY <3>2, <3>4, <3>5
    <2> QED BY <2>2, <2>3
  <1>4. t[1] \in Nat /\ t[n] \in Nat
    <2> HIDE DEF t, n
    <2> QED BY <1>1, <1>2
  <1>5. FromCards(method, f) = [method |-> method, low |-> t[1], expected |-> MedianMinor(f),
                                high |-> t[n]]
    BY DEF FromCards
  <1> HIDE DEF t, n
  <1> QED BY <1>3, <1>4, <1>5 DEF IsChoice

\* Interpolation stays between the closest ranks and grows with the share.
LEMMA Interpolates ==
  ASSUME NEW a \in Nat, NEW b \in Nat, a <= b
  PROVE  /\ \A s \in 1..3 : /\ a + ((b - a) * s * 2 + 4) \div 8 \in Nat
                            /\ a <= a + ((b - a) * s * 2 + 4) \div 8
                            /\ a + ((b - a) * s * 2 + 4) \div 8 <= b
         /\ \A r, s \in 1..3 : r <= s =>
              a + ((b - a) * r * 2 + 4) \div 8 <= a + ((b - a) * s * 2 + 4) \div 8
  <1> DEFINE d == b - a
             I(s) == (d * s * 2 + 4) \div 8
  <1>1. d \in Nat
    OBVIOUS
  <1> HIDE DEF d
  <1>2. /\ I(1) = (2 * d + 4) \div 8 /\ I(2) = (4 * d + 4) \div 8 /\ I(3) = (6 * d + 4) \div 8
    BY <1>1
  <1>3. /\ I(1) \in Nat /\ I(2) \in Nat /\ I(3) \in Nat
        /\ I(1) <= I(2) /\ I(2) <= I(3) /\ I(3) <= d
    BY <1>1, <1>2
  <1> HIDE DEF I
  <1>4. \A s \in 1..3 : I(s) \in Nat /\ I(s) <= d
    <2> SUFFICES ASSUME NEW s \in 1..3 PROVE I(s) \in Nat /\ I(s) <= d
      OBVIOUS
    <2>1. s = 1 \/ s = 2 \/ s = 3
      OBVIOUS
    <2> QED BY <1>1, <1>3, <2>1
  <1>5. \A r, s \in 1..3 : r <= s => I(r) <= I(s)
    <2> SUFFICES ASSUME NEW r \in 1..3, NEW s \in 1..3, r <= s PROVE I(r) <= I(s)
      OBVIOUS
    <2>1. (r = 1 \/ r = 2 \/ r = 3) /\ (s = 1 \/ s = 2 \/ s = 3)
      OBVIOUS
    <2> QED BY <1>3, <2>1
  <1>6. \A s \in 1..3 : a + I(s) \in Nat /\ a <= a + I(s) /\ a + I(s) <= b
    BY <1>4 DEF d
  <1>7. \A r, s \in 1..3 : r <= s => a + I(r) <= a + I(s)
    BY <1>4, <1>5
  <1> QED BY <1>6, <1>7 DEF I, d

\* A number of quarters is its whole part and what is left of it.
LEMMA Quarters ==
  ASSUME NEW s \in Nat
  PROVE  s \div 4 \in Nat /\ s % 4 \in 0..3 /\ s = 4 * (s \div 4) + (s % 4)
  OBVIOUS

\* The ranks a quartile lies between.
LEMMA QuartileRanks ==
  ASSUME NEW n \in Nat \ {0}, NEW q \in 1..3
  PROVE  /\ ((n - 1) * q) \div 4 \in Nat /\ ((n - 1) * q) % 4 \in 0..3
         /\ (n - 1) * q = 4 * (((n - 1) * q) \div 4) + (((n - 1) * q) % 4)
         /\ ((n - 1) * q) \div 4 + 1 \in 1..n
         /\ ((n - 1) * q) % 4 # 0 => ((n - 1) * q) \div 4 + 2 \in 1..n
  <1> DEFINE s == (n - 1) * q
  <1>1. s \in Nat /\ s <= 3 * (n - 1)
    <2>1. q = 1 \/ q = 2 \/ q = 3
      OBVIOUS
    <2> QED BY <2>1
  <1> HIDE DEF s
  <1>2. /\ s \div 4 \in Nat /\ s % 4 \in 0..3 /\ s = 4 * (s \div 4) + (s % 4)
        /\ s \div 4 + 1 \in 1..n
        /\ s % 4 # 0 => s \div 4 + 2 \in 1..n
    <2>1. s \div 4 \in Nat /\ s % 4 \in 0..3 /\ s = 4 * (s \div 4) + (s % 4)
      BY <1>1, Quarters
    <2> DEFINE k == s \div 4
               r == s % 4
    <2> HIDE DEF k, r
    <2>2. k \in Nat /\ r \in 0..3 /\ 4 * k + r <= 3 * (n - 1)
      BY <1>1, <2>1 DEF k, r
    <2>3. k + 1 \in 1..n
      BY <2>2
    <2>4. r # 0 => k + 2 \in 1..n
      BY <2>2
    <2> QED BY <2>1, <2>3, <2>4 DEF k, r
  <1> QED BY <1>2 DEF s

\* A quartile lies between its ranks.
LEMMA QuartileBetween ==
  ASSUME NEW f, Figures(f), Count(f) > 0, NEW q \in 1..3,
         NEW k, k = ((Count(f) - 1) * q) \div 4, NEW r, r = ((Count(f) - 1) * q) % 4
  PROVE  /\ Quartile(f, q) \in Nat
         /\ Sorted(f)[k + 1] <= Quartile(f, q)
         /\ r = 0 => Quartile(f, q) = Sorted(f)[k + 1]
         /\ r # 0 => Quartile(f, q) <= Sorted(f)[k + 2]
         /\ r # 0 => Quartile(f, q) = Sorted(f)[k + 1]
              + ((Sorted(f)[k + 2] - Sorted(f)[k + 1]) * r * 2 + 4) \div 8
  <1>1. Count(f) \in Nat \ {0}
    BY Ranked
  <1>2. /\ k \in Nat /\ r \in 0..3 /\ k + 1 \in 1..Count(f)
        /\ r # 0 => k + 2 \in 1..Count(f)
    BY <1>1, QuartileRanks
  <1>3. /\ Sorted(f)[k + 1] \in Nat
        /\ r # 0 => Sorted(f)[k + 2] \in Nat /\ Sorted(f)[k + 1] <= Sorted(f)[k + 2]
    BY <1>2, SortedAscends
  <1>4. Quartile(f, q) = IF r = 0 THEN Sorted(f)[k + 1]
          ELSE Sorted(f)[k + 1] + ((Sorted(f)[k + 2] - Sorted(f)[k + 1]) * r * 2 + 4) \div 8
    BY DEF Quartile
  <1>5. CASE r = 0
    BY <1>3, <1>4, <1>5
  <1>6. CASE r # 0
    <2> DEFINE a == Sorted(f)[k + 1]
               b == Sorted(f)[k + 2]
    <2>1. a \in Nat /\ b \in Nat /\ a <= b /\ r \in 1..3
      BY <1>2, <1>3, <1>6
    <2>2. Quartile(f, q) = a + ((b - a) * r * 2 + 4) \div 8
      BY <1>4, <1>6
    <2> HIDE DEF a, b
    <2>3. /\ a + ((b - a) * r * 2 + 4) \div 8 \in Nat
          /\ a <= a + ((b - a) * r * 2 + 4) \div 8
          /\ a + ((b - a) * r * 2 + 4) \div 8 <= b
      BY <2>1, Interpolates
    <2>4. Quartile(f, q) \in Nat /\ a <= Quartile(f, q) /\ Quartile(f, q) <= b
      BY <2>2, <2>3
    <2> QED BY <1>6, <2>2, <2>4 DEF a, b
  <1> QED BY <1>5, <1>6

\* A later quartile is not lower.
LEMMA QuartilesAscend ==
  ASSUME NEW f, Figures(f), Count(f) > 0, NEW p \in 1..3, NEW q \in 1..3, p <= q
  PROVE  Quartile(f, p) <= Quartile(f, q)
  <1> DEFINE n == Count(f)
             t == Sorted(f)
  <1>1. n \in Nat \ {0}
    BY Ranked
  <1> DEFINE k == ((n - 1) * p) \div 4
             r == ((n - 1) * p) % 4
             m == ((n - 1) * q) \div 4
             s == ((n - 1) * q) % 4
  <1>2. /\ k \in Nat /\ r \in 0..3 /\ m \in Nat /\ s \in 0..3
        /\ (n - 1) * p = 4 * k + r /\ (n - 1) * q = 4 * m + s
        /\ k + 1 \in 1..n /\ m + 1 \in 1..n /\ (r # 0 => k + 2 \in 1..n) /\ (s # 0 => m + 2 \in 1..n)
    <2> HIDE DEF n
    <2> QED BY <1>1, QuartileRanks
  <1>3. (n - 1) * p <= (n - 1) * q
    <2> HIDE DEF n
    <2>1. (p = 1 \/ p = 2 \/ p = 3) /\ (q = 1 \/ q = 2 \/ q = 3)
      OBVIOUS
    <2> QED BY <1>1, <2>1
  <1>4. /\ Quartile(f, p) \in Nat /\ Quartile(f, q) \in Nat
        /\ t[k + 1] <= Quartile(f, p) /\ t[m + 1] <= Quartile(f, q)
        /\ r = 0 => Quartile(f, p) = t[k + 1]
        /\ r # 0 => /\ Quartile(f, p) <= t[k + 2]
                    /\ Quartile(f, p) = t[k + 1] + ((t[k + 2] - t[k + 1]) * r * 2 + 4) \div 8
        /\ s = 0 => Quartile(f, q) = t[m + 1]
        /\ s # 0 => Quartile(f, q) = t[m + 1] + ((t[m + 2] - t[m + 1]) * s * 2 + 4) \div 8
    BY QuartileBetween
  <1>5. \A i, j \in 1..n : t[i] \in Nat /\ (i <= j => t[i] <= t[j])
    BY SortedAscends
  <1> HIDE DEF n, t, k, r, m, s
  <1>6. k < m \/ (k = m /\ r <= s)
    <2>1. 4 * k + r <= 4 * m + s
      BY <1>2, <1>3
    <2> QED BY <1>2, <2>1
  <1>7. CASE k < m
    <2>1. CASE r = 0
      <3>1. t[k + 1] <= t[m + 1] /\ t[k + 1] \in Nat /\ t[m + 1] \in Nat
        BY <1>2, <1>5, <1>7
      <3> QED BY <1>4, <2>1, <3>1
    <2>2. CASE r # 0
      <3>1. t[k + 2] <= t[m + 1] /\ t[k + 2] \in Nat /\ t[m + 1] \in Nat
        BY <1>2, <1>5, <1>7, <2>2
      <3> QED BY <1>4, <2>2, <3>1
    <2> QED BY <2>1, <2>2
  <1>8. CASE k = m /\ r <= s
    <2>1. CASE r = 0
      BY <1>4, <1>8, <2>1
    <2>2. CASE r # 0
      <3> DEFINE a == t[k + 1]
                 b == t[k + 2]
      <3>1. a \in Nat /\ b \in Nat /\ a <= b
        BY <1>2, <1>5, <2>2
      <3>2. r \in 1..3 /\ s \in 1..3 /\ s # 0
        BY <1>2, <1>8, <2>2
      <3>3. /\ Quartile(f, p) = a + ((b - a) * r * 2 + 4) \div 8
            /\ Quartile(f, q) = a + ((b - a) * s * 2 + 4) \div 8
        BY <1>4, <1>8, <2>2, <3>2
      <3> HIDE DEF a, b
      <3> QED BY <1>8, <3>1, <3>2, <3>3, Interpolates
    <2> QED BY <2>1, <2>2
  <1> QED BY <1>6, <1>7, <1>8

\* The quartiles of a band are in order.
LEMMA BandIsChoice ==
  ASSUME NEW f, Figures(f), Count(f) > 0
  PROVE  IsChoice(FromBand(f))
  <1>1. /\ Quartile(f, 1) \in Nat /\ Quartile(f, 2) \in Nat /\ Quartile(f, 3) \in Nat
    BY QuartileBetween
  <1>2. Quartile(f, 1) <= Quartile(f, 2) /\ Quartile(f, 2) <= Quartile(f, 3)
    BY QuartilesAscend
  <1> QED BY <1>1, <1>2 DEF FromBand, IsChoice, Methods

\* The usable cards of a channel carry figures.
LEMMA PricesAreFigures ==
  ASSUME NEW list \in Offers, NEW channel
  PROVE  Figures(Prices(list, channel))
  <1> DEFINE usable == {i \in DOMAIN list : list[i].channel = channel /\ list[i].price # None}
  <1>1. list \in Seq([channel : Channels, price : Nat \cup {None}])
    BY PricingAssumption
  <1>2. DOMAIN list = 1..Len(list) /\ Len(list) \in Nat
    BY <1>1
  <1>3. IsFiniteSet(DOMAIN list)
    BY <1>2, FS_Interval
  <1>4. IsFiniteSet(usable)
    BY <1>3, FS_Subset
  <1>5. \A i \in usable : list[i].price \in Nat
    <2> SUFFICES ASSUME NEW i \in usable PROVE list[i].price \in Nat
      OBVIOUS
    <2>1. list[i] \in [channel : Channels, price : Nat \cup {None}]
      <3> DEFINE CardType == [channel : Channels, price : Nat \cup {None}]
      <3>1. list \in Seq(CardType) /\ i \in 1..Len(list)
        BY <1>1, <1>2
      <3> HIDE DEF CardType
      <3>2. list[i] \in CardType
        BY <3>1
      <3> QED BY <3>2 DEF CardType
    <2>2. list[i].price \in Nat \cup {None}
      BY <2>1
    <2> QED BY <2>2
  <1>6. DOMAIN Prices(list, channel) = usable /\ \A i \in usable : Prices(list, channel)[i] = list[i].price
    BY DEF Prices
  <1> QED BY <1>4, <1>5, <1>6 DEF Figures

\* A sample that is not empty carries figures.
LEMMA SampleHasFigures ==
  ASSUME NEW band \in Bands, band # <<>>
  PROVE  Figures(band) /\ Count(band) > 0
  <1>1. band \in Seq(Nat)
    BY PricingAssumption
  <1>2. DOMAIN band = 1..Len(band) /\ Len(band) \in Nat \ {0}
    BY <1>1
  <1>3. IsFiniteSet(DOMAIN band) /\ Cardinality(DOMAIN band) = Len(band)
    BY <1>2, FS_Interval
  <1> QED BY <1>1, <1>2, <1>3 DEF Figures, Count

\* Whichever method has a figure to stand on, its estimate is in order.
LEMMA EstimateIsChoice ==
  ASSUME NEW d \in Deals, NEW list \in Offers, NEW band \in Bands
  PROVE  ChooseEstimate(d, list, band) = None \/ IsChoice(ChooseEstimate(d, list, band))
  <1> DEFINE of(channel) == Prices(list, channel)
  <1>1. \A channel : Figures(of(channel))
    BY PricesAreFigures
  <1>2. ASSUME NEW method \in Methods, NEW channel, Count(of(channel)) > 0
        PROVE  IsChoice(FromCards(method, of(channel)))
    BY <1>1, <1>2, CardsAreChoice
  <1>3. band # <<>> => IsChoice(FromBand(band))
    BY SampleHasFigures, BandIsChoice
  <1>4. {"in_house", "rate_card", "ai_build"} \subseteq Methods
    BY DEF Methods
  <1>5. \/ ChooseEstimate(d, list, band) = None
        \/ Count(of("in_house")) > 0 /\ ChooseEstimate(d, list, band) = FromCards("in_house", of("in_house"))
        \/ Count(of("supplier")) > 0 /\ ChooseEstimate(d, list, band) = FromCards("rate_card", of("supplier"))
        \/ band # <<>> /\ ChooseEstimate(d, list, band) = FromBand(band)
        \/ Count(of("ai_build")) > 0 /\ ChooseEstimate(d, list, band) = FromCards("ai_build", of("ai_build"))
    BY DEF ChooseEstimate
  <1> QED BY <1>2, <1>3, <1>4, <1>5

\* Where the search may begin is a price.
LEMMA FirstHighIsAPrice ==
  ASSUME NEW d \in Deals, NEW cost \in Nat, Slope(d) > 0
  PROVE  FirstHigh(d, cost) \in Nat
  <1>1. d \in Deal /\ Whole \in Nat \ {0}
    BY PricingAssumption
  <1>2. Slope(d) \in Nat \ {0}
    <2>1. d.percent \in Nat /\ d.buffer \in Nat /\ d.minPercent \in Nat
      BY <1>1 DEF Deal, Percents
    <2> QED BY <1>1, <2>1 DEF Slope
  <1> DEFINE fixed == cost + d.tools + (IF d.minimum = None THEN 0 ELSE d.minimum)
             scaled == (fixed + d.minHome * 10) * Whole
  <1>3. fixed + d.minHome * 10 \in Nat
    BY <1>1 DEF Deal
  <1>4. scaled \in Nat
    <2> HIDE DEF fixed
    <2>1. \A a, b \in Nat : a * b \in Nat
      OBVIOUS
    <2> QED BY <1>1, <1>3, <2>1
  <1>5. (scaled + Slope(d) - 1) \div Slope(d) \in Nat
    <2> HIDE DEF scaled
    <2>1. scaled + Slope(d) - 1 \in Nat
      BY <1>2, <1>4
    <2>2. \A a \in Nat, b \in Nat \ {0} : a \div b \in Nat
      OBVIOUS
    <2> QED BY <1>2, <2>1, <2>2
  <1>6. FirstHigh(d, cost) = (scaled + Slope(d) - 1) \div Slope(d) + 1
    BY DEF FirstHigh
  <1> HIDE DEF scaled
  <1> QED BY <1>5, <1>6

\* The step that chooses the estimate keeps everything in order.
LEMMA EstimateKeeps == ASSUME PricingInv, Estimate PROVE PricingInv'
  <1> USE DEF PricingInv, PricingTypeOK
  <1>1. estimate' = None \/ IsChoice(estimate')
    BY EstimateIsChoice DEF Estimate
  <1>2. phase' \in {"unpriced", "bound"} /\ (phase' = "unpriced" <=> estimate' = None)
        /\ low' = low /\ low = 0 /\ answer' = None /\ UNCHANGED <<deal, cards, sample, high>>
    BY DEF Estimate
  <1>3. PricingTypeOK'
    BY <1>1, <1>2
  <1>4. SearchBrackets'
    BY <1>2 DEF SearchBrackets
  <1> QED BY <1>2, <1>3, <1>4

\* The search begins with a price that clears, and nothing below it.
LEMMA BoundKeeps == ASSUME PricingInv, Bound PROVE PricingInv'
  <1> USE DEF PricingInv, PricingTypeOK
  <1> DEFINE cost == estimate.expected
             first == FirstHigh(deal, cost)
  <1>1. IsChoice(estimate) /\ cost \in Nat /\ deal \in Deals
    BY DEF Bound, IsChoice
  <1>2. /\ low = 0 /\ answer = None /\ low' = 0 /\ answer' = None
        /\ UNCHANGED <<deal, cards, sample, estimate>>
    BY DEF Bound
  <1>3. CASE phase' = "search"
    <2>1. Slope(deal) > 0 /\ high' \in {first, first * 100} /\ Clears(high', deal, cost)
      BY <1>3 DEF Bound
    <2>2. first \in Nat
      BY <1>1, <2>1, FirstHighIsAPrice
    <2> HIDE DEF first
    <2>3. high' \in Nat
      BY <2>1, <2>2
    <2>4. PricingTypeOK'
      BY <1>1, <1>2, <1>3, <2>3
    <2>5. SearchBrackets'
      BY <1>2, <2>1, <2>3 DEF SearchBrackets
    <2> QED BY <1>2, <1>3, <2>4, <2>5
  <1>4. CASE phase' = "priced" /\ UNCHANGED high
    BY <1>1, <1>2, <1>4 DEF SearchBrackets
  <1> QED BY <1>3, <1>4 DEF Bound

\* Halving keeps a price that clears above one that does not.
LEMMA HalveKeeps == ASSUME PricingInv, Halve PROVE PricingInv'
  <1> USE DEF PricingInv, PricingTypeOK
  <1>1. /\ phase = "search" /\ low < high /\ low \in Nat /\ high \in Nat /\ answer = None
        /\ UNCHANGED <<deal, cards, sample, phase, estimate, answer>>
    BY DEF Halve
  <1>2. Mid \in Nat /\ low <= Mid /\ Mid < high
    BY <1>1 DEF Mid
  <1>3. CASE Clears(Mid, deal, estimate.expected)
    <2>1. high' = Mid /\ UNCHANGED low
      BY <1>3 DEF Halve
    <2>2. SearchBrackets'
      BY <1>1, <1>2, <1>3, <2>1 DEF SearchBrackets
    <2> QED BY <1>1, <1>2, <2>1, <2>2
  <1>4. CASE ~Clears(Mid, deal, estimate.expected)
    <2>1. low' = Mid + 1 /\ UNCHANGED high
      BY <1>4 DEF Halve
    <2>2. low' - 1 = Mid /\ low' \in Nat /\ low' <= high
      BY <1>1, <1>2, <2>1
    <2>3. SearchBrackets'
      BY <1>1, <1>4, <2>1, <2>2 DEF SearchBrackets
    <2> QED BY <1>1, <2>1, <2>2, <2>3
  <1> QED BY <1>3, <1>4

\* The price the search ends with.
LEMMA FoundKeeps == ASSUME PricingInv, Found PROVE PricingInv'
  BY DEF PricingInv, PricingTypeOK, Found, SearchBrackets

\* Every step of the pricing keeps the bracket.
LEMMA PricingKeeps ==
  /\ PricingInit => PricingInv
  /\ PricingInv /\ [PricingNext]_pricingVars => PricingInv'
  <1>1. PricingInit => PricingInv
    BY PricingAssumption DEF PricingInit, PricingInv, PricingTypeOK, SearchBrackets
  <1>2. ASSUME PricingInv, UNCHANGED pricingVars PROVE PricingInv'
    BY <1>2 DEF PricingInv, PricingTypeOK, SearchBrackets, pricingVars
  <1>3. PricingInv /\ [PricingNext]_pricingVars => PricingInv'
    BY <1>2, EstimateKeeps, BoundKeeps, HalveKeeps, FoundKeeps DEF PricingNext
  <1> QED BY <1>1, <1>3

\* For every deal, every list of rate cards and every sample: an estimate's low,
\* expected and high figures are amounts in that order (estimating.ts:180,
\* price-bands.ts:30), and the search works on whole prices.
THEOREM EstimatesAreInOrder == PricingSpec => []PricingTypeOK
  <1>1. PricingInv => PricingTypeOK
    BY DEF PricingInv
  <1> QED BY <1>1, PricingKeeps, PTL DEF PricingSpec

\* For every deal: the price requiredPrice finds clears both rules, and the next
\* one down does not (margin.ts:343).
THEOREM PriceClearsBothRules == PricingSpec => []SearchBrackets
  <1>1. PricingInv => SearchBrackets
    BY DEF PricingInv
  <1> QED BY <1>1, PricingKeeps, PTL DEF PricingSpec

-----------------------------------------------------------------------------
\* The six side by side (MCJobsToBids).

\* Each part begins with its own invariant.
LEMMA InitJobs == Init => JobsInv
  <1> SUFFICES ASSUME Init PROVE JobsInv
    OBVIOUS
  <1>1. DraftingInv /\ SchedulesInv /\ PricingInv
    BY DraftingInitInv, InitSchedules, PricingKeeps DEF Init
  <1>2. AccountsInv /\ MembersInv
    BY InitAccounts, MembersInitHolds DEF Init
  <1> QED BY <1>1, <1>2 DEF JobsInv

\* A step of one part keeps its invariant, and which part it is.
LEMMA NextJobs == JobsInv /\ [Next]_vars => JobsInv'
  <1> SUFFICES ASSUME JobsInv, [Next]_vars PROVE JobsInv'
    OBVIOUS
  <1>1. /\ part' = part
        /\ part = "drafting" => [DraftingNext]_draftingVars
        /\ part = "schedules" => [SchedulesNext]_scheduleVars
        /\ part = "pricing" => [PricingNext]_pricingVars
        /\ part = "accounts" => [AccountsNext]_accountsVars
        /\ part = "members" => [MembersNext]_memberVars
    BY DEF Next, vars
  <1>2. (part = "drafting" => DraftingInv') /\ (part = "schedules" => SchedulesInv')
    BY <1>1, DraftingNextInv, NextSchedules DEF JobsInv
  <1>3. part = "pricing" => PricingInv'
    BY <1>1, PricingKeeps DEF JobsInv
  <1>4. (part = "accounts" => AccountsInv') /\ (part = "members" => MembersInv')
    BY <1>1, NextAccounts, MembersNextHolds DEF JobsInv
  <1> QED BY <1>1, <1>2, <1>3, <1>4 DEF JobsInv

\* Whichever part is at work, and for all values of the constants, not those of the
\* run alone: the types of its variables and what its theorems rest on.
THEOREM JobsInvariance == FairSpec => []JobsInv
  BY InitJobs, NextJobs, PTL DEF FairSpec

=============================================================================
