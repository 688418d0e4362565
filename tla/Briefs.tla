-------------------------------- MODULE Briefs --------------------------------
(***************************************************************************)
(* From a client's replies to a locked brief, on one thread: the answers   *)
(* discovery collects (routes/discovery.ts, workers/discovery.ts,          *)
(* packages/db discovery.ts), the draft a model makes of them              *)
(* (brief-build.ts) and the versions people edit and lock                  *)
(* (routes/briefs.ts, packages/db briefs.ts, migration 0003).              *)
(*                                                                         *)
(* A transaction reads first and writes later, at READ COMMITTED: what it  *)
(* read may have changed by then.  The answers of a session are one value, *)
(* read and written as a whole.  Of a client's answer the model keeps that *)
(* it is one, of an operator's what it says, of a brief whether it has     *)
(* what a locked one needs.                                                *)
(***************************************************************************)
EXTENDS Integers, Sequences, FiniteSets

CONSTANTS
  Questions,    \* the question set
  Typed,        \* what operators may write for an answer
  Threshold,    \* answers from which a brief is built
  Replies,      \* the client's messages
  Contents,     \* what a brief may say
  Complete,     \* the contents that may be locked
  BriefRequests, \* requests that may be in progress at once
  MaxVersions   \* bound: versions of the brief

ASSUME BriefsAssumption ==
  /\ Complete \subseteq Contents /\ Contents # {}
  /\ IsFiniteSet(Questions) /\ Typed \cap {"open", "client"} = {}
  /\ Threshold \in Nat /\ MaxVersions \in Nat

Sources == {"open", "client"} \cup Typed
Unanswered == [q \in Questions |-> "open"]
ReplySteps == {"none", "waiting", "ask", "hand", "over"}

VARIABLES
  session,      \* discovery has started
  answers,      \* discovery_sessions.answers: none, the client's or an operator's
  reply,        \* discovery's jobs: step, the answers read
  build,        \* the builder's job and its step
  versions,     \* briefs, in order: contents, locked
  request       \* requests: what they do, the version or the answers they read

discoveryVars == <<session, answers, reply>>
briefsVars == <<discoveryVars, build, versions, request>>

NoReply == [step |-> "none", read |-> Unanswered]
NoRequest(anything) ==
  [does |-> "nothing", version |-> 0, says |-> anything, read |-> Unanswered]
Calm == NoRequest(CHOOSE c \in Contents : TRUE)

Open(a) == {q \in Questions : a[q] = "open"}
Enough(a) == Cardinality(Questions \ Open(a)) >= Threshold

BriefsInit ==
  /\ session = FALSE /\ answers = Unanswered
  /\ reply = [m \in Replies |-> NoReply]
  /\ build = "none"
  /\ versions = <<>>
  /\ request = [r \in BriefRequests |-> Calm]

-----------------------------------------------------------------------------
\* Discovery.  The messages it drafts with the next questions are left to Privacy.
StartDiscovery ==
  /\ ~session /\ session' = TRUE
  /\ UNCHANGED <<answers, reply, build, versions, request>>

Answer(r) == request' = [request EXCEPT ![r] = Calm]

\* Answers by hand: a request reads the session, ...
ReadAnswers(r) ==
  /\ session
  /\ request[r].does = "nothing"
  /\ request' = [request EXCEPT ![r].does = "answer", ![r].read = answers]
  /\ UNCHANGED <<discoveryVars, build, versions>>

\* ... and writes what it read with the answers it gives, whatever is there by
\* now.  The builder is not called.
CaptureAnswers(r) ==
  /\ request[r].does = "answer"
  /\ \E gives \in SUBSET Questions \ {{}} : \E text \in [gives -> Typed] :
       answers' = [q \in Questions |-> IF q \in gives THEN text[q] ELSE request[r].read[q]]
  /\ Answer(r)
  /\ UNCHANGED <<session, reply, build, versions>>

\* The poll adds a job for each message of the client's.
ReplyArrives(m) ==
  /\ reply[m].step = "none"
  /\ reply' = [reply EXCEPT ![m].step = "waiting"]
  /\ UNCHANGED <<session, answers, build, versions, request>>

ReadSession(m) ==
  /\ reply[m].step = "waiting"
  /\ reply' = [reply EXCEPT ![m] =
       IF session /\ Open(answers) # {} THEN [step |-> "ask", read |-> answers]
       ELSE [NoReply EXCEPT !.step = "over"]]
  /\ UNCHANGED <<session, answers, build, versions, request>>

\* Faulty variant: the model's answer takes the place of one there is.
StoreAnswersOver(m) ==
  /\ reply[m].step = "ask"
  /\ \E accepted \in SUBSET Questions :
       answers' = [q \in Questions |-> IF q \in accepted THEN "client" ELSE reply[m].read[q]]
  /\ reply' = [reply EXCEPT ![m] = [NoReply EXCEPT !.step = "hand"]]
  /\ UNCHANGED <<session, build, versions, request>>

\* The model's answers to what was open go in with the answers read before it
\* was asked.
StoreAnswers(m) ==
  /\ reply[m].step = "ask"
  /\ \E accepted \in SUBSET Open(reply[m].read) :
       answers' = [q \in Questions |-> IF q \in accepted THEN "client" ELSE reply[m].read[q]]
  /\ reply' = [reply EXCEPT ![m] =
       [NoReply EXCEPT !.step = IF Enough(answers') THEN "hand" ELSE "over"]]
  /\ UNCHANGED <<session, build, versions, request>>

\* After the commit; one build job per thread, its id may be free again.
HandToBuilder(m) ==
  /\ reply[m].step = "hand"
  /\ reply' = [reply EXCEPT ![m].step = "over"]
  /\ \/ build' = IF build \in {"none", "over"} THEN "waiting" ELSE build
     \/ build # "none" /\ UNCHANGED build
  /\ UNCHANGED <<session, answers, versions, request>>

\* The model is not reached, or the process dies: the job starts again, also
\* one that has stored its answers.
ReplyFails(m) ==
  /\ reply[m].step \in {"ask", "hand"}
  /\ \E step \in {"waiting", "over"} : reply' = [reply EXCEPT ![m] = [NoReply EXCEPT !.step = step]]
  /\ UNCHANGED <<session, answers, build, versions, request>>

-----------------------------------------------------------------------------
\* Briefs.  Every insert takes the next number on the thread.
Insert(contents) ==
  /\ Len(versions) < MaxVersions
  /\ versions' = Append(versions, [says |-> contents, locked |-> FALSE])

\* The builder drafts for a thread that has no brief yet.
BuilderReads ==
  /\ build = "waiting"
  /\ build' = IF Enough(answers) /\ versions = <<>> THEN "ask" ELSE "over"
  /\ UNCHANGED <<discoveryVars, versions, request>>

BuilderStores ==
  /\ build = "ask"
  /\ \E c \in Contents : Insert(c)
  /\ build' = "over"
  /\ UNCHANGED <<discoveryVars, request>>

BuilderFails ==
  /\ build = "ask"
  /\ build' \in {"waiting", "over"}
  /\ UNCHANGED <<discoveryVars, versions, request>>

\* A request reads its version (the newest one's state too, to make another).
ReadVersion(r, does, v) ==
  /\ request[r].does = "nothing"
  /\ \/ does \in {"edit", "lock"} /\ v \in DOMAIN versions /\ ~versions[v].locked
     \/ does = "copy" /\ v \in DOMAIN versions /\ versions[Len(versions)].locked
     \/ does = "draft" /\ v = 0 /\ versions = <<>>
  /\ request' = [request EXCEPT ![r].does = does, ![r].version = v,
                                ![r].says = IF v = 0 THEN @ ELSE versions[v].says]
  /\ UNCHANGED <<discoveryVars, build, versions>>

\* Refused, or failed: two inserts may meet on the thread's unique number.
RequestFails(r) ==
  /\ request[r].does # "nothing"
  /\ Answer(r)
  /\ UNCHANGED <<discoveryVars, build, versions>>

DraftByHand(r) ==
  /\ request[r].does = "draft"
  /\ \E c \in Contents : Insert(c)
  /\ Answer(r)
  /\ UNCHANGED <<discoveryVars, build>>

CopyVersion(r) ==
  /\ request[r].does = "copy"
  /\ Insert(request[r].says)
  /\ Answer(r)
  /\ UNCHANGED <<discoveryVars, build>>

\* Faulty variant: only the version read was asked whether it is locked.
UpdateBriefAnyway(r) ==
  /\ request[r].does = "edit"
  /\ \E c \in Contents : versions' = [versions EXCEPT ![request[r].version].says = c]
  /\ Answer(r)
  /\ UNCHANGED <<discoveryVars, build>>

\* The row is changed where it is not locked.
UpdateBrief(r) ==
  LET v == request[r].version IN
  /\ request[r].does = "edit"
  /\ ~versions[v].locked
  /\ \E c \in Contents : versions' = [versions EXCEPT ![v].says = c]
  /\ Answer(r)
  /\ UNCHANGED <<discoveryVars, build>>

\* Faulty variant: the row is locked on the word of the version read.
LockBriefAsRead(r) ==
  LET v == request[r].version IN
  /\ request[r].does = "lock"
  /\ request[r].says \in Complete
  /\ ~versions[v].locked
  /\ versions' = [versions EXCEPT ![v].locked = TRUE]
  /\ Answer(r)
  /\ UNCHANGED <<discoveryVars, build>>

\* What is missing is judged on the version read; the database judges the row.
LockBrief(r) ==
  LET v == request[r].version IN
  /\ request[r].does = "lock"
  /\ request[r].says \in Complete
  /\ ~versions[v].locked /\ versions[v].says \in Complete
  /\ versions' = [versions EXCEPT ![v].locked = TRUE]
  /\ Answer(r)
  /\ UNCHANGED <<discoveryVars, build>>

BriefsNext ==
  \/ StartDiscovery
  \/ \E m \in Replies :
       \/ ReplyArrives(m) \/ ReadSession(m) \/ StoreAnswers(m)
       \/ HandToBuilder(m) \/ ReplyFails(m)
  \/ BuilderReads \/ BuilderStores \/ BuilderFails
  \/ \E r \in BriefRequests :
       \/ \E does \in {"draft", "edit", "lock", "copy"}, v \in 0..MaxVersions :
            ReadVersion(r, does, v)
       \/ ReadAnswers(r) \/ CaptureAnswers(r)
       \/ RequestFails(r) \/ DraftByHand(r) \/ CopyVersion(r) \/ UpdateBrief(r) \/ LockBrief(r)

BriefsSpec == BriefsInit /\ [][BriefsNext]_briefsVars

-----------------------------------------------------------------------------
ReplyStates == [step : ReplySteps, read : [Questions -> Sources]]
Version == [says : Contents, locked : BOOLEAN]
RequestStates ==
  [does : {"nothing", "answer", "draft", "edit", "lock", "copy"}, version : 0..MaxVersions,
   says : Contents, read : [Questions -> Sources]]

\* Every variable keeps its type.
BriefsTypeOK ==
  /\ session \in BOOLEAN
  /\ answers \in [Questions -> Sources]
  /\ reply \in [Replies -> ReplyStates]
  /\ build \in {"none", "waiting", "ask", "over"}
  /\ versions \in Seq(Version) /\ Len(versions) <= MaxVersions
  /\ request \in [BriefRequests -> RequestStates]

\* A locked version is complete and is never changed, unlocked or removed, though
\* edits and locks read the version before they write it (briefs.ts PUT and lock,
\* updateBrief, 0003's locked_brief_is_complete).
LockedBriefStands ==
  [][ /\ \A v \in DOMAIN versions : versions[v].locked =>
           v \in DOMAIN versions' /\ versions'[v] = versions[v]
      /\ \A v \in DOMAIN versions' : versions'[v].locked => versions'[v].says \in Complete
    ]_briefsVars

\* An answer an operator gave changes only by another operator's, and otherwise
\* only if a discovery job or a request that had read the session before the answer
\* was there writes what it read; never by what the model makes of a later reply
\* (workers/discovery.ts, routes/discovery.ts PATCH, db/discovery.ts
\* captureDiscoveryAnswers).
OperatorAnswersStand ==
  [][ \A q \in Questions :
        answers[q] \in Typed /\ answers'[q] # answers[q] =>
          \/ \E m \in Replies :
               /\ reply[m].step = "ask" /\ reply'[m].step # "ask"
               /\ reply[m].read[q] # answers[q]
          \/ \E r \in BriefRequests :
               /\ request[r].does = "answer" /\ request'[r].does # "answer"
               /\ answers'[q] \in Typed \/ request[r].read[q] # answers[q] ]_briefsVars

-----------------------------------------------------------------------------
\* What carries LockedBriefStands from step to step.
RequestsNameVersions ==
  \A r \in BriefRequests :
    request[r].does \in {"edit", "lock", "copy"} => request[r].version \in DOMAIN versions

LockedIsComplete ==
  \A v \in DOMAIN versions : versions[v].locked => versions[v].says \in Complete

BriefsInv == BriefsTypeOK /\ RequestsNameVersions /\ LockedIsComplete

=============================================================================
