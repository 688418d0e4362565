--------------------------- MODULE SourcingProofs ----------------------------
(***************************************************************************)
(* What a job goes through once it is to be delivered, for any number of   *)
(* questions, replies, requests, posts, bids, prices and orders, whatever  *)
(* fails, is answered late or is lost: the brief, the posts it is sourced  *)
(* with, the bids priced at the quotes they draw, and the orders.          *)
(***************************************************************************)
EXTENDS Briefs, SourcingPosts, Reprice, Delivery,
        FiniteSetTheorems, TLAPS

-----------------------------------------------------------------------------
\* Discovery and the brief (Briefs).
\* A request before it starts is a request, and does nothing.
LEMMA CalmIsARequest == Calm \in RequestStates /\ Calm.does = "nothing"
  <1>1. (CHOOSE c \in Contents : TRUE) \in Contents
    BY BriefsAssumption
  <1>2. Unanswered \in [Questions -> Sources]
    BY DEF Unanswered, Sources
  <1> QED BY <1>1, <1>2, BriefsAssumption DEF Calm, NoRequest, RequestStates

\* An empty brief satisfies the invariant.
LEMMA InitBriefs == BriefsInit => BriefsInv
  <1> SUFFICES ASSUME BriefsInit PROVE BriefsInv
    OBVIOUS
  <1>1. versions = <<>> /\ versions \in Seq(Version) /\ Len(versions) = 0 /\ DOMAIN versions = {}
    BY DEF BriefsInit
  <1>2. Unanswered \in [Questions -> Sources]
    BY DEF Unanswered, Sources
  <1>3. NoReply \in ReplyStates
    BY <1>2 DEF NoReply, ReplyStates, ReplySteps
  <1>4. request \in [BriefRequests -> RequestStates] /\ \A r \in BriefRequests : request[r] = Calm
    BY CalmIsARequest DEF BriefsInit
  <1>5. reply \in [Replies -> ReplyStates]
    BY <1>3 DEF BriefsInit
  <1>6. BriefsTypeOK
    <2>1. Len(versions) <= MaxVersions
      BY <1>1, BriefsAssumption DEF BriefsInit
    <2> QED BY <1>1, <1>2, <1>4, <1>5, <2>1 DEF BriefsInit, BriefsTypeOK
  <1>7. RequestsNameVersions /\ LockedIsComplete
    BY <1>1, <1>4, CalmIsARequest DEF RequestsNameVersions, LockedIsComplete
  <1> QED BY <1>6, <1>7 DEF BriefsInv

-----------------------------------------------------------------------------
\* Discovery and the builder's bookkeeping touch no version and no request.
Discovery ==
  \/ StartDiscovery
  \/ \E m \in Replies :
       ReplyArrives(m) \/ ReadSession(m) \/ StoreAnswers(m) \/ HandToBuilder(m) \/ ReplyFails(m)

\* A step of a discovery keeps its types and touches no version.
LEMMA DiscoveryTypes ==
  ASSUME BriefsTypeOK, Discovery
  PROVE  /\ session' \in BOOLEAN /\ answers' \in [Questions -> Sources]
         /\ reply' \in [Replies -> ReplyStates]
         /\ build' \in {"none", "waiting", "ask", "over"}
         /\ UNCHANGED <<versions, request>>
  <1> USE DEF BriefsTypeOK
  <1>1. Unanswered \in [Questions -> Sources] /\ NoReply \in ReplyStates
    BY DEF Unanswered, Sources, NoReply, ReplyStates, ReplySteps
  <1>3. CASE StartDiscovery
    BY <1>3 DEF StartDiscovery
  <1>5. ASSUME NEW m \in Replies, ReplyArrives(m) \/ HandToBuilder(m)
        PROVE  /\ reply' \in [Replies -> ReplyStates] /\ build' \in {"none", "waiting", "ask", "over"}
               /\ UNCHANGED <<session, answers, versions, request>>
    BY <1>5 DEF ReplyArrives, HandToBuilder, ReplyStates, ReplySteps
  <1>6. ASSUME NEW m \in Replies, NEW to \in ReplyStates,
               reply' = [reply EXCEPT ![m] = to]
        PROVE  reply' \in [Replies -> ReplyStates]
    BY <1>6
  <1>7. \A step \in ReplySteps : [NoReply EXCEPT !.step = step] \in ReplyStates
    BY <1>1 DEF ReplyStates
  <1>8. ASSUME NEW m \in Replies, ReadSession(m)
        PROVE  /\ reply' \in [Replies -> ReplyStates]
               /\ UNCHANGED <<session, answers, build, versions, request>>
    <2> DEFINE to == IF session /\ Open(answers) # {} THEN [step |-> "ask", read |-> answers]
                     ELSE [NoReply EXCEPT !.step = "over"]
    <2>1. to \in ReplyStates
      BY <1>7 DEF ReplyStates, ReplySteps
    <2>2. reply' = [reply EXCEPT ![m] = to]
      BY <1>8 DEF ReadSession
    <2> HIDE DEF to
    <2> QED BY <1>6, <1>8, <2>1, <2>2 DEF ReadSession
  <1>9. ASSUME NEW m \in Replies, StoreAnswers(m)
        PROVE  /\ reply' \in [Replies -> ReplyStates] /\ answers' \in [Questions -> Sources]
               /\ UNCHANGED <<session, build, versions, request>>
    <2>1. reply[m].read \in [Questions -> Sources]
      BY DEF ReplyStates
    <2>2. answers' \in [Questions -> Sources]
      BY <1>9, <2>1 DEF StoreAnswers, Sources
    <2>3. \E step \in ReplySteps : reply' = [reply EXCEPT ![m] = [NoReply EXCEPT !.step = step]]
      BY <1>9 DEF StoreAnswers, ReplySteps
    <2> QED BY <1>6, <1>7, <1>9, <2>2, <2>3 DEF StoreAnswers
  <1>10. ASSUME NEW m \in Replies, ReplyFails(m)
         PROVE  /\ reply' \in [Replies -> ReplyStates]
                /\ UNCHANGED <<session, answers, build, versions, request>>
    <2>1. \E step \in ReplySteps : reply' = [reply EXCEPT ![m] = [NoReply EXCEPT !.step = step]]
      BY <1>10 DEF ReplyFails, ReplySteps
    <2> QED BY <1>6, <1>7, <1>10, <2>1 DEF ReplyFails
  <1> QED BY <1>3, <1>5, <1>8, <1>9, <1>10 DEF Discovery

-----------------------------------------------------------------------------
\* A new version comes after those there are.
LEMMA InsertAppends ==
  ASSUME BriefsTypeOK, NEW c \in Contents, Insert(c)
  PROVE  /\ versions' \in Seq(Version) /\ Len(versions') <= MaxVersions
         /\ DOMAIN versions \subseteq DOMAIN versions'
         /\ \A v \in DOMAIN versions : versions'[v] = versions[v]
         /\ \A v \in DOMAIN versions' : v \in DOMAIN versions \/ ~versions'[v].locked
  <1> DEFINE n == [says |-> c, locked |-> FALSE]
  <1>1. n \in Version /\ ~n.locked
    BY DEF Version
  <1>2. versions' = Append(versions, n) /\ Len(versions) < MaxVersions
    BY DEF Insert
  <1>3. versions \in Seq(Version)
    BY DEF BriefsTypeOK
  <1> HIDE DEF n
  <1> QED BY <1>1, <1>2, <1>3, BriefsAssumption

\* A change of one version leaves the others as they are.
LEMMA ChangeOne ==
  ASSUME BriefsTypeOK, NEW v \in DOMAIN versions, NEW to \in Version,
         versions' = [versions EXCEPT ![v] = to]
  PROVE  /\ versions' \in Seq(Version) /\ Len(versions') = Len(versions)
         /\ DOMAIN versions' = DOMAIN versions
         /\ versions'[v] = to
         /\ \A u \in DOMAIN versions : u # v => versions'[u] = versions[u]
  BY DEF BriefsTypeOK

\* What a step does to the versions: nothing, one more draft, other contents in a
\* draft, or a lock on a complete one.
Versioned ==
  /\ versions' \in Seq(Version) /\ Len(versions') <= MaxVersions
  /\ DOMAIN versions \subseteq DOMAIN versions'
  /\ \A v \in DOMAIN versions : versions[v].locked => versions'[v] = versions[v]
  /\ \A v \in DOMAIN versions' :
       versions'[v].locked =>
         \/ v \in DOMAIN versions /\ versions[v].locked
         \/ versions'[v].says \in Complete

\* Every step adds at most the next version and rewrites none.
LEMMA VersionsNext ==
  ASSUME BriefsInv, [BriefsNext]_briefsVars
  PROVE  Versioned
  <1> USE DEF BriefsInv
  <1>1. CASE UNCHANGED versions
    BY <1>1 DEF Versioned, BriefsTypeOK
  <1>2. CASE \E c \in Contents : Insert(c)
    BY <1>2, InsertAppends DEF Versioned
  <1>3. ASSUME NEW r \in BriefRequests, UpdateBrief(r) PROVE Versioned
    <2> DEFINE v == request[r].version
    <2>1. v \in DOMAIN versions
      BY <1>3 DEF UpdateBrief, RequestsNameVersions
    <2>2. PICK c \in Contents : versions' = [versions EXCEPT ![v].says = c]
      BY <1>3 DEF UpdateBrief
    <2> DEFINE to == [versions[v] EXCEPT !.says = c]
    <2>3. versions[v] \in Version
      BY <2>1 DEF BriefsTypeOK
    <2>4. to \in Version /\ to.locked = versions[v].locked
      BY <2>3 DEF Version
    <2>5. versions' = [versions EXCEPT ![v] = to]
      BY <2>2
    <2>6. ~versions[v].locked
      BY <1>3 DEF UpdateBrief
    <2> HIDE DEF to, v
    <2> QED BY <2>1, <2>4, <2>5, <2>6, ChangeOne DEF Versioned, BriefsTypeOK
  <1>4. ASSUME NEW r \in BriefRequests, LockBrief(r) PROVE Versioned
    <2> DEFINE v == request[r].version
               to == [versions[v] EXCEPT !.locked = TRUE]
    <2>1. v \in DOMAIN versions
      BY <1>4 DEF LockBrief, RequestsNameVersions
    <2>2. versions' = [versions EXCEPT ![v] = to] /\ ~versions[v].locked
          /\ versions[v].says \in Complete
      BY <1>4 DEF LockBrief
    <2>3. versions[v] \in Version
      BY <2>1 DEF BriefsTypeOK
    <2>4. to \in Version /\ to.says = versions[v].says
      BY <2>3 DEF Version
    <2> HIDE DEF to, v
    <2> QED BY <2>1, <2>2, <2>4, ChangeOne DEF Versioned, BriefsTypeOK
  <1>5. ASSUME NEW r \in BriefRequests, CopyVersion(r) PROVE \E c \in Contents : Insert(c)
    BY <1>5 DEF CopyVersion, BriefsTypeOK, RequestStates
  <1>6. CASE Discovery
    BY <1>1, <1>6, DiscoveryTypes
  <1> QED BY <1>1, <1>2, <1>3, <1>4, <1>5, <1>6
       DEF BriefsNext, Discovery, briefsVars, BuilderReads, BuilderStores, BuilderFails,
           ReadVersion, ReadAnswers, CaptureAnswers, RequestFails, DraftByHand

\* What a step does to the requests, the builder and the answers.
LEMMA RequestsNext ==
  ASSUME BriefsInv, [BriefsNext]_briefsVars
  PROVE  /\ request' \in [BriefRequests -> RequestStates]
         /\ \A r \in BriefRequests : request'[r].does \in {"edit", "lock", "copy"} =>
              request'[r].version \in DOMAIN versions
         /\ session' \in BOOLEAN /\ answers' \in [Questions -> Sources]
         /\ reply' \in [Replies -> ReplyStates]
         /\ build' \in {"none", "waiting", "ask", "over"}
  <1> USE DEF BriefsInv, BriefsTypeOK, RequestsNameVersions
  <1>1. CASE Discovery
    BY <1>1, DiscoveryTypes
  <1>2. CASE BuilderReads \/ BuilderStores \/ BuilderFails
    BY <1>2 DEF BuilderReads, BuilderStores, BuilderFails, discoveryVars
  <1>3. CASE UNCHANGED briefsVars
    BY <1>3 DEF briefsVars, discoveryVars
  <1>4. ASSUME NEW r \in BriefRequests, NEW to \in RequestStates,
               to.does \in {"edit", "lock", "copy"} => to.version \in DOMAIN versions,
               request' = [request EXCEPT ![r] = to]
        PROVE  /\ request' \in [BriefRequests -> RequestStates]
               /\ \A x \in BriefRequests : request'[x].does \in {"edit", "lock", "copy"} =>
                    request'[x].version \in DOMAIN versions
    BY <1>4
  <1>5. ASSUME NEW r \in BriefRequests,
               RequestFails(r) \/ DraftByHand(r) \/ CopyVersion(r) \/ UpdateBrief(r) \/ LockBrief(r)
        PROVE  request' = [request EXCEPT ![r] = Calm] /\ UNCHANGED <<discoveryVars, build>>
    BY <1>5 DEF RequestFails, DraftByHand, CopyVersion, UpdateBrief, LockBrief, Answer
  <1>6. ASSUME NEW r \in BriefRequests, NEW does \in {"draft", "edit", "lock", "copy"},
               NEW v \in 0..MaxVersions, ReadVersion(r, does, v)
        PROVE  \E to \in RequestStates :
                 /\ to.does \in {"edit", "lock", "copy"} => to.version \in DOMAIN versions
                 /\ request' = [request EXCEPT ![r] = to]
                 /\ UNCHANGED <<discoveryVars, build>>
    <2> DEFINE says == IF v = 0 THEN request[r].says ELSE versions[v].says
               to == [request[r] EXCEPT !.does = does, !.version = v, !.says = says]
    <2>1. does # "draft" => v \in DOMAIN versions
      BY <1>6 DEF ReadVersion
    <2>2. does = "draft" => v = 0
      BY <1>6 DEF ReadVersion
    <2>3. says \in Contents
      <3>1. request[r].says \in Contents
        BY DEF RequestStates
      <3>2. v \in DOMAIN versions => versions[v] \in Version
        OBVIOUS
      <3> QED BY <2>1, <2>2, <3>1, <3>2 DEF Version
    <2>4. to \in RequestStates /\ to.does = does /\ to.version = v
      <3> HIDE DEF says
      <3> QED BY <2>3 DEF RequestStates
    <2>5. request' = [request EXCEPT ![r] = to] /\ UNCHANGED <<discoveryVars, build>>
      BY <1>6 DEF ReadVersion
    <2> HIDE DEF to
    <2> QED BY <2>1, <2>4, <2>5
  <1>7. UNCHANGED <<discoveryVars, build>> =>
          /\ session' \in BOOLEAN /\ answers' \in [Questions -> Sources]
          /\ reply' \in [Replies -> ReplyStates]
          /\ build' \in {"none", "waiting", "ask", "over"}
    BY DEF discoveryVars
  <1>8. ASSUME NEW r \in BriefRequests,
               RequestFails(r) \/ DraftByHand(r) \/ CopyVersion(r) \/ UpdateBrief(r) \/ LockBrief(r)
        PROVE  /\ request' \in [BriefRequests -> RequestStates]
               /\ \A x \in BriefRequests : request'[x].does \in {"edit", "lock", "copy"} =>
                    request'[x].version \in DOMAIN versions
    BY <1>4, <1>5, <1>8, CalmIsARequest
  <1>9. ASSUME NEW r \in BriefRequests, ReadAnswers(r)
        PROVE  \E to \in RequestStates :
                 to.does = "answer" /\ request' = [request EXCEPT ![r] = to]
    <2> DEFINE to == [request[r] EXCEPT !.does = "answer", !.read = answers]
    <2>1. to \in RequestStates /\ to.does = "answer"
      BY DEF RequestStates
    <2>2. request' = [request EXCEPT ![r] = to]
      BY <1>9 DEF ReadAnswers
    <2> HIDE DEF to
    <2> QED BY <2>1, <2>2
  <1>10. ASSUME NEW r \in BriefRequests, CaptureAnswers(r)
         PROVE  /\ request' = [request EXCEPT ![r] = Calm]
                /\ answers' \in [Questions -> Sources] /\ UNCHANGED <<session, reply, build>>
    <2>1. request[r].read \in [Questions -> Sources]
      BY DEF RequestStates
    <2> QED BY <1>10, <2>1 DEF CaptureAnswers, Answer, Sources
  <1>11. \A r \in BriefRequests : ReadAnswers(r) => UNCHANGED <<discoveryVars, build>>
    BY DEF ReadAnswers
  <1>12. ASSUME NEW r \in BriefRequests, ReadAnswers(r) \/ CaptureAnswers(r)
         PROVE  /\ request' \in [BriefRequests -> RequestStates]
                /\ \A x \in BriefRequests : request'[x].does \in {"edit", "lock", "copy"} =>
                     request'[x].version \in DOMAIN versions
    BY <1>4, <1>9, <1>10, <1>12, CalmIsARequest
  <1> QED BY <1>1, <1>2, <1>3, <1>4, <1>5, <1>6, <1>7, <1>8, <1>10, <1>11, <1>12
          DEF BriefsNext, Discovery

\* Every step of a session and of its briefs keeps the invariant.
LEMMA BriefsNextInv == BriefsInv /\ [BriefsNext]_briefsVars => BriefsInv'
  <1> SUFFICES ASSUME BriefsInv, [BriefsNext]_briefsVars PROVE BriefsInv'
    OBVIOUS
  <1>1. Versioned
    BY VersionsNext
  <1>2. BriefsTypeOK'
    BY <1>1, RequestsNext DEF BriefsTypeOK, Versioned
  <1>3. RequestsNameVersions'
    BY <1>1, RequestsNext DEF RequestsNameVersions, Versioned
  <1>4. LockedIsComplete'
    BY <1>1 DEF LockedIsComplete, Versioned, BriefsInv
  <1> QED BY <1>2, <1>3, <1>4 DEF BriefsInv

-----------------------------------------------------------------------------
\* The inductive invariant of a brief holds of every reachable state.
THEOREM BriefsInvariance == BriefsSpec => []BriefsInv
  BY InitBriefs, BriefsNextInv, PTL DEF BriefsSpec

\* Every variable keeps its type.
THEOREM BriefsTypeCorrect == BriefsSpec => []BriefsTypeOK
  BY BriefsInvariance, PTL DEF BriefsInv

\* A locked version is complete and stays as it is, for any number of requests
\* and versions (db/briefs.ts updateBrief, lockBrief).
THEOREM LockedStands == BriefsSpec => LockedBriefStands
  <1> DEFINE Step ==
        /\ \A v \in DOMAIN versions : versions[v].locked =>
             v \in DOMAIN versions' /\ versions'[v] = versions[v]
        /\ \A v \in DOMAIN versions' : versions'[v].locked => versions'[v].says \in Complete
  <1>1. BriefsInv /\ BriefsInv' /\ [BriefsNext]_briefsVars => [Step]_briefsVars
    <2> SUFFICES ASSUME BriefsInv, BriefsInv', [BriefsNext]_briefsVars PROVE Step
      OBVIOUS
    <2>1. Versioned
      BY VersionsNext
    <2> QED BY <2>1 DEF Versioned, BriefsInv, LockedIsComplete
  <1>2. BriefsSpec => [][Step]_briefsVars
    BY BriefsInvariance, <1>1, PTL DEF BriefsSpec
  <1> QED BY <1>2 DEF LockedBriefStands

\* An operator's answer gives way to another operator's, or to what a job or a
\* request writes that had read the session before it was there, for any number of
\* questions, replies and requests (routes/discovery.ts PATCH, workers/discovery.ts).
THEOREM AnswersStand == BriefsSpec => OperatorAnswersStand
  <1> DEFINE Stale(q) ==
               \/ \E m \in Replies :
                    /\ reply[m].step = "ask" /\ reply'[m].step # "ask"
                    /\ reply[m].read[q] # answers[q]
               \/ \E r \in BriefRequests :
                    /\ request[r].does = "answer" /\ request'[r].does # "answer"
                    /\ answers'[q] \in Typed \/ request[r].read[q] # answers[q]
             Step == \A q \in Questions :
               answers[q] \in Typed /\ answers'[q] # answers[q] => Stale(q)
  <1>1. BriefsInv /\ [BriefsNext]_briefsVars => [Step]_briefsVars
    <2> SUFFICES ASSUME BriefsInv, [BriefsNext]_briefsVars, NEW q \in Questions,
                        answers[q] \in Typed, answers'[q] # answers[q]
                 PROVE  Stale(q)
      OBVIOUS
    <2>1. answers' # answers
      OBVIOUS
    <2>2. \/ \E m \in Replies : StoreAnswers(m)
          \/ \E r \in BriefRequests : CaptureAnswers(r)
      BY <2>1 DEF BriefsNext, briefsVars, discoveryVars, StartDiscovery, ReplyArrives,
         ReadSession, HandToBuilder, ReplyFails, BuilderReads, BuilderStores, BuilderFails,
         ReadVersion, ReadAnswers, RequestFails, DraftByHand, CopyVersion, UpdateBrief, LockBrief
    <2>3. ASSUME NEW m \in Replies, StoreAnswers(m) PROVE Stale(q)
      <3>0. reply'[m].step # "ask"
        BY <2>3 DEF StoreAnswers, BriefsInv, BriefsTypeOK
      <3>1. PICK accepted \in SUBSET Open(reply[m].read) :
              answers' = [x \in Questions |-> IF x \in accepted THEN "client" ELSE reply[m].read[x]]
        BY <2>3 DEF StoreAnswers
      <3>2. CASE q \in accepted
        <4>1. reply[m].read[q] = "open" /\ answers[q] # "open"
          BY <3>2, BriefsAssumption DEF Open
        <4> QED BY <4>1, <3>0, <2>3 DEF StoreAnswers
      <3>3. CASE q \notin accepted
        <4>1. reply[m].read[q] # answers[q]
          BY <3>1, <3>3
        <4> QED BY <4>1, <3>0, <2>3 DEF StoreAnswers
      <3> QED BY <3>2, <3>3
    <2>4. ASSUME NEW r \in BriefRequests, CaptureAnswers(r) PROVE Stale(q)
      <3>0. request'[r].does # "answer"
        BY <2>4 DEF CaptureAnswers, Answer, Calm, NoRequest, BriefsInv, BriefsTypeOK
      <3>1. PICK gives \in SUBSET Questions : \E text \in [gives -> Typed] :
              answers' = [x \in Questions |-> IF x \in gives THEN text[x] ELSE request[r].read[x]]
        BY <2>4 DEF CaptureAnswers
      <3>2. answers'[q] \in Typed \/ request[r].read[q] # answers[q]
        BY <3>1
      <3> QED BY <3>0, <3>2, <2>4 DEF CaptureAnswers
    <2> QED BY <2>2, <2>3, <2>4
  <1>2. BriefsSpec => [][Step]_briefsVars
    BY BriefsInvariance, <1>1, PTL DEF BriefsSpec
  <1> QED BY <1>2 DEF OperatorAnswersStand

-----------------------------------------------------------------------------
\* The posts (SourcingPosts).
\* What is there before anything is posted.
LEMMA Beginnings ==
  /\ NoPost \in PostRows /\ ~NoPost.approved /\ ~NoPost.external
  /\ NoChange \in ChangeStates
  /\ Resting \in PostingStates /\ Resting.step = "none"
  <1>1. AnyWords \in Words /\ (CHOOSE p \in Posts : TRUE) \in Posts
    BY SourcingPostsAssumption DEF AnyWords
  <1> QED BY <1>1 DEF NoPost, PostRows, PostStatuses, NoChange, ChangeStates, Resting, PostingStates

\* Before any request the posts satisfy the invariant.
LEMMA InitPosts == SourcingPostsInit => PostsInv
  <1> SUFFICES ASSUME SourcingPostsInit PROVE PostsInv
    OBVIOUS
  <1>1. /\ \A p \in Posts : post[p] = NoPost /\ posting[p] = Resting /\ unrecorded[p] = 0
        /\ post \in [Posts -> PostRows] /\ posting \in [Posts -> PostingStates]
        /\ change \in [PostRequests -> ChangeStates]
    BY Beginnings DEF SourcingPostsInit
  <1>2. projects = <<>> /\ DOMAIN projects = {} /\ Len(projects) = 0
    BY DEF SourcingPostsInit
  <1>3. projects \in Seq(Project)
    BY <1>2
  <1>4. changes \in 0..MaxChanges /\ Len(projects) <= MaxProjects
    BY <1>2, SourcingPostsAssumption DEF SourcingPostsInit
  <1>5. unrecorded \in [Posts -> 0..MaxProjects] /\ vouched \in [Posts -> SUBSET Words]
    BY SourcingPostsAssumption DEF SourcingPostsInit
  <1>6. SourcingPostsTypeOK
    BY <1>1, <1>3, <1>4, <1>5 DEF SourcingPostsTypeOK
  <1>7. ProjectsWereApproved /\ ApprovalsAreCarried
    BY <1>1, <1>2, Beginnings DEF ProjectsWereApproved, ApprovalsAreCarried
  <1>8. ProjectsAreAccounted
    <2>1. \A p \in Posts : Projects(p) = {}
      BY <1>2 DEF Projects
    <2>2. Cardinality({}) = 0
      BY FS_EmptySet
    <2> QED BY <1>1, <2>1, <2>2, Beginnings DEF ProjectsAreAccounted
  <1> QED BY <1>6, <1>7, <1>8 DEF PostsInv

-----------------------------------------------------------------------------
\* A post's projects are finitely many, and no more than there are.
LEMMA ProjectsFinite ==
  ASSUME SourcingPostsTypeOK, NEW p \in Posts
  PROVE  /\ IsFiniteSet(Projects(p)) /\ Cardinality(Projects(p)) \in Nat
         /\ Cardinality(Projects(p)) <= Len(projects)
  <1>1. Len(projects) \in Nat /\ DOMAIN projects = 1..Len(projects)
    BY DEF SourcingPostsTypeOK
  <1>2. IsFiniteSet(1..Len(projects)) /\ Cardinality(1..Len(projects)) = Len(projects)
    <2> DEFINE N == Len(projects)
    <2>1. N \in Int /\ 1 \in Int
      BY <1>1
    <2>2. IsFiniteSet(1..N) /\ Cardinality(1..N) = IF 1 > N THEN 0 ELSE N - 1 + 1
      BY <2>1, FS_Interval, Zenon
    <2> QED BY <1>1, <2>2
  <1>3. Projects(p) \subseteq 1..Len(projects)
    BY <1>1 DEF Projects
  <1>4. IsFiniteSet(Projects(p)) /\ Cardinality(Projects(p)) <= Len(projects)
    BY <1>2, <1>3, FS_Subset
  <1> QED BY <1>4, FS_CardinalityType

\* One more project is one more of its post's and no other's.
LEMMA ProjectCreated ==
  ASSUME SourcingPostsTypeOK, NEW p \in Posts, CreateProject(p)
  PROVE  /\ projects' \in Seq(Project) /\ Len(projects') <= MaxProjects
         /\ Cardinality(Projects(p)') = Cardinality(Projects(p)) + 1
         /\ \A q \in Posts \ {p} : Projects(q)' = Projects(q)
         /\ \A i \in DOMAIN projects' :
              \/ i \in DOMAIN projects /\ projects'[i] = projects[i]
              \/ projects'[i] = [post |-> p, words |-> posting[p].words]
  <1> DEFINE n == [post |-> p, words |-> posting[p].words]
             N == Len(projects)
  <1>1. n \in Project
    BY DEF SourcingPostsTypeOK, PostingStates, Project
  <1>2. projects' = Append(projects, n) /\ N < MaxProjects /\ projects \in Seq(Project)
    BY DEF CreateProject, SourcingPostsTypeOK
  <1>3. /\ projects' \in Seq(Project) /\ Len(projects') = N + 1 /\ N \in Nat
        /\ DOMAIN projects = 1..N /\ DOMAIN projects' = 1..(N + 1)
        /\ projects'[N + 1] = n /\ \A i \in 1..N : projects'[i] = projects[i]
    <2> HIDE DEF n
    <2> QED BY <1>1, <1>2
  <1>4. \A i \in 1..(N + 1) : i \in 1..N \/ i = N + 1
    BY <1>3
  <1>5. N + 1 \notin Projects(p) /\ N + 1 \in 1..(N + 1) /\ 1..N \subseteq 1..(N + 1)
    BY <1>3 DEF Projects
  <1>6. Projects(p)' = Projects(p) \cup {N + 1}
    BY <1>3, <1>4, <1>5 DEF Projects
  <1>7. Cardinality(Projects(p) \cup {N + 1}) = Cardinality(Projects(p)) + 1
    BY <1>5, ProjectsFinite, FS_AddElement
  <1>8. \A q \in Posts \ {p} : Projects(q)' = Projects(q)
    BY <1>3, <1>4, <1>5 DEF Projects
  <1>9. Len(projects') <= MaxProjects
    BY <1>2, <1>3, SourcingPostsAssumption
  <1> QED BY <1>3, <1>4, <1>6, <1>7, <1>8, <1>9

-----------------------------------------------------------------------------
\* A request's write: one row at most, and nothing the sender holds.
RequestWrites(r) ==
  ChangeRefused(r) \/ Draft(r) \/ Edit(r) \/ Approve(r) \/ Record(r) \/ Close(r)

\* A write of a request moves its row only forward, never its link back.
LEMMA RowsNext ==
  ASSUME PostsInv, NEW r \in PostRequests, RequestWrites(r)
  PROVE  /\ post' \in [Posts -> PostRows]
         /\ \A p \in Posts :
              /\ post'[p].external = post[p].external
              /\ post'[p].status = "absent" => post[p].status = "absent"
              /\ post'[p].approved =>
                   /\ post'[p].words = post[p].words
                   /\ post[p].approved \/ (Approve(r) /\ p = change[r].post)
         /\ UNCHANGED <<changes, projects, unrecorded>>
         /\ change' \in [PostRequests -> ChangeStates]
  <1> DEFINE p == change[r].post
  <1>1. p \in Posts /\ post \in [Posts -> PostRows] /\ change \in [PostRequests -> ChangeStates]
    BY DEF PostsInv, SourcingPostsTypeOK, ChangeStates
  <1>2. change' = [change EXCEPT ![r] = NoChange] /\ UNCHANGED <<changes, projects, unrecorded>>
    BY DEF RequestWrites, ChangeRefused, Draft, Edit, Approve, Record, Close, Replied
  <1>3. change' \in [PostRequests -> ChangeStates]
    BY <1>1, <1>2, Beginnings
  <1>4. ASSUME NEW to \in PostRows, post' = [post EXCEPT ![p] = to],
               to.external = post[p].external,
               to.status = "absent" => post[p].status = "absent",
               to.approved => /\ to.words = post[p].words
                              /\ post[p].approved \/ Approve(r)
        PROVE  /\ post' \in [Posts -> PostRows]
               /\ \A q \in Posts :
                    /\ post'[q].external = post[q].external
                    /\ post'[q].status = "absent" => post[q].status = "absent"
                    /\ post'[q].approved =>
                         /\ post'[q].words = post[q].words
                         /\ post[q].approved \/ (Approve(r) /\ q = p)
    BY <1>1, <1>4
  <1>5. post[p] \in PostRows
    BY <1>1
  <1>6. CASE ChangeRefused(r)
    BY <1>1, <1>2, <1>3, <1>6 DEF ChangeRefused
  <1>7. CASE Draft(r)
    <2>1. PICK w \in Words :
            post' = [post EXCEPT ![p] = [NoPost EXCEPT !.status = "draft", !.words = w]]
      BY <1>7 DEF Draft
    <2> DEFINE to == [NoPost EXCEPT !.status = "draft", !.words = w]
    <2>2. to \in PostRows /\ ~to.approved /\ to.external = FALSE /\ to.status = "draft"
      BY Beginnings DEF PostRows, NoPost, PostStatuses
    <2>3. ~post[p].external
      BY <1>1, <1>7 DEF Draft, PostsInv, ProjectsAreAccounted
    <2>4. post[p].external = FALSE
      BY <2>3, <1>5 DEF PostRows
    <2> HIDE DEF to, p
    <2> QED BY <1>2, <1>3, <1>4, <2>1, <2>2, <2>4 DEF to
  <1>8. CASE Edit(r)
    <2>1. PICK w \in Words :
            post' = [post EXCEPT ![p].words = w, ![p].status = "draft", ![p].approved = FALSE]
      BY <1>8 DEF Edit
    <2> DEFINE to == [post[p] EXCEPT !.words = w, !.status = "draft", !.approved = FALSE]
    <2>2. to \in PostRows /\ ~to.approved /\ to.external = post[p].external /\ to.status = "draft"
      BY <1>5 DEF PostRows, PostStatuses
    <2>3. post' = [post EXCEPT ![p] = to]
      BY <1>1, <2>1
    <2> HIDE DEF to, p
    <2> QED BY <1>2, <1>3, <1>4, <2>2, <2>3
  <1>9. CASE Approve(r)
    <2> DEFINE to == [post[p] EXCEPT !.status = "approved", !.approved = TRUE]
    <2>1. /\ to \in PostRows /\ to.words = post[p].words /\ to.external = post[p].external
          /\ to.status = "approved"
      BY <1>5 DEF PostRows, PostStatuses
    <2>2. post' = [post EXCEPT ![p] = to]
      BY <1>1, <1>9 DEF Approve
    <2> HIDE DEF to
    <2> QED BY <1>2, <1>3, <1>4, <1>9, <2>1, <2>2
  <1>10. CASE Record(r) \/ Close(r)
    <2>1. PICK status \in {"posted", "closed"} : post' = [post EXCEPT ![p].status = status]
      BY <1>10 DEF Record, Close
    <2> DEFINE to == [post[p] EXCEPT !.status = status]
    <2>2. /\ to \in PostRows /\ to.words = post[p].words /\ to.external = post[p].external
          /\ to.approved = post[p].approved /\ to.status # "absent"
      BY <1>5 DEF PostRows, PostStatuses
    <2>3. post' = [post EXCEPT ![p] = to]
      BY <1>1, <2>1
    <2> HIDE DEF to, p
    <2> QED BY <1>2, <1>3, <1>4, <2>2, <2>3
  <1> QED BY <1>6, <1>7, <1>8, <1>9, <1>10 DEF RequestWrites

\* Its hand-over: a post with an API may be waiting for the sender.
LEMMA QueueNext ==
  ASSUME PostsInv, NEW r \in PostRequests, RequestWrites(r)
  PROVE  /\ posting' \in [Posts -> PostingStates]
         /\ \A p \in Posts :
              \/ posting'[p] = posting[p]
              \/ posting[p].step \in {"none", "over"} /\ posting'[p].step = "waiting" /\ p \notin ByHand
         /\ vouched' \in [Posts -> SUBSET Words]
         /\ \A p \in Posts : vouched[p] \subseteq vouched'[p]
         /\ Approve(r) => post[change[r].post].words \in vouched'[change[r].post]
  <1> DEFINE p == change[r].post
  <1>1. /\ p \in Posts /\ change[r].words \in Words /\ post[p].words \in Words
        /\ posting \in [Posts -> PostingStates] /\ vouched \in [Posts -> SUBSET Words]
    BY DEF PostsInv, SourcingPostsTypeOK, ChangeStates, PostRows
  <1>2. CASE Approve(r)
    <2>1. vouched' = [vouched EXCEPT ![p] = @ \cup {change[r].words, post[p].words}]
      BY <1>2 DEF Approve
    <2>2. \/ UNCHANGED posting
          \/ /\ p \notin ByHand /\ posting[p].step \in {"none", "over"}
             /\ posting' = [posting EXCEPT ![p].step = "waiting"]
      BY <1>2 DEF Approve, Queue
    <2>3. /\ posting' \in [Posts -> PostingStates]
          /\ \A q \in Posts :
               \/ posting'[q] = posting[q]
               \/ /\ posting[q].step \in {"none", "over"} /\ posting'[q].step = "waiting"
                  /\ q \notin ByHand
      BY <1>1, <2>2 DEF PostingStates
    <2>4. vouched' \in [Posts -> SUBSET Words] /\ \A q \in Posts : vouched[q] \subseteq vouched'[q]
      BY <1>1, <2>1
    <2>5. post[p].words \in vouched'[p]
      BY <1>1, <2>1
    <2> QED BY <2>3, <2>4, <2>5
  <1>3. CASE ~Approve(r)
    BY <1>1, <1>3 DEF RequestWrites, ChangeRefused, Draft, Edit, Record, Close
  <1> QED BY <1>2, <1>3

\* What a request writes keeps the invariant.
LEMMA WritesKeep ==
  ASSUME PostsInv, NEW r \in PostRequests, RequestWrites(r)
  PROVE  PostsInv'
  <1>1. SourcingPostsTypeOK'
    BY RowsNext, QueueNext DEF PostsInv, SourcingPostsTypeOK
  <1>2. ProjectsWereApproved'
    <2> SUFFICES ASSUME NEW i \in DOMAIN projects
                 PROVE projects[i].post \notin ByHand /\ projects[i].words \in vouched'[projects[i].post]
      BY RowsNext DEF ProjectsWereApproved
    <2>1. projects[i].post \in Posts
      <3>1. projects \in Seq(Project)
        BY DEF PostsInv, SourcingPostsTypeOK
      <3>2. projects[i] \in Project
        BY <3>1
      <3> QED BY <3>2 DEF Project
    <2> QED BY <2>1, QueueNext DEF PostsInv, ProjectsWereApproved
  <1>3. ApprovalsAreCarried'
    <2> SUFFICES ASSUME NEW p \in Posts
                 PROVE  /\ post'[p].approved => post'[p].words \in vouched'[p]
                        /\ posting'[p].step = "create" => posting'[p].words \in vouched'[p]
                        /\ posting'[p].step # "none" => p \notin ByHand
      BY DEF ApprovalsAreCarried
    <2>1. post'[p].approved => post'[p].words \in vouched'[p]
      BY RowsNext, QueueNext DEF PostsInv, ApprovalsAreCarried
    <2>2. /\ posting'[p].step = "create" => posting'[p].words \in vouched'[p]
          /\ posting'[p].step # "none" => p \notin ByHand
      BY QueueNext DEF PostsInv, ApprovalsAreCarried
    <2> QED BY <2>1, <2>2
  <1>4. ProjectsAreAccounted'
    <2> SUFFICES ASSUME NEW p \in Posts
                 PROVE  /\ Cardinality(Projects(p)') =
                             unrecorded'[p] + (IF posting'[p].step = "mark" THEN 1 ELSE 0)
                                            + (IF post'[p].external THEN 1 ELSE 0)
                        /\ posting'[p].step \in {"create", "mark"} => ~post'[p].external
                        /\ post'[p].status = "absent" => ~post'[p].external
      BY DEF ProjectsAreAccounted
    <2>1. Projects(p)' = Projects(p) /\ unrecorded' = unrecorded
      BY RowsNext DEF Projects
    <2>2. /\ post'[p].external = post[p].external
          /\ post'[p].status = "absent" => post[p].status = "absent"
      BY RowsNext
    <2>3. /\ posting'[p].step = "mark" <=> posting[p].step = "mark"
          /\ posting'[p].step \in {"create", "mark"} => posting[p].step \in {"create", "mark"}
      BY QueueNext
    <2> QED BY <2>1, <2>2, <2>3 DEF PostsInv, ProjectsAreAccounted
  <1> QED BY <1>1, <1>2, <1>3, <1>4 DEF PostsInv

-----------------------------------------------------------------------------
\* A request that reads keeps everything.
LEMMA ReadKeeps ==
  ASSUME PostsInv, NEW r \in PostRequests, NEW act \in PostActs, NEW p \in Posts,
         ReadPost(r, act, p)
  PROVE  PostsInv'
  <1>1. post \in [Posts -> PostRows] /\ change \in [PostRequests -> ChangeStates]
    BY DEF PostsInv, SourcingPostsTypeOK
  <1>2. [act |-> act, post |-> p, words |-> post[p].words] \in ChangeStates
    BY <1>1 DEF ChangeStates, PostRows
  <1>3. change' \in [PostRequests -> ChangeStates]
    BY <1>1, <1>2 DEF ReadPost
  <1>4. changes' \in 0..MaxChanges
    BY SourcingPostsAssumption DEF ReadPost, PostsInv, SourcingPostsTypeOK
  <1>5. UNCHANGED <<post, posting, projects, unrecorded, vouched>>
    BY DEF ReadPost
  <1>6. SourcingPostsTypeOK'
    BY <1>3, <1>4, <1>5 DEF PostsInv, SourcingPostsTypeOK
  <1> QED BY <1>5, <1>6 DEF PostsInv, ProjectsWereApproved, ApprovalsAreCarried,
             ProjectsAreAccounted, Projects

\* The sender up to the project: it goes on with approved words and no project.
LEMMA SenderKeeps ==
  ASSUME PostsInv, NEW p \in Posts,
         LoadPost(p) \/ Blocked(p) \/ PostFails(p) \/ TriedAgain(p)
  PROVE  PostsInv'
  <1>1. /\ post \in [Posts -> PostRows] /\ posting \in [Posts -> PostingStates]
        /\ post[p] \in PostRows /\ posting[p].step \in {"waiting", "create"}
    BY DEF PostsInv, SourcingPostsTypeOK, LoadPost, Blocked, PostFails, TriedAgain
  <1>2. UNCHANGED <<change, changes, projects, unrecorded, vouched>>
    BY DEF LoadPost, Blocked, PostFails, TriedAgain, OnlyPosting
  <1>3. PICK to \in PostingStates :
          /\ posting' = [posting EXCEPT ![p] = to]
          /\ to.step \in {"waiting", "over", "create"}
          /\ to.step = "create" => /\ ~post[p].external /\ post[p].approved
                                   /\ to.words = post[p].words
    <2>1. \A step \in {"waiting", "over"} :
            [Resting EXCEPT !.step = step] \in PostingStates /\ [Resting EXCEPT !.step = step].step = step
      BY Beginnings DEF PostingStates
    <2>2. CASE LoadPost(p)
      <3> DEFINE to == IF ~post[p].external /\ post[p].status = "approved" /\ post[p].approved
                       THEN [step |-> "create", words |-> post[p].words]
                       ELSE [Resting EXCEPT !.step = "over"]
      <3>1. posting' = [posting EXCEPT ![p] = to]
        BY <2>2 DEF LoadPost
      <3>2. [step |-> "create", words |-> post[p].words] \in PostingStates
        BY <1>1 DEF PostingStates, PostRows
      <3> QED BY <2>1, <3>1, <3>2
    <2>3. CASE Blocked(p) \/ PostFails(p) \/ TriedAgain(p)
      <3>1. \E step \in {"waiting", "over"} : posting' = [posting EXCEPT ![p] = [Resting EXCEPT !.step = step]]
        BY <2>3 DEF Blocked, PostFails, TriedAgain, Moves
      <3> QED BY <2>1, <3>1
    <2> QED BY <2>2, <2>3
  <1>4. /\ posting' \in [Posts -> PostingStates] /\ posting'[p] = to
        /\ \A q \in Posts : q = p \/ posting'[q] = posting[q]
    BY <1>1, <1>3
  <1>5. /\ post' \in [Posts -> PostRows]
        /\ \A q \in Posts : /\ post'[q].words = post[q].words /\ post'[q].approved = post[q].approved
                            /\ post'[q].external = post[q].external
                            /\ post'[q].status = "absent" => post[q].status = "absent"
    <2>1. UNCHANGED post \/ post' = [post EXCEPT ![p].status = "failed"]
      BY DEF LoadPost, Blocked, PostFails, TriedAgain
    <2>2. CASE UNCHANGED post
      BY <1>1, <2>2
    <2>3. CASE post' = [post EXCEPT ![p].status = "failed"]
      BY <1>1, <2>3 DEF PostRows, PostStatuses
    <2> QED BY <2>1, <2>2, <2>3
  <1>6. SourcingPostsTypeOK'
    BY <1>2, <1>4, <1>5 DEF PostsInv, SourcingPostsTypeOK
  <1>7. ProjectsWereApproved'
    BY <1>2 DEF PostsInv, ProjectsWereApproved
  <1>8. ApprovalsAreCarried'
    BY <1>1, <1>2, <1>3, <1>4, <1>5 DEF PostsInv, ApprovalsAreCarried
  <1>9. ProjectsAreAccounted'
    <2> SUFFICES ASSUME NEW q \in Posts
                 PROVE  /\ Cardinality(Projects(q)') =
                             unrecorded[q] + (IF posting'[q].step = "mark" THEN 1 ELSE 0)
                                           + (IF post'[q].external THEN 1 ELSE 0)
                        /\ posting'[q].step \in {"create", "mark"} => ~post'[q].external
                        /\ post'[q].status = "absent" => ~post'[q].external
      BY <1>2 DEF ProjectsAreAccounted
    <2>1. Projects(q)' = Projects(q)
      BY <1>2 DEF Projects
    <2>2. posting'[q].step = "mark" <=> posting[q].step = "mark"
      BY <1>1, <1>3, <1>4
    <2>3. posting'[q].step \in {"create", "mark"} => ~post[q].external
      BY <1>3, <1>4 DEF PostsInv, ProjectsAreAccounted
    <2> QED BY <1>5, <2>1, <2>2, <2>3 DEF PostsInv, ProjectsAreAccounted
  <1> QED BY <1>6, <1>7, <1>8, <1>9 DEF PostsInv

\* The project: created, and put down or lost.
LEMMA CreateKeeps ==
  ASSUME PostsInv, NEW p \in Posts, CreateProject(p)
  PROVE  PostsInv'
  <1>1. /\ posting \in [Posts -> PostingStates] /\ posting[p].step = "create"
        /\ posting' = [posting EXCEPT ![p].step = "mark"]
        /\ UNCHANGED <<post, change, changes, unrecorded, vouched>>
    BY DEF PostsInv, SourcingPostsTypeOK, CreateProject
  <1>2. /\ posting' \in [Posts -> PostingStates] /\ posting'[p].step = "mark"
        /\ \A q \in Posts : q = p \/ posting'[q] = posting[q]
    BY <1>1 DEF PostingStates
  <1>3. /\ projects' \in Seq(Project) /\ Len(projects') <= MaxProjects
        /\ Cardinality(Projects(p)') = Cardinality(Projects(p)) + 1
        /\ \A q \in Posts \ {p} : Projects(q)' = Projects(q)
        /\ \A i \in DOMAIN projects' :
             \/ i \in DOMAIN projects /\ projects'[i] = projects[i]
             \/ projects'[i] = [post |-> p, words |-> posting[p].words]
    BY ProjectCreated DEF PostsInv
  <1>4. SourcingPostsTypeOK'
    BY <1>1, <1>2, <1>3 DEF PostsInv, SourcingPostsTypeOK
  <1>5. ProjectsWereApproved'
    <2>1. p \notin ByHand /\ posting[p].words \in vouched[p]
      BY <1>1 DEF PostsInv, ApprovalsAreCarried
    <2> QED BY <1>1, <1>3, <2>1 DEF PostsInv, ProjectsWereApproved
  <1>6. ApprovalsAreCarried'
    BY <1>1, <1>2 DEF PostsInv, ApprovalsAreCarried
  <1>7. ProjectsAreAccounted'
    <2>1. unrecorded[p] \in Nat
      BY SourcingPostsAssumption DEF PostsInv, SourcingPostsTypeOK
    <2>2. Cardinality(Projects(p)) = unrecorded[p] /\ ~post[p].external
      BY <1>1, <2>1 DEF PostsInv, ProjectsAreAccounted
    <2>3. Cardinality(Projects(p)') = unrecorded'[p] + 1 + 0
      BY <1>1, <1>3, <2>1, <2>2
    <2> QED BY <1>1, <1>2, <1>3, <2>2, <2>3 DEF PostsInv, ProjectsAreAccounted
  <1> QED BY <1>4, <1>5, <1>6, <1>7 DEF PostsInv

\* Marking a post by hand, or not managing to, keeps the invariant.
LEMMA MarkKeeps ==
  ASSUME PostsInv, NEW p \in Posts, MarkPosted(p) \/ NotMarked(p)
  PROVE  PostsInv'
  <1> DEFINE N == Cardinality(Projects(p))
  <1>1. /\ post \in [Posts -> PostRows] /\ posting \in [Posts -> PostingStates]
        /\ unrecorded \in [Posts -> 0..MaxProjects]
        /\ posting[p].step = "mark" /\ UNCHANGED <<change, changes, projects, vouched>>
        /\ Projects(p)' = Projects(p) /\ \A q \in Posts : Projects(q)' = Projects(q)
    BY DEF PostsInv, SourcingPostsTypeOK, MarkPosted, NotMarked, OnlyPosting, Projects
  <1>2. /\ posting' \in [Posts -> PostingStates] /\ posting'[p].step \in {"waiting", "over"}
        /\ \A q \in Posts : q = p \/ posting'[q] = posting[q]
    <2>1. \A step \in {"waiting", "over"} :
            [Resting EXCEPT !.step = step] \in PostingStates /\ [Resting EXCEPT !.step = step].step = step
      BY Beginnings DEF PostingStates
    <2>2. \E step \in {"waiting", "over"} : posting' = [posting EXCEPT ![p] = [Resting EXCEPT !.step = step]]
      BY DEF MarkPosted, NotMarked, Moves
    <2> QED BY <1>1, <2>1, <2>2
  <1>3. unrecorded[p] \in Nat /\ N = unrecorded[p] + 1 /\ ~post[p].external
        /\ N \in Nat /\ N <= MaxProjects
    <2>1. unrecorded[p] \in Nat
      BY <1>1, SourcingPostsAssumption
    <2>2. ~post[p].external /\ N = unrecorded[p] + 1
      BY <1>1, <2>1 DEF PostsInv, ProjectsAreAccounted
    <2>3. N \in Nat /\ N <= MaxProjects
      <3>1. Len(projects) \in Nat /\ Len(projects) <= MaxProjects
        BY DEF PostsInv, SourcingPostsTypeOK
      <3>2. N \in Nat /\ N <= Len(projects)
        BY ProjectsFinite DEF PostsInv
      <3> QED BY <3>1, <3>2, SourcingPostsAssumption
    <2> QED BY <2>1, <2>2, <2>3
  <1>4. CASE MarkPosted(p)
    <2> DEFINE to == [post[p] EXCEPT !.status = "posted", !.external = TRUE]
    <2>1. UNCHANGED unrecorded /\ post' = [post EXCEPT ![p] = to]
      BY <1>1, <1>4 DEF MarkPosted, OnlyPosting
    <2>2. /\ to \in PostRows /\ to.words = post[p].words /\ to.approved = post[p].approved
          /\ to.external = TRUE /\ to.status = "posted"
      BY <1>1 DEF PostRows, PostStatuses
    <2> HIDE DEF to
    <2>3. /\ post' \in [Posts -> PostRows] /\ post'[p] = to
          /\ \A q \in Posts : q = p \/ post'[q] = post[q]
      BY <1>1, <2>1, <2>2
    <2>4. SourcingPostsTypeOK'
      BY <1>1, <1>2, <2>1, <2>3 DEF PostsInv, SourcingPostsTypeOK
    <2>5. ProjectsWereApproved'
      BY <1>1 DEF PostsInv, ProjectsWereApproved
    <2>6. ApprovalsAreCarried'
      BY <1>1, <1>2, <2>2, <2>3 DEF PostsInv, ApprovalsAreCarried
    <2>7. N = unrecorded'[p] + 0 + 1
      BY <1>3, <2>1
    <2>8. ProjectsAreAccounted'
      BY <1>1, <1>2, <2>1, <2>2, <2>3, <2>7 DEF PostsInv, ProjectsAreAccounted
    <2> QED BY <2>4, <2>5, <2>6, <2>8 DEF PostsInv
  <1>5. CASE NotMarked(p)
    <2>1. UNCHANGED post /\ unrecorded' = [unrecorded EXCEPT ![p] = @ + 1]
      BY <1>5 DEF NotMarked
    <2>2. unrecorded'[p] = N /\ unrecorded' \in [Posts -> 0..MaxProjects]
          /\ \A q \in Posts : q = p \/ unrecorded'[q] = unrecorded[q]
      BY <1>1, <1>3, <2>1, SourcingPostsAssumption
    <2>3. SourcingPostsTypeOK'
      BY <1>1, <1>2, <2>1, <2>2 DEF PostsInv, SourcingPostsTypeOK
    <2>4. ProjectsWereApproved' /\ ApprovalsAreCarried'
      BY <1>1, <1>2, <2>1 DEF PostsInv, ProjectsWereApproved, ApprovalsAreCarried
    <2>5. N = unrecorded'[p] + 0 + 0
      BY <1>3, <2>2
    <2>6. ProjectsAreAccounted'
      BY <1>1, <1>2, <1>3, <2>1, <2>2, <2>5 DEF PostsInv, ProjectsAreAccounted
    <2> QED BY <2>3, <2>4, <2>6 DEF PostsInv
  <1> QED BY <1>4, <1>5

-----------------------------------------------------------------------------
\* Every request, and every mark made by hand, keeps the invariant.
LEMMA NextPosts == PostsInv /\ [SourcingPostsNext]_postVars => PostsInv'
  <1> SUFFICES ASSUME PostsInv, [SourcingPostsNext]_postVars PROVE PostsInv'
    OBVIOUS
  <1>1. CASE UNCHANGED postVars
    BY <1>1 DEF postVars, PostsInv, SourcingPostsTypeOK, ProjectsWereApproved,
       ApprovalsAreCarried, ProjectsAreAccounted, Projects
  <1> QED BY <1>1, WritesKeep, ReadKeeps, SenderKeeps, CreateKeeps, MarkKeeps
       DEF SourcingPostsNext, RequestWrites

\* The inductive invariant of the posts holds of every reachable state.
THEOREM PostsInvariance == SourcingPostsSpec => []PostsInv
  BY InitPosts, NextPosts, PTL DEF SourcingPostsSpec

\* Every variable keeps its type.
THEOREM PostsTypeCorrect == SourcingPostsSpec => []SourcingPostsTypeOK
  BY PostsInvariance, PTL DEF PostsInv

\* Only approved words are published, for any number of posts and requests
\* (routes/sourcing-posts.ts, workers/sourcing.ts postSourcingProject).
THEOREM ApprovedOnly == SourcingPostsSpec => []ProjectsWereApproved
  BY PostsInvariance, PTL DEF PostsInv

\* A post has one project, apart from those that could not be put down
\* (workers/sourcing.ts postSourcingProject: already_posted).
THEOREM OneProject == SourcingPostsSpec => []OneProjectPerPost
  <1>1. PostsInv => OneProjectPerPost
    <2> SUFFICES ASSUME PostsInv, NEW p \in Posts
                 PROVE LET marking == IF posting[p].step = "mark" THEN 1 ELSE 0 IN
                       /\ Cardinality(Projects(p)) <=
                            unrecorded[p] + marking + (IF post[p].external THEN 1 ELSE 0)
                       /\ post[p].external => Projects(p) # {}
      BY DEF OneProjectPerPost, Projects
    <2>1. unrecorded[p] \in Nat /\ Cardinality(Projects(p)) \in Nat
      BY SourcingPostsAssumption, ProjectsFinite DEF PostsInv, SourcingPostsTypeOK
    <2>2. post[p].external => Cardinality(Projects(p)) # 0
      BY <2>1 DEF PostsInv, ProjectsAreAccounted
    <2>3. post[p].external => Projects(p) # {}
      BY <2>2, FS_EmptySet
    <2> QED BY <2>1, <2>3 DEF PostsInv, ProjectsAreAccounted
  <1> QED BY PostsInvariance, <1>1, PTL

-----------------------------------------------------------------------------
\* Pricing the quotes (Reprice).
PricingStates ==
  [step : {"idle", "estimate", "judge"}, job : Names, cost : Quotes \cup {NoQuote}]
CollectorStates ==
  [step : {"idle", "upsert", "hand"}, bid : Bids, price : Quotes \cup {NoQuote}]

\* A worker and a collector at rest, and the parts of a job's name.
LEMMA AtRestStates ==
  /\ WorkerRests \in PricingStates /\ WorkerRests.step = "idle"
  /\ CollectorRests \in CollectorStates /\ CollectorRests.step = "idle"
  /\ \A j \in Names : j[1] \in Bids /\ j[2] \in Quotes /\ j = <<j[1], j[2]>>
  /\ \A b \in Bids, q \in Quotes : <<b, q>> \in Names
  <1>1. (CHOOSE b \in Bids : TRUE) \in Bids
    BY RepriceAssumption
  <1>2. Names # {}
    <2>1. PICK b \in Bids, q \in Quotes : TRUE
      BY RepriceAssumption
    <2>2. <<b, q>> \in Names
      BY DEF Names
    <2> QED BY <2>2
  <1>3. (CHOOSE j \in Names : TRUE) \in Names
    BY <1>2
  <1> QED BY <1>1, <1>3 DEF WorkerRests, CollectorRests, PricingStates, CollectorStates, Names

\* Before any quote the invariant holds.
LEMMA InitReprice == RepriceInit => RepriceInv
  <1> SUFFICES ASSUME RepriceInit PROVE RepriceInv
    OBVIOUS
  <1>1. \A j \in Names : jobs[j] = "none"
    BY DEF RepriceInit
  <1>2. \A b \in Bids : quote[b] = NoQuote
    BY DEF RepriceInit
  <1>3. RepriceTypeOK
    BY AtRestStates, RepriceAssumption
       DEF RepriceInit, RepriceTypeOK, NoEstimate, PricingStates, CollectorStates
  <1>4. StepsHold
    BY <1>1, AtRestStates DEF RepriceInit, StepsHold
  <1> QED BY <1>2, <1>3, <1>4 DEF RepriceInv, QuotesFollow, SettledAtQuote

\* An add leaves every job that waits, and the job is waiting, is being priced, or the
\* bid is on record.
LEMMA Added ==
  ASSUME RepriceTypeOK, NEW j \in Names, AddJob(j)
  PROVE  /\ jobs' \in [Names -> {"none", "waiting", "active", "over"}]
         /\ missed \subseteq missed' /\ missed' \subseteq missed \cup {j[1]}
         /\ \A k \in Names : jobs[k] \in {"waiting", "active"} => jobs'[k] = jobs[k]
         /\ \A k \in Names : jobs'[k] = "active" => jobs[k] = "active"
         /\ \A k \in Names \ {j} : jobs'[k] = jobs[k]
         /\ \/ jobs'[j] = "waiting" \/ j[1] \in missed'
            \/ jobs[j] = "active" /\ pricing.cost = j[2]
  BY DEF AddJob, RepriceTypeOK

\* Every step of quoting and pricing keeps the types.
LEMMA RepriceTypes ==
  ASSUME RepriceTypeOK, StepsHold, RepriceNext
  PROVE  RepriceTypeOK'
  <1> USE DEF RepriceTypeOK
  <1>1. CASE \E b \in Bids, q \in Quotes : Bid(b, q)
    BY <1>1, RepriceAssumption DEF Bid
  <1>2. CASE \E b \in Bids : ReadBid(b)
    BY <1>2 DEF ReadBid
  <1>3. CASE \E b \in Bids : RequestReprice(b)
    <2>1. PICK b \in Bids : RequestReprice(b)
      BY <1>3
    <2>2. <<b, quote[b]>> \in Names /\ b \in Bids /\ <<b, quote[b]>>[1] = b
      BY <2>1 DEF RequestReprice, Names
    <2>3. AddJob(<<b, quote[b]>>) /\ UNCHANGED <<asked, asks, quote, latest, collector, pricing>>
      BY <2>1 DEF RequestReprice
    <2>4. /\ jobs' \in [Names -> {"none", "waiting", "active", "over"}]
          /\ missed' \subseteq missed \cup {b}
          /\ \A k \in Names : jobs'[k] = "active" <=> jobs[k] = "active"
      BY <2>2, <2>3, Added
    <2> QED BY <2>3, <2>4
  <1>4. CASE UpsertBid
    BY <1>4, AtRestStates DEF UpsertBid, CollectorStates
  <1>5. CASE HandBid
    <2>1. <<collector.bid, collector.price>> \in Names /\ collector.bid \in Bids
      BY <1>5 DEF HandBid, StepsHold, Names
    <2>2. /\ AddJob(<<collector.bid, collector.price>>) /\ collector' = CollectorRests
          /\ UNCHANGED <<asked, asks, quote, latest, pricing>>
      BY <1>5 DEF HandBid
    <2>3. /\ jobs' \in [Names -> {"none", "waiting", "active", "over"}]
          /\ missed' \subseteq missed \cup {collector.bid}
          /\ \A k \in Names : jobs'[k] = "active" <=> jobs[k] = "active"
      BY <2>1, <2>2, Added
    <2> QED BY <2>1, <2>2, <2>3, AtRestStates DEF CollectorStates
  <1>6. CASE CollectorFails
    BY <1>6, AtRestStates DEF CollectorFails, CollectorStates
  <1>7. CASE \E j \in Names : LoadQuote(j)
    <2>1. PICK j \in Names : LoadQuote(j)
      BY <1>7
    <2>2. j[1] \in Bids
      BY AtRestStates
    <2> QED BY <2>1, <2>2 DEF LoadQuote
  <1>8. ASSUME NEW given \in BOOLEAN, pricing.step # "idle", Done(pricing.job, given)
        PROVE  /\ jobs' \in [Names -> {"none", "waiting", "active", "over"}] /\ missed' \subseteq Bids
               /\ pricing' \in PricingStates /\ pricing'.step = "idle"
               /\ \A j \in Names : jobs'[j] # "active"
               /\ UNCHANGED <<asked, asks, quote, collector>>
    <2>1. pricing.job[1] \in Bids
      BY AtRestStates
    <2>2. missed' \subseteq Bids
      BY <1>8, <2>1 DEF Done
    <2> QED BY <1>8, <2>2, AtRestStates DEF Done
  <1>9. CASE StoreQuoteEstimate
    <2>1. pricing.job[1] \in Bids /\ pricing.step # "idle"
      BY <1>9, AtRestStates DEF StoreQuoteEstimate
    <2>2. CASE Done(pricing.job, TRUE) /\ UNCHANGED latest
      BY <1>8, <2>1, <2>2 DEF PricingStates
    <2>3. CASE pricing' = [pricing EXCEPT !.step = "judge"] /\ UNCHANGED latest /\ OnlyPricing
      BY <2>1, <2>3 DEF OnlyPricing
    <2>4. CASE /\ latest' = [latest EXCEPT ![pricing.job[1]] = [cost |-> pricing.cost, judged |-> FALSE]]
               /\ pricing' = [pricing EXCEPT !.step = "judge"] /\ OnlyPricing
      BY <2>1, <2>4 DEF OnlyPricing
    <2> QED BY <1>9, <2>2, <2>3, <2>4 DEF StoreQuoteEstimate
  <1>10. CASE Judge
    <2>1. pricing.job[1] \in Bids /\ pricing.step # "idle" /\ Done(pricing.job, TRUE)
      BY <1>10, AtRestStates DEF Judge
    <2>2. latest' \in [Bids -> [cost : Quotes \cup {NoQuote}, judged : BOOLEAN]]
      <3>1. PICK b \in Bids : b = pricing.job[1]
        BY <2>1
      <3>2. latest' = [latest EXCEPT ![b].judged = TRUE]
        BY <1>10, <3>1 DEF Judge
      <3>3. latest \in [Bids -> [cost : Quotes \cup {NoQuote}, judged : BOOLEAN]]
        OBVIOUS
      <3> HIDE DEF RepriceTypeOK
      <3> QED BY ONLY <3>1, <3>2, <3>3
    <2> QED BY <1>8, <2>1, <2>2 DEF PricingStates
  <1>11. CASE PricingEnds
    <2>1. pricing.step # "idle" /\ Done(pricing.job, FALSE) /\ UNCHANGED latest
      BY <1>11 DEF PricingEnds
    <2> QED BY <1>8, <2>1 DEF PricingStates
  <1>12. CASE PricingRetried
    BY <1>12, AtRestStates DEF PricingRetried, PricingStates
  <1> QED BY <1>1, <1>2, <1>3, <1>4, <1>5, <1>6, <1>7, <1>9, <1>10, <1>11, <1>12 DEF RepriceNext

\* Every step keeps what a worker in hand has read.
LEMMA RepriceStepsHold ==
  ASSUME RepriceTypeOK, StepsHold, RepriceNext
  PROVE  StepsHold'
  <1> USE DEF StepsHold
  <1>1. CASE \E b \in Bids, q \in Quotes : Bid(b, q)
    BY <1>1 DEF Bid
  <1>2. CASE \E b \in Bids : ReadBid(b)
    BY <1>2 DEF ReadBid
  <1>3. CASE \E b \in Bids : RequestReprice(b)
    <2>1. PICK b \in Bids : RequestReprice(b)
      BY <1>3
    <2>2. <<b, quote[b]>> \in Names /\ quote[b] # NoQuote
      BY <2>1 DEF RequestReprice, Names, RepriceTypeOK
    <2>3. AddJob(<<b, quote[b]>>) /\ UNCHANGED <<asked, asks, quote, latest, collector, pricing>>
      BY <2>1 DEF RequestReprice
    <2>4. \A k \in Names \ {<<b, quote[b]>>} : jobs'[k] = jobs[k]
      BY <2>2, <2>3, Added
    <2>5. \A c \in Bids, q \in Quotes : quote[c] = NoQuote => jobs'[<<c, q>>] = "none"
      BY <2>2, <2>4, AtRestStates
    <2> QED BY <2>3, <2>5
  <1>4. CASE UpsertBid
    <2>1. collector.bid \in Bids /\ collector.price # NoQuote /\ quote' = [quote EXCEPT ![collector.bid] = collector.price]
          /\ UNCHANGED <<asked, asks, latest, jobs, pricing, missed>>
      BY <1>4 DEF UpsertBid, RepriceTypeOK
    <2>2. \A c \in Bids : quote'[c] = NoQuote => quote[c] = NoQuote
      BY <2>1 DEF RepriceTypeOK
    <2>3. quote'[collector.bid] = collector.price
      BY <2>1 DEF RepriceTypeOK
    <2>4. CASE collector' = CollectorRests
      BY <2>1, <2>2, <2>4, AtRestStates
    <2>5. CASE collector' = [collector EXCEPT !.step = "hand"]
      <3>1. collector'.price = collector.price /\ collector'.bid = collector.bid
        BY <2>5 DEF RepriceTypeOK
      <3> QED BY <2>1, <2>2, <2>3, <3>1
    <2> QED BY <1>4, <2>4, <2>5 DEF UpsertBid
  <1>5. CASE HandBid
    <2>1. <<collector.bid, collector.price>> \in Names /\ quote[collector.bid] # NoQuote
      BY <1>5 DEF HandBid, Names, RepriceTypeOK
    <2>2. /\ AddJob(<<collector.bid, collector.price>>) /\ collector' = CollectorRests
          /\ UNCHANGED <<asked, asks, quote, latest, pricing>>
      BY <1>5 DEF HandBid
    <2>3. \A k \in Names \ {<<collector.bid, collector.price>>} : jobs'[k] = jobs[k]
      BY <2>1, <2>2, Added
    <2>4. \A c \in Bids, q \in Quotes : quote[c] = NoQuote => jobs'[<<c, q>>] = "none"
      BY <2>1, <2>3, AtRestStates
    <2> QED BY <2>2, <2>4, AtRestStates
  <1>6. CASE CollectorFails
    BY <1>6, AtRestStates DEF CollectorFails
  <1>7. CASE \E j \in Names : LoadQuote(j)
    <2>1. PICK j \in Names : LoadQuote(j)
      BY <1>7
    <2>2. quote[j[1]] # NoQuote
      BY <2>1, AtRestStates DEF LoadQuote
    <2>3. \A k \in Names : jobs'[k] = "none" <=> jobs[k] = "none"
      BY <2>1 DEF LoadQuote, RepriceTypeOK
    <2> QED BY <2>1, <2>2, <2>3, AtRestStates DEF LoadQuote
  <1>8. ASSUME NEW given \in BOOLEAN, pricing.step # "idle", Done(pricing.job, given)
        PROVE  /\ pricing'.step = "idle" /\ UNCHANGED <<quote, collector>>
               /\ \A k \in Names : jobs[k] = "none" => jobs'[k] = "none"
    <2>1. jobs[pricing.job] = "active"
      BY <1>8 DEF RepriceTypeOK
    <2> QED BY <1>8, <2>1, AtRestStates DEF Done, RepriceTypeOK
  <1>9. CASE StoreQuoteEstimate
    <2>1. pricing.job[1] \in Bids /\ pricing.step # "idle" /\ pricing.cost # NoQuote
      BY <1>9, AtRestStates DEF StoreQuoteEstimate, RepriceTypeOK
    <2>2. CASE Done(pricing.job, TRUE)
      BY <1>8, <2>1, <2>2, AtRestStates
    <2>3. CASE /\ latest[pricing.job[1]].cost = pricing.cost /\ UNCHANGED latest
               /\ pricing' = [pricing EXCEPT !.step = "judge"] /\ OnlyPricing
      BY <2>1, <2>3 DEF OnlyPricing, RepriceTypeOK
    <2>4. CASE /\ latest' = [latest EXCEPT ![pricing.job[1]] = [cost |-> pricing.cost, judged |-> FALSE]]
               /\ pricing' = [pricing EXCEPT !.step = "judge"] /\ OnlyPricing
      BY <2>1, <2>4 DEF OnlyPricing, RepriceTypeOK
    <2> QED BY <1>9, <2>2, <2>3, <2>4 DEF StoreQuoteEstimate
  <1>10. CASE Judge
    <2>1. pricing.step # "idle" /\ Done(pricing.job, TRUE)
      BY <1>10 DEF Judge
    <2> QED BY <1>8, <2>1, AtRestStates
  <1>11. CASE PricingEnds
    BY <1>8, <1>11, AtRestStates DEF PricingEnds
  <1>12. CASE PricingRetried
    <2>1. jobs[pricing.job] = "active"
      BY <1>12 DEF PricingRetried, RepriceTypeOK
    <2>2. \A k \in Names : jobs[k] = "none" => jobs'[k] = "none"
      BY <1>12, <2>1 DEF PricingRetried, RepriceTypeOK
    <2> QED BY <1>12, <2>2, AtRestStates DEF PricingRetried
  <1> QED BY <1>1, <1>2, <1>3, <1>4, <1>5, <1>6, <1>7, <1>9, <1>10, <1>11, <1>12 DEF RepriceNext

\* Of one bid whose quote was handed on: its job waits, is being priced, or was judged.
Followed(b) ==
  \/ \E q \in Quotes : jobs[<<b, q>>] = "waiting"
  \/ AtWork(b) /\ pricing.cost = quote[b]
  \/ ~AtWork(b) /\ latest[b] = [cost |-> quote[b], judged |-> TRUE]

\* A job added for the newest quote of a bid follows that quote.
LEMMA AddFollows ==
  ASSUME RepriceTypeOK, QuotesFollow, NEW j \in Names, AddJob(j), j[2] = quote[j[1]],
         UNCHANGED <<quote, latest, pricing>>, NEW b \in Bids, quote[b] # NoQuote, b \notin missed',
         b = j[1] \/ ~AtHand(b)
  PROVE  Followed(b)'
  <1>1. /\ missed \subseteq missed'
        /\ \A k \in Names : jobs[k] \in {"waiting", "active"} => jobs'[k] = jobs[k]
        /\ \/ jobs'[j] = "waiting" \/ j[1] \in missed'
           \/ jobs[j] = "active" /\ pricing.cost = j[2]
    BY Added
  <1>2. CASE b = j[1]
    <2>1. j[2] \in Quotes /\ j = <<b, j[2]>>
      BY <1>2, AtRestStates
    <2>2. CASE jobs'[j] = "waiting"
      BY <2>1, <2>2 DEF Followed
    <2>3. CASE jobs[j] = "active" /\ pricing.cost = j[2]
      <3>1. pricing.job = j /\ pricing.step # "idle"
        BY <2>3 DEF RepriceTypeOK
      <3> QED BY <1>2, <2>3, <3>1 DEF Followed, AtWork
    <2> QED BY <1>1, <1>2, <2>2, <2>3
  <1>3. CASE b # j[1]
    <2>1. Followed(b)
      BY <1>1, <1>3 DEF QuotesFollow, Followed
    <2>2. \A q \in Quotes : jobs[<<b, q>>] = "waiting" => jobs'[<<b, q>>] = "waiting"
      BY <1>1, AtRestStates
    <2> QED BY <2>1, <2>2 DEF Followed, AtWork
  <1> QED BY <1>2, <1>3

\* The worker puts a job down, having judged its bid at the quote it read, or not.
LEMMA DoneFollows ==
  ASSUME RepriceTypeOK, StepsHold, QuotesFollow, NEW given \in BOOLEAN, pricing.step # "idle",
         Done(pricing.job, given), latest' \in [Bids -> [cost : Quotes \cup {NoQuote}, judged : BOOLEAN]],
         \A b \in Bids : b # pricing.job[1] => latest'[b] = latest[b],
         given => latest'[pricing.job[1]].cost = pricing.cost /\ latest'[pricing.job[1]].judged = TRUE
  PROVE  QuotesFollow'
  <1> DEFINE mine == pricing.job[1]
  <1>1. mine \in Bids /\ pricing.job = <<mine, pricing.job[2]>> /\ pricing.job \in Names
    BY AtRestStates DEF RepriceTypeOK
  <1>2. /\ pricing'.step = "idle" /\ UNCHANGED <<quote, collector>>
        /\ jobs' = [jobs EXCEPT ![pricing.job] = "over"] /\ jobs[pricing.job] = "active"
    BY AtRestStates DEF Done, RepriceTypeOK
  <1>3. \A k \in Names : jobs[k] = "waiting" => jobs'[k] = "waiting"
    BY <1>2 DEF RepriceTypeOK
  <1>4. /\ missed' = (IF ~given THEN missed \cup {mine}
                     ELSE IF pricing.cost = quote[mine] THEN missed \ {mine} ELSE missed)
    BY DEF Done
  <1> SUFFICES ASSUME NEW b \in Bids, quote[b] # NoQuote, b \notin missed', ~AtHand(b)
               PROVE  \/ \E q \in Quotes : jobs'[<<b, q>>] = "waiting"
                      \/ latest'[b] = [cost |-> quote[b], judged |-> TRUE]
    BY <1>2 DEF QuotesFollow, AtHand, AtWork
  <1>5. CASE b # mine
    <2>1. b \notin missed /\ latest'[b] = latest[b] /\ ~AtWork(b)
      BY <1>4, <1>5 DEF AtWork
    <2>2. Followed(b)
      BY <2>1 DEF QuotesFollow, Followed
    <2>3. CASE \E q \in Quotes : jobs[<<b, q>>] = "waiting"
      BY <1>3, <2>3, AtRestStates
    <2> QED BY <2>1, <2>2, <2>3 DEF Followed
  <1>6. CASE b = mine /\ given /\ pricing.cost = quote[b]
    BY <1>6
  <1>7. CASE b = mine /\ given /\ pricing.cost # quote[b]
    <2>1. b \notin missed /\ AtWork(b)
      BY <1>4, <1>7 DEF AtWork
    <2>2. PICK q \in Quotes : jobs[<<b, q>>] = "waiting"
      BY <1>7, <2>1 DEF QuotesFollow
    <2> QED BY <1>3, <2>2, AtRestStates
  <1>8. CASE b = mine /\ ~given
    BY <1>4, <1>8
  <1> QED BY <1>5, <1>6, <1>7, <1>8

\* Every step leaves each bid with a job in hand, or priced at its quote.
LEMMA FollowStep ==
  ASSUME RepriceTypeOK, StepsHold, QuotesFollow, RepriceNext, RepriceTypeOK'
  PROVE  QuotesFollow'
  <1>1. CASE \E b \in Bids, q \in Quotes : Bid(b, q)
    BY <1>1 DEF Bid, QuotesFollow, AtHand, AtWork
  <1>2. CASE \E b \in Bids : ReadBid(b)
    <2>1. /\ UNCHANGED <<asked, asks, quote, latest, jobs, pricing, missed>>
          /\ \A b \in Bids : ~AtHand(b)
      BY <1>2 DEF ReadBid, AtHand
    <2> QED BY <2>1 DEF QuotesFollow, AtWork
  <1>3. CASE \E b \in Bids : RequestReprice(b)
    <2>1. PICK r \in Bids : RequestReprice(r)
      BY <1>3
    <2> DEFINE j == <<r, quote[r]>>
    <2>2. j \in Names /\ j[1] = r /\ j[2] = quote[r]
      BY <2>1 DEF RequestReprice, Names, RepriceTypeOK
    <2>3. AddJob(j) /\ UNCHANGED <<asked, asks, quote, latest, collector, pricing>>
      BY <2>1 DEF RequestReprice
    <2> HIDE DEF j
    <2> SUFFICES ASSUME NEW b \in Bids, quote[b] # NoQuote, b \notin missed', ~AtHand(b)
                 PROVE  Followed(b)'
      BY <2>3 DEF QuotesFollow, Followed, AtHand, AtWork
    <2> QED BY <2>2, <2>3, AddFollows
  <1>4. CASE UpsertBid
    <2>1. /\ collector.step = "upsert" /\ quote' = [quote EXCEPT ![collector.bid] = collector.price]
          /\ UNCHANGED <<latest, jobs, pricing, missed>> /\ \A b \in Bids : ~AtHand(b)
      BY <1>4 DEF UpsertBid, AtHand
    <2>2. \A b \in Bids : AtHand(b)' \/ quote'[b] = quote[b]
      <3>1. CASE quote[collector.bid] = collector.price
        BY <2>1, <3>1 DEF RepriceTypeOK
      <3>2. CASE quote[collector.bid] # collector.price
        <4>1. collector'.step = "hand" /\ collector'.bid = collector.bid
          BY <1>4, <3>2 DEF UpsertBid, RepriceTypeOK
        <4> QED BY <2>1, <4>1 DEF AtHand, RepriceTypeOK
      <3> QED BY <3>1, <3>2
    <2> QED BY <2>1, <2>2 DEF QuotesFollow, AtWork
  <1>5. CASE HandBid
    <2> DEFINE j == <<collector.bid, collector.price>>
    <2>1. j \in Names /\ j[1] = collector.bid /\ j[2] = quote[j[1]]
      BY <1>5 DEF HandBid, Names, RepriceTypeOK, StepsHold
    <2>2. AddJob(j) /\ UNCHANGED <<asked, asks, quote, latest, pricing>>
      BY <1>5 DEF HandBid
    <2> HIDE DEF j
    <2> SUFFICES ASSUME NEW b \in Bids, quote[b] # NoQuote, b \notin missed'
                 PROVE  Followed(b)'
      BY <2>2 DEF QuotesFollow, Followed, AtWork
    <2>3. b = j[1] \/ ~AtHand(b)
      BY <2>1 DEF AtHand
    <2> QED BY <2>1, <2>2, <2>3, AddFollows
  <1>6. CASE CollectorFails
    <2>1. /\ UNCHANGED <<quote, latest, jobs, pricing>> /\ missed \subseteq missed'
          /\ \A b \in Bids : AtHand(b) => b \in missed'
      BY <1>6 DEF CollectorFails, AtHand
    <2> QED BY <2>1 DEF QuotesFollow, AtWork
  <1>7. CASE \E j \in Names : LoadQuote(j)
    <2>1. PICK j \in Names : LoadQuote(j)
      BY <1>7
    <2>2. /\ pricing.step = "idle" /\ jobs[j] = "waiting" /\ jobs' = [jobs EXCEPT ![j] = "active"]
          /\ pricing'.step = "estimate" /\ pricing'.job = j /\ pricing'.cost = quote[j[1]]
          /\ UNCHANGED <<asked, asks, quote, latest, collector, missed>>
      BY <2>1 DEF LoadQuote
    <2> SUFFICES ASSUME NEW b \in Bids, quote[b] # NoQuote, b \notin missed, ~AtHand(b)
                 PROVE  Followed(b)'
      BY <2>2 DEF QuotesFollow, Followed, AtHand, AtWork
    <2>3. CASE b = j[1]
      BY <2>2, <2>3 DEF Followed, AtWork
    <2>4. CASE b # j[1]
      <3>1. Followed(b) /\ ~AtWork(b) /\ ~AtWork(b)'
        BY <2>2, <2>4 DEF QuotesFollow, Followed, AtWork
      <3>2. \A q \in Quotes : jobs'[<<b, q>>] = jobs[<<b, q>>]
        BY <2>2, <2>4, AtRestStates DEF RepriceTypeOK
      <3> QED BY <2>2, <3>1, <3>2 DEF Followed
    <2> QED BY <2>3, <2>4
  <1>8. pricing.job[1] \in Bids /\ pricing.job \in Names
    BY AtRestStates DEF RepriceTypeOK
  <1>9. CASE StoreQuoteEstimate
    <2>1. CASE /\ latest[pricing.job[1]].cost = pricing.cost /\ latest[pricing.job[1]].judged
               /\ Done(pricing.job, TRUE) /\ UNCHANGED latest
      <3>1. latest[pricing.job[1]].judged = TRUE /\ pricing.step # "idle"
        BY <1>8, <1>9, <2>1 DEF RepriceTypeOK, StoreQuoteEstimate
      <3> QED BY <2>1, <3>1, DoneFollows DEF RepriceTypeOK
    <2>2. CASE /\ pricing' = [pricing EXCEPT !.step = "judge"] /\ OnlyPricing
               /\ \A b \in Bids \ {pricing.job[1]} : latest'[b] = latest[b]
      <3>1. /\ pricing'.step = "judge" /\ pricing'.job = pricing.job /\ pricing'.cost = pricing.cost
            /\ UNCHANGED <<quote, collector, jobs, missed>> /\ pricing.step = "estimate"
        BY <1>9, <2>2 DEF OnlyPricing, RepriceTypeOK, StoreQuoteEstimate
      <3>2. \A b \in Bids : AtWork(b)' <=> AtWork(b)
        BY <3>1 DEF AtWork
      <3>3. \A b \in Bids : ~AtWork(b) => latest'[b] = latest[b]
        BY <2>2, <3>1 DEF AtWork
      <3> QED BY <3>1, <3>2, <3>3 DEF QuotesFollow, AtHand
    <2>3. \A b \in Bids \ {pricing.job[1]} : latest'[b] = latest[b]
      <3>1. \/ UNCHANGED latest
            \/ latest' = [latest EXCEPT ![pricing.job[1]] = [cost |-> pricing.cost, judged |-> FALSE]]
        BY <1>9 DEF StoreQuoteEstimate
      <3>2. CASE UNCHANGED latest
        BY <3>2
      <3>3. CASE latest' = [latest EXCEPT ![pricing.job[1]] = [cost |-> pricing.cost, judged |-> FALSE]]
        BY <3>3 DEF RepriceTypeOK
      <3> QED BY <3>1, <3>2, <3>3
    <2> QED BY <1>9, <2>1, <2>2, <2>3 DEF StoreQuoteEstimate
  <1>10. CASE Judge
    <2>1. PICK b \in Bids : b = pricing.job[1]
      BY <1>8
    <2>2. /\ latest' = [latest EXCEPT ![b].judged = TRUE] /\ Done(pricing.job, TRUE)
          /\ pricing.step = "judge" /\ latest[b].cost = pricing.cost
      BY <1>10, <2>1 DEF Judge, StepsHold
    <2>3. /\ latest'[b].cost = pricing.cost /\ latest'[b].judged = TRUE
          /\ \A c \in Bids : c # b => latest'[c] = latest[c]
          /\ latest' \in [Bids -> [cost : Quotes \cup {NoQuote}, judged : BOOLEAN]]
      BY <2>2 DEF RepriceTypeOK
    <2>4. pricing.step # "idle"
      BY <2>2
    <2> QED BY <2>1, <2>2, <2>3, <2>4, DoneFollows
  <1>11. CASE PricingEnds
    BY <1>11, DoneFollows DEF PricingEnds, RepriceTypeOK
  <1>12. CASE PricingRetried
    <2>1. /\ jobs' = [jobs EXCEPT ![pricing.job] = "waiting"] /\ pricing'.step = "idle"
          /\ UNCHANGED <<quote, latest, collector, missed>>
      BY <1>12, AtRestStates DEF PricingRetried
    <2> SUFFICES ASSUME NEW b \in Bids, quote[b] # NoQuote, b \notin missed, ~AtHand(b)
                 PROVE  Followed(b)'
      BY <2>1 DEF QuotesFollow, Followed, AtHand, AtWork
    <2>2. CASE b = pricing.job[1]
      <3>1. pricing.job[2] \in Quotes /\ pricing.job = <<b, pricing.job[2]>>
        BY <1>8, <2>2, AtRestStates
      <3>2. jobs'[<<b, pricing.job[2]>>] = "waiting"
        BY <1>8, <2>1, <3>1 DEF RepriceTypeOK
      <3> QED BY <3>1, <3>2 DEF Followed
    <2>3. CASE b # pricing.job[1]
      <3>1. Followed(b) /\ ~AtWork(b) /\ ~AtWork(b)'
        BY <2>1, <2>3 DEF QuotesFollow, Followed, AtWork
      <3>2. \A q \in Quotes : jobs'[<<b, q>>] = jobs[<<b, q>>]
        BY <2>1, <2>3, AtRestStates DEF RepriceTypeOK
      <3> QED BY <2>1, <3>1, <3>2 DEF Followed
    <2> QED BY <2>2, <2>3
  <1> QED BY <1>1, <1>2, <1>3, <1>4, <1>5, <1>6, <1>7, <1>9, <1>10, <1>11, <1>12 DEF RepriceNext

\* When every quote is followed, a bid at rest is priced at its quote.
LEMMA FollowedSettles ==
  ASSUME RepriceTypeOK, QuotesFollow
  PROVE  SettledAtQuote
  <1> SUFFICES ASSUME NEW b \in Bids, quote[b] # NoQuote, b \notin missed, ~AtHand(b),
                      \A q \in Quotes : jobs[<<b, q>>] \notin {"waiting", "active"}
               PROVE  latest[b] = [cost |-> quote[b], judged |-> TRUE]
    BY DEF SettledAtQuote, AtHand
  <1>1. ~AtWork(b)
    <2> SUFFICES ASSUME AtWork(b) PROVE FALSE
      OBVIOUS
    <2>1. pricing.job \in Names /\ jobs[pricing.job] = "active" /\ pricing.job[1] = b
      BY DEF AtWork, RepriceTypeOK
    <2>2. pricing.job[2] \in Quotes /\ pricing.job = <<b, pricing.job[2]>>
      BY <2>1, AtRestStates
    <2> QED BY <2>1, <2>2
  <1> QED BY <1>1 DEF QuotesFollow

\* Every step of quoting and pricing keeps the invariant.
LEMMA NextReprice == RepriceInv /\ [RepriceNext]_repriceVars => RepriceInv'
  <1> SUFFICES ASSUME RepriceInv, [RepriceNext]_repriceVars PROVE RepriceInv'
    OBVIOUS
  <1>1. CASE RepriceNext
    <2>1. RepriceTypeOK' /\ StepsHold' /\ QuotesFollow'
      BY <1>1, RepriceTypes, RepriceStepsHold, FollowStep DEF RepriceInv
    <2>2. SettledAtQuote'
      BY <2>1, FollowedSettles, PTL
    <2> QED BY <2>1, <2>2 DEF RepriceInv
  <1>2. CASE UNCHANGED repriceVars
    BY <1>2 DEF repriceVars, RepriceInv, RepriceTypeOK, StepsHold, QuotesFollow, SettledAtQuote,
                AtHand, AtWork
  <1> QED BY <1>1, <1>2

\* Whatever order bids change, are collected and priced in, a job at rest was judged at
\* each bidder's present quote, for any number of bids and quotes.
THEOREM MarginIsAtQuote == RepriceSpec => []SettledAtQuote
  <1>1. RepriceInv => SettledAtQuote
    BY DEF RepriceInv
  <1> QED BY InitReprice, NextReprice, <1>1, PTL DEF RepriceSpec

-----------------------------------------------------------------------------
\* Orders and payments (Delivery).
\* What is there before anything is ordered.
LEMMA BlankOrders ==
  /\ NewOrder \in OrderRows /\ NewOrder.status = "draft"
  /\ NoOrder \in OrderRows /\ NoOrder.status = "absent"
  /\ Quiet \in OrderRequestStates /\ Quiet.act = "none"
  <1>1. AnyOrder \in Orders
    BY DeliveryAssumption DEF AnyOrder
  <1>2. NewOrder \in OrderRows /\ NewOrder.status = "draft"
    BY DEF NewOrder, OrderRows, OrderStatuses, MilestoneStatuses
  <1>3. NoOrder \in OrderRows /\ NoOrder.status = "absent"
    BY <1>2 DEF NoOrder, OrderRows, OrderStatuses
  <1>4. Quiet \in OrderRequestStates /\ Quiet.act = "none"
    BY <1>1, <1>3 DEF Quiet, OrderRequestStates, PipelineStages
  <1> QED BY <1>2, <1>3, <1>4

\* Before any order the invariant holds.
LEMMA InitDelivery == DeliveryInit => DeliveryInv
  <1> SUFFICES ASSUME DeliveryInit PROVE DeliveryInv
    OBVIOUS
  <1>1. /\ order \in [Orders -> OrderRows] /\ \A o \in Orders : order[o].status = "absent"
        /\ req \in [OrderRequests -> OrderRequestStates]
        /\ \A r \in OrderRequests : req[r].act = "none"
    BY BlankOrders DEF DeliveryInit
  <1>2. paid = 0 /\ paid \in 0..MaxPaid /\ requested \in 0..MaxRequested
    BY DeliveryAssumption DEF DeliveryInit
  <1>3. DeliveryTypeOK
    BY <1>1, <1>2 DEF DeliveryInit, DeliveryTypeOK, PipelineStages
  <1>4. LiveOrders = {}
    BY <1>1 DEF LiveOrders, IsLive
  <1>5. OneLiveOrder
    BY <1>4 DEF OneLiveOrder
  <1>6. OrdersOneAtATime
    BY <1>1, <1>4 DEF OrdersOneAtATime, OnOrder, Acts, DeliveryInit
  <1>7. PaymentsOneAtATime
    BY <1>1 DEF PaymentsOneAtATime
  <1>8. PaidJobIsMarkedPaid
    BY <1>2, DeliveryAssumption DEF PaidJobIsMarkedPaid
  <1> QED BY <1>3, <1>5, <1>6, <1>7, <1>8 DEF DeliveryInv

-----------------------------------------------------------------------------
\* A request that is over is quiet, and the others are as they were.
LEMMA Ended ==
  ASSUME DeliveryTypeOK, NEW r \in OrderRequests, End(r)
  PROVE  /\ req' \in [OrderRequests -> OrderRequestStates]
         /\ req'[r].act = "none"
         /\ \A x \in OrderRequests : x = r \/ req'[x] = req[x]
  <1>1. req \in [OrderRequests -> OrderRequestStates] /\ req' = [req EXCEPT ![r] = Quiet]
    BY DEF DeliveryTypeOK, End
  <1> QED BY <1>1, BlankOrders

\* Edits of a row leave its status and everything else.
LEMMA RowEdited ==
  ASSUME DeliveryTypeOK, NEW r \in OrderRequests,
         EditOrder(r) \/ TickHandover(r) \/ MarkMilestone(r)
  PROVE  /\ order' \in [Orders -> OrderRows]
         /\ LiveOrders' = LiveOrders
         /\ req[r].act \in OnOrder /\ req[r].act \notin {"pay", "paying"}
         /\ End(r) /\ OnlyOrder
  <1> DEFINE o == req[r].order
  <1>1. /\ order \in [Orders -> OrderRows] /\ req[r] \in OrderRequestStates
        /\ o \in Orders /\ req[r].saw \in OrderRows
    BY DEF DeliveryTypeOK, OrderRequestStates
  <1>2. \E to \in OrderRows : to.status = order[o].status /\ order' = [order EXCEPT ![o] = to]
    <2>1. CASE EditOrder(r)
      <3>1. PICK ms \in [Milestones -> MilestoneStatuses] : order' = [order EXCEPT ![o].milestones = ms]
        BY <2>1 DEF EditOrder
      <3> DEFINE to == [order[o] EXCEPT !.milestones = ms]
      <3>2. to \in OrderRows /\ to.status = order[o].status /\ order' = [order EXCEPT ![o] = to]
        BY <1>1, <3>1 DEF OrderRows
      <3> QED BY <3>2
    <2>2. CASE TickHandover(r)
      <3>1. PICK done \in SUBSET Handover : order' = [order EXCEPT ![o].done = done]
        <4>1. req[r].saw.done \in SUBSET Handover
          BY <1>1 DEF OrderRows
        <4>2. PICK h \in Handover, tick \in BOOLEAN :
                order' = [order EXCEPT ![o].done =
                            IF tick THEN req[r].saw.done \cup {h} ELSE req[r].saw.done \ {h}]
          BY <2>2 DEF TickHandover
        <4> QED BY <4>1, <4>2
      <3> DEFINE to == [order[o] EXCEPT !.done = done]
      <3>2. to \in OrderRows /\ to.status = order[o].status /\ order' = [order EXCEPT ![o] = to]
        BY <1>1, <3>1 DEF OrderRows
      <3> QED BY <3>2
    <2>3. CASE MarkMilestone(r)
      <3>1. PICK ms \in [Milestones -> MilestoneStatuses] : order' = [order EXCEPT ![o].milestones = ms]
        <4>1. req[r].saw.milestones \in [Milestones -> MilestoneStatuses]
          BY <1>1 DEF OrderRows
        <4>2. PICK m \in Milestones, s \in MilestoneStatuses :
                order' = [order EXCEPT ![o].milestones = [req[r].saw.milestones EXCEPT ![m] = s]]
          BY <2>3 DEF MarkMilestone
        <4> QED BY <4>1, <4>2
      <3> DEFINE to == [order[o] EXCEPT !.milestones = ms]
      <3>2. to \in OrderRows /\ to.status = order[o].status /\ order' = [order EXCEPT ![o] = to]
        BY <1>1, <3>1 DEF OrderRows
      <3> QED BY <3>2
    <2> QED BY <2>1, <2>2, <2>3
  <1>3. order' \in [Orders -> OrderRows] /\ \A x \in Orders : order'[x].status = order[x].status
    BY <1>1, <1>2
  <1>4. LiveOrders' = LiveOrders
    BY <1>3 DEF LiveOrders, IsLive
  <1>5. /\ req[r].act \in OnOrder /\ req[r].act \notin {"pay", "paying"}
        /\ End(r) /\ OnlyOrder
    BY DEF EditOrder, TickHandover, MarkMilestone, OnOrder, Acts
  <1> QED BY <1>3, <1>4, <1>5

\* A status that changes: the order's, and no other's.
LEMMA StatusChanged ==
  ASSUME DeliveryTypeOK, NEW o \in Orders, NEW to \in OrderStatuses,
         order' = [order EXCEPT ![o].status = to]
  PROVE  /\ order' \in [Orders -> OrderRows]
         /\ order'[o].status = to
         /\ to \in {"absent", "cancelled"} => LiveOrders' = LiveOrders \ {o}
         /\ to \notin {"absent", "cancelled"} => LiveOrders' = LiveOrders \cup {o}
  <1>1. order \in [Orders -> OrderRows]
    BY DEF DeliveryTypeOK
  <1> DEFINE row == [order[o] EXCEPT !.status = to]
  <1>2. row \in OrderRows /\ row.status = to /\ order' = [order EXCEPT ![o] = row]
    BY <1>1 DEF OrderRows
  <1> HIDE DEF row
  <1>3. /\ order' \in [Orders -> OrderRows] /\ order'[o] = row
        /\ \A x \in Orders : x = o \/ order'[x] = order[x]
    BY <1>1, <1>2
  <1> QED BY <1>2, <1>3 DEF LiveOrders, IsLive

\* A move takes an order on its way to its next status.
LEMMA OrderMoved ==
  ASSUME DeliveryTypeOK, NEW r \in OrderRequests, MoveOrder(r)
  PROVE  \E to \in OrderStatuses :
           /\ to \in Transitions[req[r].saw.status] /\ to # "absent"
           /\ req[r].saw.status \notin {"absent", "cancelled"}
           /\ to = "cancelled" \/ LiveOrders \subseteq {req[r].order}
           /\ order' = [order EXCEPT ![req[r].order].status = to]
           /\ MoveStage(StageFor(to, stage))
           /\ sourcing' = IF to = "cancelled" /\ sourcing = "chosen" THEN "shortlisting" ELSE sourcing
  <1>1. req[r].saw.status \in OrderStatuses
    BY DEF DeliveryTypeOK, OrderRequestStates, OrderRows
  <1>2. PICK to \in OrderStatuses :
           /\ MayMove(req[r].saw, req[r].stage, to)
           /\ to = "cancelled" \/ LiveOrders \subseteq {req[r].order}
           /\ order' = [order EXCEPT ![req[r].order].status = to]
           /\ MoveStage(StageFor(to, stage))
           /\ sourcing' = IF to = "cancelled" /\ sourcing = "chosen" THEN "shortlisting" ELSE sourcing
    BY DEF MoveOrder
  <1>3. to \in Transitions[req[r].saw.status]
    BY <1>2 DEF MayMove
  <1>4. to # "absent" /\ req[r].saw.status \notin {"absent", "cancelled"}
    BY <1>1, <1>3 DEF Transitions, OrderStatuses
  <1> QED BY <1>2, <1>3, <1>4

-----------------------------------------------------------------------------
\* Every step of a request on an order keeps the types.
LEMMA TypeNext ==
  ASSUME DeliveryTypeOK, NEW r \in OrderRequests,
         \/ \E act \in Acts, o \in Orders : Start(r, act, o)
         \/ Refuse(r) \/ ChooseSupplier(r) \/ Shortlist(r)
         \/ EditOrder(r) \/ TickHandover(r) \/ MarkMilestone(r)
         \/ MoveOrder(r) \/ MoveItem(r) \/ SumPayments(r) \/ RecordPayment(r)
  PROVE  DeliveryTypeOK'
  <1>1. /\ order \in [Orders -> OrderRows] /\ req \in [OrderRequests -> OrderRequestStates]
        /\ sourcing \in {"open", "shortlisting", "chosen"} /\ stage \in PipelineStages
        /\ paid \in 0..MaxPaid /\ requested \in 0..MaxRequested
        /\ crossed \subseteq {"order", "payment"} /\ movedOn \in BOOLEAN
    BY DEF DeliveryTypeOK
  <1>2. ASSUME NEW act \in Acts, NEW o \in Orders, Start(r, act, o) PROVE DeliveryTypeOK'
    <2> DEFINE to == [act |-> act, order |-> o,
                      saw |-> IF act \in {"tick", "mark", "move"} THEN order[o] ELSE NoOrder,
                      stage |-> IF act \in {"move", "pay"} THEN stage ELSE Quiet.stage, full |-> FALSE]
    <2>1. to \in OrderRequestStates
      <3>1. order[o] \in OrderRows /\ NoOrder \in OrderRows
        BY <1>1, BlankOrders
      <3>2. Quiet.stage \in PipelineStages
        BY DEF Quiet, PipelineStages
      <3> QED BY <1>1, <3>1, <3>2 DEF OrderRequestStates
    <2>2. req' = [req EXCEPT ![r] = to] /\ requested' = requested + 1 /\ requested < MaxRequested
          /\ UNCHANGED <<order, sourcing, stage, paid, movedOn>>
      BY <1>2 DEF Start
    <2>3. crossed' \subseteq {"order", "payment"}
      BY <1>1, <1>2 DEF Start
    <2> HIDE DEF to
    <2>4. req' \in [OrderRequests -> OrderRequestStates] /\ requested' \in 0..MaxRequested
      BY <1>1, <2>1, <2>2, DeliveryAssumption
    <2> QED BY <1>1, <2>2, <2>3, <2>4 DEF DeliveryTypeOK
  <1>3. ASSUME NEW to \in PipelineStages, MoveStage(to)
        PROVE  stage' \in PipelineStages /\ movedOn' \in BOOLEAN
    BY <1>1, <1>3 DEF MoveStage
  <1>4. CASE Refuse(r) \/ Shortlist(r)
    BY <1>1, <1>4, Ended DEF Refuse, Shortlist, DeliveryTypeOK
  <1>5. CASE ChooseSupplier(r)
    <2>1. order' \in [Orders -> OrderRows]
      BY <1>1, <1>5, BlankOrders DEF ChooseSupplier
    <2> QED BY <1>1, <1>5, <2>1, Ended DEF ChooseSupplier, DeliveryTypeOK
  <1>6. CASE EditOrder(r) \/ TickHandover(r) \/ MarkMilestone(r)
    BY <1>1, <1>6, RowEdited, Ended DEF OnlyOrder, DeliveryTypeOK
  <1>7. CASE MoveOrder(r)
    <2>1. req[r].order \in Orders
      BY <1>1 DEF OrderRequestStates
    <2>2. PICK to \in OrderStatuses :
            /\ order' = [order EXCEPT ![req[r].order].status = to]
            /\ MoveStage(StageFor(to, stage))
            /\ sourcing' = IF to = "cancelled" /\ sourcing = "chosen" THEN "shortlisting" ELSE sourcing
      BY <1>7, OrderMoved
    <2>3. StageFor(to, stage) \in PipelineStages
      BY <1>1 DEF StageFor, PipelineStages
    <2>4. order' \in [Orders -> OrderRows]
      BY <2>1, <2>2, StatusChanged
    <2>5. sourcing' \in {"open", "shortlisting", "chosen"}
      BY <1>1, <2>2
    <2> QED BY <1>1, <1>3, <1>7, <2>2, <2>3, <2>4, <2>5, Ended DEF MoveOrder, DeliveryTypeOK
  <1>8. CASE MoveItem(r)
    BY <1>1, <1>3, <1>8, Ended DEF MoveItem, DeliveryTypeOK
  <1>9. CASE SumPayments(r)
    <2> DEFINE full == PaidInFull(paid + 1) /\ req[r].stage # "paid"
               to == [req[r] EXCEPT !.act = "paying", !.full = full]
    <2>1. full \in BOOLEAN
      OBVIOUS
    <2>2. req' = [req EXCEPT ![r] = to]
      BY <1>1, <1>9 DEF SumPayments
    <2> HIDE DEF full
    <2>3. to \in OrderRequestStates
      BY <1>1, <2>1 DEF OrderRequestStates
    <2> HIDE DEF to
    <2>4. req' \in [OrderRequests -> OrderRequestStates]
      BY <1>1, <2>2, <2>3
    <2> QED BY <1>1, <1>9, <2>4 DEF SumPayments, DeliveryTypeOK
  <1>10. CASE RecordPayment(r)
    <2>1. paid' \in 0..MaxPaid
      BY <1>1, <1>10, DeliveryAssumption DEF RecordPayment
    <2>2. stage' \in PipelineStages /\ movedOn' \in BOOLEAN
      BY <1>1, <1>10 DEF RecordPayment, PipelineStages
    <2> QED BY <1>1, <1>10, <2>1, <2>2, Ended DEF RecordPayment, DeliveryTypeOK
  <1> QED BY <1>2, <1>4, <1>5, <1>6, <1>7, <1>8, <1>9, <1>10

-----------------------------------------------------------------------------
\* The order that is live, and the request it was chosen on.
LEMMA OneLiveNext ==
  ASSUME DeliveryInv, [DeliveryNext]_deliveryVars
  PROVE  OneLiveOrder'
  <1>1. DeliveryTypeOK /\ \A o1, o2 \in LiveOrders : o1 = o2
    BY DEF DeliveryInv, OneLiveOrder
  <1>2. CASE UNCHANGED order
    <2>1. LiveOrders' = LiveOrders
      BY <1>2 DEF LiveOrders, IsLive
    <2> QED BY <1>1, <2>1 DEF OneLiveOrder
  <1>3. ASSUME NEW r \in OrderRequests, EditOrder(r) \/ TickHandover(r) \/ MarkMilestone(r)
        PROVE  OneLiveOrder'
    BY <1>1, <1>3, RowEdited DEF OneLiveOrder
  <1>4. ASSUME NEW r \in OrderRequests, ChooseSupplier(r) PROVE OneLiveOrder'
    <2>1. LiveOrders' \subseteq {req[r].order}
      BY <1>1, <1>4 DEF ChooseSupplier, LiveOrders, IsLive, DeliveryTypeOK
    <2> QED BY <2>1 DEF OneLiveOrder
  <1>5. ASSUME NEW r \in OrderRequests, MoveOrder(r) PROVE OneLiveOrder'
    <2> DEFINE o == req[r].order
    <2>1. o \in Orders
      BY <1>1 DEF DeliveryTypeOK, OrderRequestStates
    <2>2. PICK to \in OrderStatuses :
            /\ to = "cancelled" \/ LiveOrders \subseteq {o}
            /\ order' = [order EXCEPT ![o].status = to]
      BY <1>1, <1>5, OrderMoved
    <2>3. LiveOrders' = LiveOrders \ {o} \/ LiveOrders' = LiveOrders \cup {o}
      BY <1>1, <2>1, <2>2, StatusChanged
    <2>4. to = "cancelled" => LiveOrders' = LiveOrders \ {o}
      BY <1>1, <2>1, <2>2, StatusChanged
    <2>5. LiveOrders' \subseteq LiveOrders \/ LiveOrders' \subseteq {o}
      BY <2>2, <2>3, <2>4
    <2> QED BY <1>1, <2>5 DEF OneLiveOrder
  <1> QED BY <1>2, <1>3, <1>4, <1>5
       DEF DeliveryNext, deliveryVars, Start, Refuse, OnlyOrder, Shortlist, MoveItem,
           SumPayments, RecordPayment

\* A request on an order that comes alone.
LEMMA StartsAlone ==
  ASSUME DeliveryInv, NEW r \in OrderRequests, NEW act \in Acts, NEW o \in Orders,
         Start(r, act, o)
  PROVE  OrdersOneAtATime' /\ PaymentsOneAtATime'
  <1>1. /\ req \in [OrderRequests -> OrderRequestStates]
        /\ UNCHANGED <<order, sourcing, stage, paid, movedOn>>
        /\ req[r].act = "none"
    BY DEF DeliveryInv, DeliveryTypeOK, Start
  <1> DEFINE to == [act |-> act, order |-> o,
                    saw |-> IF act \in {"tick", "mark", "move"} THEN order[o] ELSE NoOrder,
                    stage |-> IF act \in {"move", "pay"} THEN stage ELSE Quiet.stage, full |-> FALSE]
  <1>2. req' = [req EXCEPT ![r] = to]
    BY DEF Start
  <1>3. /\ to.act = act /\ to.order = o
        /\ act = "move" => to.saw = order[o]
        /\ act = "pay" => to.stage = stage
        /\ act = "shortlist" => sourcing # "chosen"
    BY DEF Start, MayStart
  <1> HIDE DEF to
  <1>4. req'[r] = to /\ \A x \in OrderRequests : x = r \/ req'[x] = req[x]
    BY <1>1, <1>2
  <1>5. LiveOrders' = LiveOrders
    BY <1>1 DEF LiveOrders, IsLive
  <1>6. OrdersOneAtATime'
    <2> SUFFICES ASSUME "order" \notin crossed'
                 PROVE  /\ \A r1, r2 \in OrderRequests :
                             req'[r1].act \in OnOrder /\ req'[r2].act \in OnOrder => r1 = r2
                        /\ \A x \in OrderRequests :
                             /\ req'[x].act = "move" => req'[x].saw = order[req'[x].order]
                             /\ req'[x].act = "shortlist" => sourcing # "chosen"
                        /\ sourcing = "chosen" <=> LiveOrders # {}
      BY <1>1, <1>5 DEF OrdersOneAtATime
    <2>1. /\ "order" \notin crossed
          /\ act \in OnOrder => \A x \in OrderRequests : req[x].act \notin OnOrder
      BY DEF Start
    <2> QED BY <1>3, <1>4, <2>1 DEF DeliveryInv, OrdersOneAtATime
  <1>7. PaymentsOneAtATime'
    <2> SUFFICES ASSUME "payment" \notin crossed'
                 PROVE  /\ \A r1, r2 \in OrderRequests :
                             req'[r1].act \in {"pay", "paying"} /\ req'[r2].act \in {"pay", "paying"}
                             => r1 = r2
                        /\ \A x \in OrderRequests :
                             /\ req'[x].act \in {"pay", "paying"} /\ ~movedOn => req'[x].stage = stage
                             /\ req'[x].act = "paying" =>
                                  req'[x].full = (PaidInFull(paid + 1) /\ req'[x].stage # "paid")
      BY <1>1 DEF PaymentsOneAtATime
    <2>1. /\ "payment" \notin crossed
          /\ act = "pay" => \A x \in OrderRequests : req[x].act \notin {"pay", "paying"}
      BY DEF Start
    <2>2. act # "paying"
      BY DEF Acts
    <2>3. ASSUME NEW x \in OrderRequests
          PROVE  /\ req'[x].act \in {"pay", "paying"} /\ ~movedOn => req'[x].stage = stage
                 /\ req'[x].act = "paying" =>
                      req'[x].full = (PaidInFull(paid + 1) /\ req'[x].stage # "paid")
      <3>1. CASE x = r
        BY <1>3, <1>4, <2>2, <3>1
      <3>2. CASE x # r
        BY <1>4, <2>1, <3>2 DEF DeliveryInv, PaymentsOneAtATime
      <3> QED BY <3>1, <3>2
    <2>4. ASSUME NEW r1 \in OrderRequests, NEW r2 \in OrderRequests,
                 req'[r1].act \in {"pay", "paying"}, req'[r2].act \in {"pay", "paying"}
          PROVE  r1 = r2
      BY <1>3, <1>4, <2>1, <2>2, <2>4 DEF DeliveryInv, PaymentsOneAtATime
    <2> QED BY <2>3, <2>4
  <1> QED BY <1>6, <1>7

\* A request that ends leaves the others alone with what they read, if the rows
\* are as they were or it was one of theirs.
LEMMA OrdersNext ==
  ASSUME DeliveryInv, [DeliveryNext]_deliveryVars
  PROVE  OrdersOneAtATime'
  <1>1. DeliveryTypeOK /\ OrdersOneAtATime /\ OneLiveOrder
    BY DEF DeliveryInv
  <1>2. CASE UNCHANGED deliveryVars
    BY <1>1, <1>2 DEF deliveryVars, OrdersOneAtATime, LiveOrders, IsLive
  <1>3. ASSUME NEW r \in OrderRequests, Refuse(r) \/ MoveItem(r) \/ RecordPayment(r)
        PROVE  OrdersOneAtATime'
    <2>1. End(r) /\ UNCHANGED <<order, sourcing, crossed>>
      BY <1>3 DEF Refuse, MoveItem, RecordPayment
    <2>2. LiveOrders' = LiveOrders
      BY <2>1 DEF LiveOrders, IsLive
    <2> QED BY <1>1, <2>1, <2>2, Ended DEF OrdersOneAtATime, OnOrder, Acts
  <1>4. ASSUME NEW r \in OrderRequests, SumPayments(r) PROVE OrdersOneAtATime'
    <2>1. /\ UNCHANGED <<order, sourcing, crossed>>
          /\ req'[r].act = "paying"
          /\ \A x \in OrderRequests : x = r \/ req'[x] = req[x]
      BY <1>1, <1>4 DEF SumPayments, DeliveryTypeOK, OrderRequestStates
    <2>2. LiveOrders' = LiveOrders
      BY <2>1 DEF LiveOrders, IsLive
    <2> QED BY <1>1, <2>1, <2>2 DEF OrdersOneAtATime, OnOrder, Acts
  <1>5. ASSUME NEW r \in OrderRequests, req[r].act \in OnOrder, End(r), UNCHANGED crossed,
               "order" \notin crossed => (sourcing' = "chosen" <=> LiveOrders' # {})
        PROVE  OrdersOneAtATime'
    <2>1. /\ req'[r].act = "none"
          /\ \A x \in OrderRequests : x = r \/ req'[x] = req[x]
      BY <1>1, <1>5, Ended
    <2>2. "order" \notin crossed => \A x \in OrderRequests : req'[x].act \notin OnOrder
      BY <1>1, <1>5, <2>1 DEF OrdersOneAtATime, OnOrder, Acts
    <2>3. "move" \in OnOrder /\ "shortlist" \in OnOrder
      BY DEF OnOrder, Acts
    <2> QED BY <1>5, <2>2, <2>3 DEF OrdersOneAtATime
  <1>6. ASSUME NEW r \in OrderRequests, EditOrder(r) \/ TickHandover(r) \/ MarkMilestone(r)
        PROVE  OrdersOneAtATime'
    <2>1. /\ LiveOrders' = LiveOrders /\ UNCHANGED <<sourcing, crossed>>
          /\ req[r].act \in OnOrder /\ End(r)
      BY <1>1, <1>6, RowEdited DEF OnlyOrder
    <2> QED BY <1>1, <1>5, <2>1 DEF OrdersOneAtATime
  <1>7. ASSUME NEW r \in OrderRequests, ChooseSupplier(r) PROVE OrdersOneAtATime'
    <2>1. req[r].order \in LiveOrders'
      BY <1>1, <1>7, BlankOrders
         DEF ChooseSupplier, LiveOrders, IsLive, DeliveryTypeOK, OrderRequestStates
    <2>2. req[r].act \in OnOrder /\ End(r) /\ UNCHANGED crossed /\ sourcing' = "chosen"
      BY <1>7 DEF ChooseSupplier, OnOrder, Acts
    <2> QED BY <1>5, <2>1, <2>2
  <1>8. ASSUME NEW r \in OrderRequests, Shortlist(r) PROVE OrdersOneAtATime'
    <2>1. /\ req[r].act = "shortlist" /\ req[r].act \in OnOrder /\ End(r)
          /\ UNCHANGED <<order, crossed>> /\ sourcing' # "chosen"
      BY <1>8 DEF Shortlist, OnOrder, Acts
    <2>2. LiveOrders' = LiveOrders
      BY <2>1 DEF LiveOrders, IsLive
    <2>3. "order" \notin crossed => LiveOrders = {}
      BY <1>1, <2>1 DEF OrdersOneAtATime
    <2> QED BY <1>5, <2>1, <2>2, <2>3
  <1>9. ASSUME NEW r \in OrderRequests, MoveOrder(r) PROVE OrdersOneAtATime'
    <2> DEFINE o == req[r].order
    <2>1. /\ req[r].act = "move" /\ req[r].act \in OnOrder /\ End(r)
          /\ UNCHANGED crossed /\ o \in Orders
      BY <1>1, <1>9 DEF MoveOrder, OnOrder, Acts, DeliveryTypeOK, OrderRequestStates
    <2>2. PICK to \in OrderStatuses :
            /\ to # "absent" /\ req[r].saw.status \notin {"absent", "cancelled"}
            /\ order' = [order EXCEPT ![o].status = to]
            /\ sourcing' = IF to = "cancelled" /\ sourcing = "chosen" THEN "shortlisting" ELSE sourcing
      BY <1>1, <1>9, OrderMoved
    <2>3. ASSUME "order" \notin crossed
          PROVE  sourcing' = "chosen" <=> LiveOrders' # {}
      <3>1. o \in LiveOrders /\ sourcing = "chosen"
        BY <1>1, <2>1, <2>2, <2>3 DEF OrdersOneAtATime, LiveOrders, IsLive
      <3>2. CASE to = "cancelled"
        <4>1. LiveOrders' = LiveOrders \ {o}
          BY <1>1, <2>1, <2>2, <3>2, StatusChanged
        <4>2. LiveOrders' = {}
          BY <1>1, <3>1, <4>1 DEF OneLiveOrder
        <4> QED BY <2>2, <3>1, <3>2, <4>2
      <3>3. CASE to # "cancelled"
        <4>1. LiveOrders' = LiveOrders \cup {o}
          BY <1>1, <2>1, <2>2, <3>3, StatusChanged
        <4> QED BY <2>2, <3>1, <3>3, <4>1
      <3> QED BY <3>2, <3>3
    <2> QED BY <1>5, <2>1, <2>3
  <1> QED BY <1>2, <1>3, <1>4, <1>6, <1>7, <1>8, <1>9, StartsAlone DEF DeliveryNext

-----------------------------------------------------------------------------
\* What payments read stays so, or the stage was moved.
LEMMA StageMoved ==
  ASSUME DeliveryInv, NEW r \in OrderRequests, req[r].act \notin {"pay", "paying"}, End(r),
         UNCHANGED <<paid, crossed>>,
         UNCHANGED <<stage, movedOn>> \/ \E to \in PipelineStages : MoveStage(to)
  PROVE  PaymentsOneAtATime' /\ PaidJobIsMarkedPaid'
  <1>1. /\ req'[r].act = "none"
        /\ \A x \in OrderRequests : x = r \/ req'[x] = req[x]
    BY Ended DEF DeliveryInv
  <1>2. ~movedOn' =>
          /\ ~movedOn
          /\ stage' = stage \/ (~(paid >= Value) /\ \A x \in OrderRequests : req[x].act \notin {"pay", "paying"})
    BY DEF MoveStage
  <1>3. PaymentsOneAtATime'
    BY <1>1, <1>2 DEF DeliveryInv, PaymentsOneAtATime
  <1>4. PaidJobIsMarkedPaid'
    BY <1>2 DEF DeliveryInv, PaidJobIsMarkedPaid
  <1> QED BY <1>3, <1>4

\* Every step keeps payments one at a time, and a paid job marked paid.
LEMMA PaymentsNext ==
  ASSUME DeliveryInv, [DeliveryNext]_deliveryVars
  PROVE  PaymentsOneAtATime' /\ PaidJobIsMarkedPaid'
  <1>1. DeliveryTypeOK /\ PaymentsOneAtATime /\ PaidJobIsMarkedPaid
    BY DEF DeliveryInv
  <1>2. CASE UNCHANGED deliveryVars
    BY <1>1, <1>2 DEF deliveryVars, PaymentsOneAtATime, PaidJobIsMarkedPaid
  <1>3. ASSUME NEW r \in OrderRequests, NEW act \in Acts, NEW o \in Orders, Start(r, act, o)
        PROVE  PaymentsOneAtATime' /\ PaidJobIsMarkedPaid'
    <2>1. UNCHANGED <<stage, paid, movedOn>> /\ crossed \subseteq crossed'
      BY <1>3 DEF Start
    <2> QED BY <1>1, <1>3, <2>1, StartsAlone DEF PaidJobIsMarkedPaid
  <1>4. ASSUME NEW r \in OrderRequests, Refuse(r) PROVE PaymentsOneAtATime' /\ PaidJobIsMarkedPaid'
    <2>1. /\ req'[r].act = "none" /\ UNCHANGED <<stage, paid, movedOn, crossed>>
          /\ \A x \in OrderRequests : x = r \/ req'[x] = req[x]
      BY <1>1, <1>4, Ended DEF Refuse
    <2> QED BY <1>1, <2>1 DEF PaymentsOneAtATime, PaidJobIsMarkedPaid
  <1>5. ASSUME NEW r \in OrderRequests,
               \/ ChooseSupplier(r) \/ Shortlist(r)
               \/ EditOrder(r) \/ TickHandover(r) \/ MarkMilestone(r)
        PROVE  PaymentsOneAtATime' /\ PaidJobIsMarkedPaid'
    <2>1. /\ req[r].act \notin {"pay", "paying"} /\ End(r)
          /\ UNCHANGED <<stage, paid, movedOn, crossed>>
      BY <1>1, <1>5, RowEdited DEF ChooseSupplier, Shortlist, OnlyOrder
    <2> QED BY <2>1, StageMoved
  <1>6. ASSUME NEW r \in OrderRequests, MoveOrder(r)
        PROVE  PaymentsOneAtATime' /\ PaidJobIsMarkedPaid'
    <2>1. /\ req[r].act \notin {"pay", "paying"} /\ End(r) /\ UNCHANGED <<paid, crossed>>
          /\ stage \in PipelineStages
      BY <1>1, <1>6 DEF MoveOrder, DeliveryTypeOK
    <2>2. PICK to \in OrderStatuses : MoveStage(StageFor(to, stage))
      BY <1>1, <1>6, OrderMoved
    <2>3. StageFor(to, stage) \in PipelineStages
      BY <2>1 DEF StageFor, PipelineStages
    <2> QED BY <2>1, <2>2, <2>3, StageMoved
  <1>7. ASSUME NEW r \in OrderRequests, MoveItem(r)
        PROVE  PaymentsOneAtATime' /\ PaidJobIsMarkedPaid'
    BY <1>7, StageMoved DEF MoveItem
  <1>8. ASSUME NEW r \in OrderRequests, SumPayments(r)
        PROVE  PaymentsOneAtATime' /\ PaidJobIsMarkedPaid'
    <2>1. /\ req[r].act = "pay" /\ UNCHANGED <<stage, paid, movedOn, crossed>>
          /\ req'[r].act = "paying" /\ req'[r].stage = req[r].stage
          /\ req'[r].full = (PaidInFull(paid + 1) /\ req[r].stage # "paid")
          /\ \A x \in OrderRequests : x = r \/ req'[x] = req[x]
      BY <1>1, <1>8 DEF SumPayments, DeliveryTypeOK, OrderRequestStates
    <2> QED BY <1>1, <2>1 DEF PaymentsOneAtATime, PaidJobIsMarkedPaid
  <1>9. ASSUME NEW r \in OrderRequests, RecordPayment(r)
        PROVE  PaymentsOneAtATime' /\ PaidJobIsMarkedPaid'
    <2>1. /\ req[r].act = "paying" /\ paid' = paid + 1 /\ UNCHANGED crossed
          /\ req'[r].act = "none"
          /\ \A x \in OrderRequests : x = r \/ req'[x] = req[x]
          /\ IF req[r].full THEN stage' = "paid" /\ movedOn' = FALSE
             ELSE UNCHANGED <<stage, movedOn>>
      BY <1>1, <1>9, Ended DEF RecordPayment
    <2>2. PaymentsOneAtATime'
      BY <1>1, <2>1 DEF PaymentsOneAtATime
    <2>3. PaidJobIsMarkedPaid'
      <3> SUFFICES ASSUME paid' >= Value, ~movedOn', "payment" \notin crossed'
                   PROVE stage' = "paid"
        BY DEF PaidJobIsMarkedPaid
      <3>1. CASE req[r].full
        BY <2>1, <3>1
      <3>2. CASE ~req[r].full
        <4>1. UNCHANGED <<stage, movedOn>>
          BY <2>1, <3>2
        <4>2. req[r].stage = stage /\ req[r].full = (PaidInFull(paid + 1) /\ req[r].stage # "paid")
          BY <1>1, <2>1, <4>1 DEF PaymentsOneAtATime
        <4>3. PaidInFull(paid + 1)
          BY <2>1 DEF PaidInFull
        <4> QED BY <3>2, <4>1, <4>2, <4>3
      <3> QED BY <3>1, <3>2
    <2> QED BY <2>2, <2>3
  <1> QED BY <1>2, <1>3, <1>4, <1>5, <1>6, <1>7, <1>8, <1>9 DEF DeliveryNext

-----------------------------------------------------------------------------
\* Every step of a request on an order keeps the invariant.
LEMMA NextDelivery == DeliveryInv /\ [DeliveryNext]_deliveryVars => DeliveryInv'
  <1> SUFFICES ASSUME DeliveryInv, [DeliveryNext]_deliveryVars PROVE DeliveryInv'
    OBVIOUS
  <1>1. DeliveryTypeOK'
    <2>1. CASE UNCHANGED deliveryVars
      BY <2>1 DEF deliveryVars, DeliveryInv, DeliveryTypeOK
    <2> QED BY <2>1, TypeNext DEF DeliveryInv, DeliveryNext
  <1> QED BY <1>1, OneLiveNext, OrdersNext, PaymentsNext DEF DeliveryInv

\* The inductive invariant of delivery holds of every reachable state.
THEOREM DeliveryInvariance == DeliverySpec => []DeliveryInv
  BY InitDelivery, NextDelivery, PTL DEF DeliverySpec

\* Every variable keeps its type.
THEOREM DeliveryTypeCorrect == DeliverySpec => []DeliveryTypeOK
  BY DeliveryInvariance, PTL DEF DeliveryInv

\* One live order, and a sourcing request that follows it (routes/delivery.ts).
THEOREM OneSupplier == DeliverySpec => []ChosenWhileLive
  <1>1. DeliveryInv => ChosenWhileLive
    <2> SUFFICES ASSUME DeliveryInv PROVE ChosenWhileLive
      OBVIOUS
    <2>1. Cardinality(LiveOrders) <= 1
      <3>1. CASE LiveOrders = {}
        <4>1. Cardinality(LiveOrders) = 0
          BY <3>1, FS_EmptySet
        <4> QED BY <4>1
      <3>2. CASE LiveOrders # {}
        <4>1. PICK o : LiveOrders = {o}
          BY <3>2 DEF DeliveryInv, OneLiveOrder
        <4>2. Cardinality(LiveOrders) = 1
          BY <4>1, FS_Singleton
        <4> QED BY <4>2
      <3> QED BY <3>1, <3>2
    <2> QED BY <2>1 DEF DeliveryInv, OrdersOneAtATime, ChosenWhileLive
  <1> QED BY DeliveryInvariance, <1>1, PTL

\* A job paid in full is marked paid (routes/payments.ts, core/payments.ts).
THEOREM MarkedPaid == DeliverySpec => []PaidJobIsMarkedPaid
  BY DeliveryInvariance, PTL DEF DeliveryInv

=============================================================================
