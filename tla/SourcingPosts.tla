----------------------------- MODULE SourcingPosts -----------------------------
(***************************************************************************)
(* The posts that look for suppliers for a job (routes/sourcing-posts.ts)  *)
(* and the worker that makes a project of an approved one at               *)
(* Freelancer.com (postSourcingProject in workers/sourcing.ts); posts for  *)
(* other platforms are made by hand and recorded.                          *)
(*                                                                         *)
(* A request reads the post and then writes it, whatever it is by then.    *)
(* Title, body and budget are the post's words.  A row is a post of one    *)
(* request on one platform; job ids are `sourcing-post__<post>`.           *)
(***************************************************************************)
EXTENDS Integers, Sequences, FiniteSets

CONSTANTS
  Posts,          \* rows of sourcing_posts
  ByHand,         \* those of platforms without an API
  Words,          \* what a post may say
  PostRequests,   \* requests that may be in progress at once
  MaxChanges,     \* bound: requests that are made
  MaxProjects     \* bound: projects created

ASSUME SourcingPostsAssumption ==
  /\ ByHand \subseteq Posts
  /\ Posts # {} /\ Words # {}
  /\ MaxChanges \in Nat /\ MaxProjects \in Nat

PostStatuses == {"absent", "draft", "approved", "posted", "failed", "closed"}
Live == {"draft", "approved", "posted"}
PostActs == {"draft", "edit", "approve", "record", "close"}

VARIABLES
  post,         \* the rows
  change,       \* requests: the act, the post, the words read
  changes,      \* how many there were
  posting,      \* the posts' jobs: state and step, the words read
  projects,     \* projects at Freelancer.com: post and words
  unrecorded,   \* how many of a post's its attempts could not put down
  vouched       \* a post's words as an approval had read them, or as it found
                \* them when it was stored, after an edit in between

postVars == <<post, change, changes, posting, projects, unrecorded, vouched>>

AnyWords == CHOOSE w \in Words : TRUE
NoPost == [status |-> "absent", words |-> AnyWords, approved |-> FALSE, external |-> FALSE]
NoChange == [act |-> "none", post |-> CHOOSE p \in Posts : TRUE, words |-> AnyWords]
Resting == [step |-> "none", words |-> AnyWords]

SourcingPostsInit ==
  /\ post = [p \in Posts |-> NoPost]
  /\ change = [r \in PostRequests |-> NoChange]
  /\ changes = 0
  /\ posting = [p \in Posts |-> Resting]
  /\ projects = <<>> /\ unrecorded = [p \in Posts |-> 0]
  /\ vouched = [p \in Posts |-> {}]

-----------------------------------------------------------------------------
Platform(p) == IF p \in ByHand THEN ByHand ELSE Posts \ ByHand

\* One live post per platform, as far as a request sees.
MayAct(act, p) ==
  CASE act = "draft"   -> /\ post[p].status = "absent"
                          /\ \A q \in Platform(p) : post[q].status \notin Live
    [] act = "edit"    -> post[p].status \in {"draft", "approved"}
    [] act = "approve" -> post[p].status = "draft"
    [] act = "record"  -> p \in ByHand /\ post[p].status = "approved"
    [] act = "close"   -> post[p].status \notin {"absent", "closed"}

ReadPost(r, act, p) ==
  /\ change[r].act = "none" /\ changes < MaxChanges
  /\ MayAct(act, p)
  /\ change' = [change EXCEPT ![r] = [act |-> act, post |-> p, words |-> post[p].words]]
  /\ changes' = changes + 1
  /\ UNCHANGED <<post, posting, projects, unrecorded, vouched>>

Replied(r) == change' = [change EXCEPT ![r] = NoChange]

\* Refused for its words, its role or its request's status, or failed.
ChangeRefused(r) ==
  /\ change[r].act # "none"
  /\ Replied(r)
  /\ UNCHANGED <<post, changes, posting, projects, unrecorded, vouched>>

Draft(r) ==
  LET p == change[r].post IN
  /\ change[r].act = "draft" /\ post[p].status = "absent"
  /\ \E w \in Words : post' = [post EXCEPT ![p] = [NoPost EXCEPT !.status = "draft", !.words = w]]
  /\ Replied(r)
  /\ UNCHANGED <<changes, posting, projects, unrecorded, vouched>>

\* Faulty variant: an edit leaves the approval as it is.
EditKeepsApproval(r) ==
  LET p == change[r].post IN
  /\ change[r].act = "edit"
  /\ \E w \in Words : post' = [post EXCEPT ![p].words = w]
  /\ Replied(r)
  /\ UNCHANGED <<changes, posting, projects, unrecorded, vouched>>

\* An edit clears the approval there is.
Edit(r) ==
  LET p == change[r].post IN
  /\ change[r].act = "edit"
  /\ \E w \in Words :
       post' = [post EXCEPT ![p].words = w, ![p].status = "draft", ![p].approved = FALSE]
  /\ Replied(r)
  /\ UNCHANGED <<changes, posting, projects, unrecorded, vouched>>

\* The words approved are the row's by now.  After the commit a post goes to the
\* sender, whose job's id may be taken, also by a job that is over.
Queue(p) ==
  \/ posting[p].step \in {"none", "over"} /\ posting' = [posting EXCEPT ![p].step = "waiting"]
  \/ posting[p].step # "none" /\ UNCHANGED posting

Approve(r) ==
  LET p == change[r].post IN
  /\ change[r].act = "approve"
  /\ post' = [post EXCEPT ![p].status = "approved", ![p].approved = TRUE]
  /\ vouched' = [vouched EXCEPT ![p] = @ \cup {change[r].words, post[p].words}]
  /\ IF p \in ByHand THEN UNCHANGED posting ELSE Queue(p)
  /\ Replied(r)
  /\ UNCHANGED <<changes, projects, unrecorded>>

\* A post made by hand, refused by the database when its approval is gone.
Record(r) ==
  LET p == change[r].post IN
  /\ change[r].act = "record" /\ post[p].approved
  /\ post' = [post EXCEPT ![p].status = "posted"]
  /\ Replied(r)
  /\ UNCHANGED <<changes, posting, projects, unrecorded, vouched>>

Close(r) ==
  LET p == change[r].post IN
  /\ change[r].act = "close"
  /\ post' = [post EXCEPT ![p].status = "closed"]
  /\ Replied(r)
  /\ UNCHANGED <<changes, posting, projects, unrecorded, vouched>>

-----------------------------------------------------------------------------
\* The sender.
OnlyPosting == UNCHANGED <<change, changes, projects, unrecorded, vouched>>
Moves(p, step) == posting' = [posting EXCEPT ![p] = [Resting EXCEPT !.step = step]]

\* Faulty variant: whether there is a project already is not asked.
LoadPostAgain(p) ==
  /\ posting[p].step = "waiting"
  /\ posting' = [posting EXCEPT ![p] =
       IF post[p].status = "approved" THEN [step |-> "create", words |-> post[p].words]
       ELSE [Resting EXCEPT !.step = "over"]]
  /\ UNCHANGED post /\ OnlyPosting

LoadPost(p) ==
  /\ posting[p].step = "waiting"
  /\ posting' = [posting EXCEPT ![p] =
       IF ~post[p].external /\ post[p].status = "approved" /\ post[p].approved
       THEN [step |-> "create", words |-> post[p].words]
       ELSE [Resting EXCEPT !.step = "over"]]
  /\ UNCHANGED post /\ OnlyPosting

\* Live mode is off.
Blocked(p) ==
  /\ posting[p].step = "create" /\ Moves(p, "over")
  /\ UNCHANGED post /\ OnlyPosting

\* No budget, account, currency or skill, or refused: the row fails, whatever it
\* is by now.
PostFails(p) ==
  /\ posting[p].step = "create" /\ Moves(p, "over")
  /\ post' = [post EXCEPT ![p].status = "failed"]
  /\ OnlyPosting

\* Not reached, a query fails, the process dies: tried again, or given up.
TriedAgain(p) ==
  /\ posting[p].step = "create"
  /\ \E step \in {"waiting", "over"} : Moves(p, step)
  /\ UNCHANGED post /\ OnlyPosting

CreateProject(p) ==
  /\ posting[p].step = "create" /\ Len(projects) < MaxProjects
  /\ projects' = Append(projects, [post |-> p, words |-> posting[p].words])
  /\ posting' = [posting EXCEPT ![p].step = "mark"]
  /\ UNCHANGED <<post, change, changes, unrecorded, vouched>>

\* The project is put down; the database refuses it on a row without approval.
MarkPosted(p) ==
  /\ posting[p].step = "mark" /\ post[p].approved
  /\ post' = [post EXCEPT ![p].status = "posted", ![p].external = TRUE]
  /\ Moves(p, "over")
  /\ OnlyPosting

\* The answer is lost, the row has no approval any more, the process dies.
NotMarked(p) ==
  /\ posting[p].step = "mark"
  /\ unrecorded' = [unrecorded EXCEPT ![p] = @ + 1]
  /\ \E step \in {"waiting", "over"} : Moves(p, step)
  /\ UNCHANGED <<post, change, changes, projects, vouched>>

SourcingPostsNext ==
  \/ \E r \in PostRequests :
       \/ \E act \in PostActs, p \in Posts : ReadPost(r, act, p)
       \/ ChangeRefused(r) \/ Draft(r) \/ Edit(r) \/ Approve(r) \/ Record(r) \/ Close(r)
  \/ \E p \in Posts :
       \/ LoadPost(p) \/ Blocked(p) \/ PostFails(p) \/ TriedAgain(p)
       \/ CreateProject(p) \/ MarkPosted(p) \/ NotMarked(p)

SourcingPostsSpec == SourcingPostsInit /\ [][SourcingPostsNext]_postVars

-----------------------------------------------------------------------------
PostRows == [status : PostStatuses, words : Words, approved : BOOLEAN, external : BOOLEAN]
ChangeStates == [act : PostActs \cup {"none"}, post : Posts, words : Words]
PostingStates == [step : {"none", "waiting", "create", "mark", "over"}, words : Words]
Project == [post : Posts, words : Words]

\* Every variable keeps its type.
SourcingPostsTypeOK ==
  /\ post \in [Posts -> PostRows]
  /\ change \in [PostRequests -> ChangeStates]
  /\ changes \in 0..MaxChanges
  /\ posting \in [Posts -> PostingStates]
  /\ projects \in Seq(Project) /\ Len(projects) <= MaxProjects
  /\ unrecorded \in [Posts -> 0..MaxProjects]
  /\ vouched \in [Posts -> SUBSET Words]

\* A project is published only with words that stood under an approval, and only
\* for a platform with an API, though posts are edited, approved and closed while
\* the sender is at work (sourcing-posts.ts: "an edit ... clears an approval").
ProjectsWereApproved ==
  \A i \in DOMAIN projects :
    /\ projects[i].post \notin ByHand
    /\ projects[i].words \in vouched[projects[i].post]

\* A post has one project, apart from those whose creation could not be put
\* down (sourcing.ts postSourcingProject: already_posted).
OneProjectPerPost ==
  \A p \in Posts :
    LET made == {i \in DOMAIN projects : projects[i].post = p}
        marking == IF posting[p].step = "mark" THEN 1 ELSE 0 IN
    /\ Cardinality(made) <= unrecorded[p] + marking + (IF post[p].external THEN 1 ELSE 0)
    /\ post[p].external => made # {}

-----------------------------------------------------------------------------
\* What carries ProjectsWereApproved from step to step: an approved row says what
\* was approved, and so does an attempt that goes on to create.
ApprovalsAreCarried ==
  \A p \in Posts :
    /\ post[p].approved => post[p].words \in vouched[p]
    /\ posting[p].step = "create" => posting[p].words \in vouched[p]
    /\ posting[p].step # "none" => p \notin ByHand

Projects(p) == {i \in DOMAIN projects : projects[i].post = p}

\* What carries OneProjectPerPost: each project of a post is on its row, in its
\* attempt's hands or lost to it, and an attempt goes on only without one.
ProjectsAreAccounted ==
  \A p \in Posts :
    /\ Cardinality(Projects(p)) =
         unrecorded[p] + (IF posting[p].step = "mark" THEN 1 ELSE 0)
                       + (IF post[p].external THEN 1 ELSE 0)
    /\ posting[p].step \in {"create", "mark"} => ~post[p].external
    /\ post[p].status = "absent" => ~post[p].external

PostsInv ==
  /\ SourcingPostsTypeOK /\ ProjectsWereApproved
  /\ ApprovalsAreCarried /\ ProjectsAreAccounted

=============================================================================
