# Verification of the freelance arbitrage service

TLA+ models, TLC runs and TLAPS proofs about the code under `src/`: a service
that reads jobs from freelance marketplaces, prices and drafts a bid for the
good ones, sends the bids people approve, talks to the clients, and sources and
pays for the work it wins.

## 1. Inventory

All long-lived state is in Postgres; work moves between processes as BullMQ jobs
in Redis. The API, the Telegram bot and the MCP server write rows and add jobs;
the workers (`apps/workers/src`) take jobs, read rows, call marketplaces and
models, and write rows. Nothing locks a row across a call to the outside, so
every worker is a sequence of awaited steps that others run between.

| component | code | state | operations | what makes it correct |
|---|---|---|---|---|
| Bid approval | `packages/db/src/approvals.ts`, `apps/api/src/routes/proposals.ts`, `apps/telegram/src/engine.ts` | `proposals.status`, `approved_via`, body | approve, edit, reject, submit again, bulk, pause, resume | new words need a new approval; a submitted bid is never changed; what is approved is handed over |
| Submit worker | `apps/workers/src/submit.ts`, `bid-placer.ts`, `packages/freelancer/src/bidding.ts` | `proposals`, `events`, `pipeline_items`, the marketplace's bids | load, checks, reservations, findBid, createBid, record, fail | only approved words are sent; one bid per project; a recorded bid is real |
| Allowances and plans | `packages/db/src/allowance.ts`, `plan-usage.ts` | `usage_counters` | conditional upsert, release | counters never fall behind what was placed |
| Queue runtime | `apps/workers/src/queues.ts`, `runtime.ts`, `compose.ts` | BullMQ jobs, dead letters | add, take, retry, stall, fail | every job ends; a final failure is filed once |
| Client threads | `send-message.ts`, `auto-reply.ts`, `inbox-sync.ts`, `apps/api/src/routes/messages.ts` | `messages`, `threads`, `auto_reply_sends` | draft, approve, edit, send, poll | approved words only; one automatic reply per thread; one send per message |
| Retention | `packages/db/src/retention.ts`, `apps/workers/src/retention.ts` | `threads`, `messages` | close, redact | what is due is redacted, what is pending is not sent redacted |
| Ingest and scoring | `ingest.ts`, `ingest-upwork.ts`, `score.ts` | `jobs`, scanner watermarks | poll, insert, score, hand over | no job is skipped or scored twice |
| Estimate, margin, draft | `estimate.ts`, `margin.ts`, `draft-bid.ts`, `reprice.ts` | `estimates`, `margin_evaluations`, `proposals` | estimate, evaluate, draft, reprice | at most one live draft per job; refused drafts give back their plan units |
| Discovery and briefs | `discovery.ts`, `brief-build.ts` | `briefs`, answers | ask, answer, build | a locked brief stands; an answer by hand is not taken back by what the model makes of a later reply |
| Sourcing and suppliers | `sourcing.ts`, `apps/api/src/routes/sourcing*.ts` | shortlists, posts, candidates | rank, post, choose | one chosen supplier per job |
| Delivery and payments | `apps/api/src/routes/delivery.ts`, `payments.ts` | orders, milestones, payments | order, deliver, accept, pay | nothing is paid out twice or before acceptance |
| Billing and affiliates | `packages/billing`, `apps/api/src/routes/billing.ts`, `billing-sweep.ts` | subscriptions, notices | check out, notice, sweep | one plan per organisation; a notice is applied once; the plan ends in the provider's state |
| Accounts and tokens | `packages/db/src/platform-tokens.ts`, `packages/freelancer/src/tokens.ts` | encrypted tokens | connect, refresh | a refreshed token is not overwritten by an older one |
| Organisations | `apps/api/src/routes/orgs.ts`, migrations 0008, 0009, 0032, 0039 | `orgs`, `memberships`, `attribution` | found, invite, change a role, remove | an org keeps an owner; one self-service org per person |
| Telegram | `apps/telegram/src/engine.ts`, `apps/api/src/routes/telegram.ts` | link codes, chats, prompts | link, button, text | a chat decides only what its person may decide |
| Scanners and their schedules | `apps/api/src/routes/scanners.ts`, `syncIngestSchedules` | `scanners`, job schedulers | add, edit, delete, bring in line, poll | what is on is polled in the end, what is off is not |
| Templates | `apps/api/src/routes/templates.ts`, `draft-bid.ts` | `templates`, `template_variants` | add, edit, switch, pick | an even split; a rate measures one wording |
| Privacy | `packages/db/src/privacy.ts`, `retention.ts` | handles, words, answers | erase, redact | a redacted thread keeps nothing of the client |
| Conversations page | `apps/web/src/conversations.js` | the thread it shows | open, change, show a version | a form stores where it was shown to belong |
| Radar page | `apps/web/src/radar.js`, `apps/web/src/radar/` | the browser's localStorage, per tab copies | place a bid, import, check and remove a token | one bid per project; what the page heard is not lost |
| Interfaces | other API routes, `apps/mcp`, the other pages of `apps/web`, `packages/llm`, `packages/email` | none of their own | reads, single writes | out of scope |

Hard behaviours: people change a row while a worker holds a copy of it; a call
to a marketplace whose answer is lost; a process that dies between a commit and
the job it should add, or between the call and the row that records it; BullMQ
dropping an add whose job id is taken; limits reserved before a call and given
back after it. `PROJECT.json` lists each of them under `hazards`, at its line.

## 2. Plan

| order | module | contents | status |
|---|---|---|---|
| 1 | `BidPromise`, `BidSubmission`, `BidSubmissionProofs` | from a queued draft to a bid on the marketplace | checked, proved |
| 2 | `OutboundMessages`, `OutboundMessagesProofs` | replies to clients, the send worker, the inbox poll's store, retention | checked, proved |
| 2 | `AutoReplies`, `AutoReplyProofs` | the inbox poll and the automatic first reply | checked, proved |
| 3 | `Drafting`, `Pricing`, `Schedules`, `DraftingProofs` | poll, score, estimate, margin, draft: the queue chain and its plan units; the arithmetic of a price; the schedules of the scanners | checked, proved |
| 4 | `MarketplaceAccounts`, `Members`, `AccountsProofs` | connecting, disconnecting, renewing tokens; organisations, memberships, chats | checked, proved |
| 5 | `Briefs`, `SourcingPosts`, `Reprice`, `Delivery`, `SourcingProofs` | discovery, the brief builder, versions and locks; posts and their projects; suppliers' bids and the price of the job; delivery orders, stage, payments | checked, proved |
| 6 | `ThreadPage`, `Templates`, `InboxWindow`, `Privacy`, `Radar`, `Subscription`, `OfficeProofs` | the conversations page; A/B variants; how far a poll looks back; what is kept of a client; the radar page; provider notices, grace period, sweep | checked, proved |
| - | `MCJobsToBids` | rows 3 and 4, a component at a time; `DraftingProofs` ends with the composition | checked, proved |
| - | `MCFulfilment`, `FulfilmentProofs` | rows 5 and 6, a component at a time | checked, proved |
| open | | what stays with TLC is liveness (section 9); what is not modelled is in section 10 | |

Nothing in the modules that are proved about is RECURSIVE; every parameter is a
CONSTANT with a named assumption.

## 3. Bids: `BidSubmission`

One action per change of state. `status`, `words`, `via`, `platformRef` are the
columns of a proposal (`words` numbers the versions of its body, price and
milestones; `via` is `approved_via`); `okCall` is the successful
`external.call` event of the proposal; `pipeline` is `pipeline_items.proposal_id`;
`used` is the month's rows of `usage_counters` (`slots` stands for the scanner's
hourly and daily counters, which are taken and given back together); `jobState`,
`attemptsMade`, `stalled` are BullMQ's job under the proposal's id; `pc`, `at`,
`seen`, `held`, `ref`, `outcome` are a worker slot and the locals of
`submitProposal`. `posted` is the account's bids on the marketplace, and
`consent` remembers which words were approved for which proposal: only the
properties read it.

| step | code |
|---|---|
| `ApproveBid`, `RejectBid`, `EditBid` | the conditional updates of `approvals.ts`; approving first reads the plan (`planUsage`) |
| `AutoApprove` | external: `approved_via = 'auto'` is read by `submit.ts` and written by nothing in `src/` |
| `RequestSubmit`, `Pause`, `Resume` | the submit route; the bot's `/pause` and `/resume` |
| `Enqueue`, `LoseEnqueue` | `enqueueSubmit` after the commit, or the process that should call it is gone |
| `Take`, `Return`, `Throw`, `Crash` | the BullMQ worker: concurrency, attempts, stalled jobs |
| `LoadProposal` ... `MarkFailed` | `submitProposal` and `placeBid`, one action per awaited call |
| `DatabaseFails` | any awaited query of the attempt rejects, or takes effect and its answer is lost |

Abstractions: live gate, missing settings, account, client or plan are one
nondeterministic refusal (`Blocked`), so every combination of them is covered;
a delayed job is a waiting one; a finished job is no job, because
`enqueueSubmit` removes it; events that only log are left out; of the pipeline
item only the proposal it names is kept. Left out: read-only marketplaces
(refused right after the load), periods rolling over, a stalled worker that is
still running, more than one organisation, account or scanner.

### Runs

| run | question | instance |
|---|---|---|
| `bids_safety` | do words, counters, pipeline and references (`IInv`) survive every interleaving, and is `BidPromise` implemented? | 2 workers, 2 proposals for 2 projects, one edit, one auto-send proposal, every limit 1, crashes and lost hand-overs |
| `bids_one_worker` | two proposals for one project, lost answers, retries: one bid, and jobs that end | 1 worker, 2 attempts, the pause in use |
| `bids_lost_answer` | does the month stay within the allowance? It does not | 1 worker, lost answers |
| `bids_edited_in_flight` | is a submitted proposal recorded with the words that were sent? It is not | 1 worker, one edit |
| `bids_resumed` | does `/resume` re-queue what was approved? Not always | 1 worker, pause |

`IInv` is the inductive invariant of section 9: the types, who owns which job,
what the limits and an attempt's reservations have to do with each other
(`CountersKept`), and `PipelineNamesSubmittedBid` among its parts.

Two proposals, two workers and two words are where the races are: every
property relates one proposal to one attempt, or two attempts, or two bids; a
limit of one makes the second reservation meet it. `Attempts` is 1 or 2 where
the code has 5: the second attempt is the one that reads what an earlier one
left, and the last is the one that fails the bid. The theorems below do not
depend on any of these bounds. `SYMMETRY` permutes the workers only, in a run
without liveness. Deadlock is not checked: when everything is decided the
system stops.

`bids_safety` checks a world in which the marketplace's answer always arrives,
and `bids_one_worker` one with a single worker, because outside them the
promise does not hold: a lost answer gives back a counted bid, and two workers
may both find no bid on a project. Both limits are named in the model
(`LostAnswers`, `OneAtATime`) and the theorems say exactly which property needs
which.

Fairness (`JobsEnd`): a worker slot goes on running its attempt (weak fairness
of `Step`), and BullMQ's waiting list is first in, first out, so a waiting job
is not passed over for ever (strong fairness of `Take`). Nothing is assumed of
people, crashes or lost answers.

### What the code does not keep

1. `PlacedWithinAllowance`: `submit.ts` gives the bid back whenever `placeBid`
   throws, and `allowance.ts:17-18` gives back only a submission that failed
   "before the platform accepted it". A lost answer is such a throw.
2. `RecordedWordsWereSent`: `submit.ts:432-436` relies on the proposal being
   "locked once sent". It is locked once it is *recorded*; edited and approved
   again in between, it is recorded with words the marketplace never got.
3. `ResumeRequeues`: the hand-over of `/resume` is dropped when the proposal's
   job is still active, having read the pause before it was lifted.

Also seen, and not a property of its own: the message at `submit.ts:251` tells
the reader to lift the pause on the settings page, but only the bot writes
`bidding_paused`.

## 4. Replies to clients: `OutboundMessages`

A reply is a row of `messages`: `body` holds the number of its words (or the
text retention leaves), and its state is read from columns as
`outboundMessageState` does: `sentAs` (`sent_at` and the external id),
`rejected`, `failed` (`failure_reason`), `approved`. `stored` is the rows of
origin `platform`; `idle`, `closed` and `redacted` are the columns of a thread,
with "no activity for the whole period and no contract riding on it" as one
fact. Every reply has its own BullMQ job and so at most one attempt; the
attempt's `pc` is kept per reply. The steps are the routes of `messages.ts`
(`Draft`, `Approve`, `Reject`, `Edit`, one transaction each), the awaited steps
of `sendMessage` (`Load` to `Return`), the transaction of the poll (`Store`) and
the separate updates of `purgeOrg` (`CloseIdle`, `RedactThreads`,
`RedactMessages`). Unlike for bids, a finished job is not removed when its id is
added again; `ForgetJob` is the queue dropping it after a thousand others.
`Markable` is the two database constraints that can refuse the mark.

| run | question | instance |
|---|---|---|
| `replies` | do words, row and marketplace agree (`OutboundInv`), does a redacted thread open again, does every send job end? | one reply with one edit, one client message, 2 attempts, retention, poll and every fault |
| `replies_approved_again` | is a reply edited and approved again handed over? Not if its earlier job is over | no fault needed |
| `replies_seen_by_poll` | is a reply sent once? Not when the poll stores it before it is marked | no fault needed |

`OutboundInv` has the types, `SentRowNamesItsMessage` and `RedactedIsClosed` among
its parts.

One reply is enough: replies meet only through their thread's columns and the
unique index, where a client message and the reply's own posted copies (two
attempts, two approvals) already meet. `MaxStalled` is 0, because an attempt
that dies and is tried again is the same as one whose query fails at the same
point, and those are in every run.

What the code does not keep:

4. `ApprovedAgainIsQueued`: `send-message.ts:245` asks to "Edit the message and
   approve it again", and `enqueueSendMessage` then adds under an id its finished
   job still holds. `submit.ts:454-457` describes the hazard and avoids it for bids.
5. `OneSendPerMessage`: the poll may store the posted reply before it is marked;
   `messages_thread_external_message_idx` refuses the mark and the retry posts again.

Also seen: a reply edited and approved again in flight is recorded as sent with
words the client never got, as for bids; an approved reply on an idle thread can
be redacted while it waits, and the redaction text is sent
(`PostedWordsWereApproved` names this case); a run of retention that dies between
threads and messages, and a reply sent on a redacted thread, leave words that
later runs skip. The automatic reply is not among the writers of a thread here: it
sets a thread to `awaiting_client` and leaves `redacted_at` as it is
(`auto-reply.ts:289-293`), so of a thread that was redacted while an automatic
reply was on its way `RedactedIsClosed` does not speak. A lost answer or a crash
after the post sends a reply twice: nothing in the code or its documents is meant
to prevent that.

## 5. The inbox and the automatic first reply: `AutoReplies`

`List`, `Store` and `HandOver` are the steps of `pollInbox`, and `PollFails` is
any of them failing or the process dying. `Load` to `DeleteReply` are the awaited
steps of `autoReply`; `record` is `auto_reply_sends` with its unique key, and
`DeleteRecord`, `DeleteReply` are the two deletes of `undo`. `online` is "something
left the organisation within the window", which the automatic reply itself also
makes true. What people write is one action. Left out: the window of the listing
(`InboxWindow`) and its pages, account schedules and expiry, edits of the
automatic reply's row on the approvals page.

| run | question | instance |
|---|---|---|
| `auto_replies` | is a thread answered at most once and on record (`AutoReplyInv`), is no message lost, does every job end? | two messages of one thread, 2 attempts, 1 stall, polls and attempts failing anywhere |
| `auto_replies_lost_answer` | and when an answer gets lost? Then twice | the same with lost answers |

`AutoReplyInv` is `RowInv` and `OnceInv`, the inductive invariants of section 9:
the types, `SentRowNamesItsMessage` and `ReplyIsOnRecord` are parts of it.

Two messages of one client are the two jobs that race for the one reply; threads
do not meet except through `online`, which only makes attempts skip. Fairness:
every job has its own attempt, so weak fairness of taking it and going on is
enough, and the poll that starts every two minutes is not failed for ever
before its transaction (strong fairness of `Store`).

What the code does not keep:

6. `OneAutoReplyPerThread` with lost answers: `0006_templates.sql:49-50` says
   "One auto-reply per thread, ever", but `undo` removes the record whenever the
   post throws, also after the marketplace accepted it.

Also seen: messages stored by a poll that dies before handing over bring neither
an alert nor an automatic reply; a crash after the record leaves a thread that
never gets its reply.

## 6. From a listing to a bid, and what it runs on: `jobs_to_bids`

`MCJobsToBids` extends five modules that share no state: in the code, too, no
step of one reads or writes what another keeps, in the part of it that is
modelled. The variable `part` picks one of them in the initial state and only
its steps are taken, so the run explores the sum of five state spaces and not
their product. Nothing is lost by it: a property of one module cannot depend on
steps that change none of its variables. `JobsInv` is the inductive invariant of
whichever part is at work.

### `Drafting`

A row of `jobs` is `absent`, `stored` or `purged`; `stale` is a `fetched_at` a
day old; `verdicts`, `estimates`, `evaluations` and `proposals` are the tables
the four workers write, each entry with what the properties read of it (an
evaluation the budget it was made at, a proposal its evaluation and amount).
`used` is the month's units, `owed` is a job a process has committed to and not
yet added, `lost` one that was never added. An attempt goes `load`, `ask`
(model), and after its transaction `hand`.

| step | code |
|---|---|
| `FindNew`, `FindAgain`, `DayPasses`, `PurgeUpwork` | the upsert of a poll, and the purge, with every sync of the schedules, of Upwork's rows a day old |
| `RequestScore`, `RequestDraft`, `RejectDraft`, `OthersUse` | people, and the other users of the plan |
| `HandOwed`, `LoseOwed` | the add after a commit, or the process that dies before it |
| `Take`, `QueryFails`, `Crash`, `Return`, `End`, `Throw` | BullMQ and the processor's outcomes |
| `LoadScore` ... `StoreDraft`, `Unreached`, `Useless`, `Refused`, `HandOn`, `Finish` | the workers, split at their awaited calls and transactions |

Left out: scores and their features, scanner windows and watermarks (`Schedules` has
the schedules, `Templates` the templates), the text of a draft. `reprice` is its own module below.

### `Pricing`

The functions of `estimating.ts`, `price-bands.ts` and `margin.ts` as operators,
and `requiredPrice` as a loop of steps (`Bound`, `Halve`, `Found`), so that the
bracket can be watched. A list of figures is a function with a finite domain and
`Sorted` names its n-th smallest: which of two equal figures comes first does not
show in a price. A percentage is in hundredths and a rate in halves
instead of 10^5 and 10^8: rounding happens as often and on smaller numbers.
"The lowest whole price that clears both rules" (`margin.ts:343`) is checked as
what rounding leaves true: the price found clears, the next one down does not.

### `MarketplaceAccounts`

`account` is the row, `access` and `refresh` the two secrets (an identity each),
`lapsing` the last day before expiry, in which a token is renewed
(`REFRESH_MARGIN_MS`). `StartConnecting` to `StoreAccount`
are the connect routes, `NeedToken` to `Denied` what a worker does with a token.
`overtaken` remembers that another identity was stored while a renewal of the
old one's token was in flight, or over an expired account whose refresh token
stayed.

### `Members`

`role` is `memberships`, `founder` who made an organisation, `credited` the
organisation of a referral click. A change of memberships is a transaction:
`CreateOrg`, `Invite` and `SetRole` are its checks and locks, `Commit` is when
others see it, and two of them overlap. `create_org` locks the row of the
person, which a membership that refers to it waits for; the last-owner trigger
counts and locks nothing, and `crossed` is where two owners were on their way
out at once. `code`, `chatOf`, `shown`, `prompt` are the link codes, the
person's chat, the cards with buttons in a chat and `telegram_pending`.
`HearButton` and `HearText` read who is speaking (`linkedUser`), and
`PressApprove`, `PressEdit` and `AnswerPrompt` act on it, later; `since` is a
commit or a link in between, the width of one update, which
`ChatDecisionsAllowed` excuses. A button and the text that answers it are two
updates, and between them anything may happen.

### `Schedules`

`scanner` is a row of `scanners` (on, off or gone, and its interval), `schedule`
what BullMQ has, `sync` a run of `syncIngestSchedules` with the schedules and the
scanners it read one after the other, `poll` a poll that finds its scanner off or
gone (and takes the schedule off), its account gone, or its token refused.
`SyncDies` leaves a run half applied. The live gate, auto-send and its guards are
left out: they are rules of the database on one row.

### The run

| part | instance |
|---|---|
| drafting | a Freelancer and an Upwork listing, one of them new; 2 budgets, one of which passes; 2 units, 2 attempts, 1 request, 1 fault |
| schedules | 2 scanners, 2 intervals, 3 requests, 1 upset (a sync that dies, a refused token) |
| pricing | 384 deals, 5 sets of rate cards, 4 samples of a band |
| accounts | 2 identities, 2 callbacks, 2 workers, 2 connections |
| members | 2 people, 2 organisations, 1 chat, 2 codes, 1 click, 2 transactions at once, 3 in all, 1 update at a time |

339,286 states. Rows meet only in the plan's counter, for which `OthersUse`
stands too, so one new listing shows every race of its own; what differs between
marketplaces is why there are two. Three transactions
add a second owner and let the two leave. Pricing has rate cards of one, two and
three prices and bands of two, three and five, for both parities of the median
and both kinds of quartile.

Fairness (`DraftingFairness`, for `ChainSettles`): a process that owes an add
makes it or dies, a waiting job is taken, and an attempt goes on; weak fairness
of these per job. Polls, people and faults are not obliged to do anything, and
are bounded. `SchedulesFairness`, for `SchedulesFollow`: the sync, which is itself
on a schedule that the queue runs, goes on (weak fairness of its steps), and so
does a poll that was started. Requests, polls starting, refusals and deaths are not
obliged, and the bounded ones end: the property is about what comes after the last
of them. The other three parts have no liveness property.

## 7. From a won job to its payment, and what an office looks at: `fulfilment`

`MCFulfilment` composes ten more modules in the same way. `FulfilmentInv` is the
inductive invariant of the one at work.
The view `StateAtWork` tells TLC that only the variables of the part at work tell two
states apart: the others begin in one state, which the part fixes, and stay in it.

### `Briefs`

`answers` keeps of each question whether it is open, the client's, or what an
operator wrote; the code keeps them as one value, which is read and written as a
whole. `reply` is the discovery job of a client's message with the answers it
read, `versions` the briefs of a thread. `ReadSession`, `StoreAnswers`,
`HandToBuilder` are the worker around its model call; `BuilderReads`,
`BuilderStores` the builder; `ReadAnswers` and `CaptureAnswers` the PATCH of
answers, which reads the session and later writes what it read with what it was
given, without a lock; `ReadVersion` and then `UpdateBrief`, `LockBrief`,
`CopyVersion` or `DraftByHand` a request that reads a version first and writes it
later, and `Answer` its end.

`OperatorAnswersStand` is what that leaves an operator: the answer changes only
when another operator's is stored, or when a job or a request stores what it had
read before the answer was there. Both of these happen. Two PATCHes that overlap
and answer different questions leave the answer of the one that wrote first out,
with no discovery job at work, and a job at the model does the same to answers
that came in meanwhile. What cannot happen is that a job or a request that had
seen the answer puts the client's, or none, in its place.

That is less than what the repository says, "a question already answered is never
overwritten by the model" and "never a lost answer" (`DECISIONS.md:1390-1391`,
`1401-1402`): the job writes the answers it read before the call back with the new
ones (`discovery.ts:163`).

### `SourcingPosts`

A request reads a post and then writes it (`ReadPost`, then `Draft`, `Edit`,
`Approve`, `Record`, `Close`); the worker loads, creates a project and marks the
post (`LoadPost`, `CreateProject`, `MarkPosted`), and any of it fails.
`vouched` are the words an approval had read, or found when it was stored after
an edit in between; `unrecorded` counts projects an attempt created and could
not put down, which a retry repeats.

### `Reprice`

`asked` is what bidders ask at the marketplace, `quote` what the collector has
stored, `latest` the estimate and whether a margin was judged on it, `jobs`
BullMQ's jobs, named by candidate and price. `missed` are candidates whose price
was lost in one of three ways: the process died between the row and the job, the
add was dropped because an earlier job of the same price holds the id, or an
attempt stopped between estimate and judgement. Apart from these
`SettledAtQuote` says the job is judged at the quote each bidder stands at.

### `Delivery`

A request reads an order (`Start`) and later writes the columns it changes:
`ChooseSupplier`, `Shortlist`, `EditOrder`, `TickHandover`, `MarkMilestone`,
`MoveOrder` (the order's status), `MoveItem` (the job's stage), and a client
payment in two steps, `SumPayments` and `RecordPayment`. `Refuse` is the answer
to a request the rows no longer allow. `crossed` remembers that two
requests on orders, or two payments, were in progress at once, and `movedOn`
that the stage was moved after the client had paid.

### `Radar`

The page keeps everything in `localStorage` (`kept`); a tab works on the copy it
read when it was opened (`tab`) and writes whole keys back. `PressPlace`,
`Confirm`, `FindNothing` or `FindEarlier`, `CreateBid`, `NoAnswer` and `Denied`
are Place now; `Import`, `UpdateBid`, `LogByHand` write the log; `AskWhose` to
`RemoveToken` are the token's form. `sent`, `transit`, `accepted` are the site:
its bids, requests that were given up and may still arrive, tokens it accepts.
`overwrote` remembers keys a tab wrote without having seen what was there, and
`raced` projects looked up while another request for them was on its way: the
page cannot see either, and its promises stop there. `StorageIsCurrent` is two
statements, `HeardBidIsLogged` and `TokenIsOwners`.

### `Privacy`

One thread of a client: `thread` is its row (handle, redacted, closed, and
whether the retention period has passed since its last message), `letter` the
messages, `read` the session of discovery with the message each answer was taken
from, `named` whether a draft of questions calls the client by the handle.
`Fetch` and `KeepLetters` are the poll, `StartSession` and `AskMore` the routes,
`LoadLetter` and `StoreReading` the discovery job before and after its model
call, `Erase` the transaction of `eraseClient`, `SweepCloses` to `SweepSession`
the four statements of `purgeOrg`, each committed by itself, and `SweepDies` a
run that ends between two of them. `excuse` remembers the three ways in which a
redaction is known to stay incomplete (section 8), and `NothingKeptOfClient`
holds apart from them. Answers typed by hand, briefs (which the code keeps on
purpose) and replies waiting to be sent (`OutboundMessages`) are left out.

### `InboxWindow`

Which messages a poll asks for: `syncedTo` is `inbox_synced_to`, `run` a poll
with the cursor it read, the threads it listed and the newest update among them.
Two polls overlap, fail, and store in any order. The marketplace may list a
message late by `Lag`, which the assumption bounds by the lookback: that is what
the comment at `inbox-sync.ts:43` relies on. Pages, and lists that change
between two pages, are left out; `AutoReplies` has what happens to a message
that was listed.

### `Templates`

`wording` and `on` are the variants of a template, `bid` what the drafter made
of each job (`PickVariant` before the model call, `FinishDraft` after it; `by`
is the words a sent bid had fixed by then), `edit` a request that read a variant
and the number of its sends and stores later. `RatesCompare` is `EvenSplit` and
`MeasuredWordsStand`, which excuses a variant of which a bid went while such a
request had it in hand (`meanwhile`). Which of two templates takes a job
(category before general) and labels are left out.

### `ThreadPage`

What the conversations page holds of a thread (`current`, `older`) and what it
shows (`screen`), with two buttons at work. `ThreadArrives` is the moment the
three first answers are in and the variables are set, `SourcingArrives` the
fourth answer and the drawing; a thread without a brief has no fourth. `torn` is
a load that failed in between. The messages and the sourcing request are left
out (section 8 says how they go astray).

### `Subscription`

One organisation, whose owner may start more than one checkout: the route refuses
only while the row is in standing, and the provider's page takes the payment of a
checkout whatever became of the others (`StartCheckout`, `PayCheckout`). Every
checkout paid begins a subscription at its provider: `standing` is how the
provider sees each, `notices` what was sent, each about one of them. `checkout`,
`subscription`, `converted`, `receipts` are the four tables; the organisation has
one row for all its subscriptions, and `of` is the checkout whose payment set its
provider and customer. `Matches` is `findSubscription`: Stripe's notices find the
row by the subscription, those of Paystack by the customer, which is the owner
whichever subscription they are about. A handler reads what the notice means
(`ReadMeaning`, at Paystack by asking Paystack), takes its receipt and reads the
row (`TakeReceipt`), and writes (`Apply`); `HandlerFails` is any query or call
that fails. `Send`, `PayCheckout`, `Renew` and `ChangeStanding` are the provider.

`disorder` remembers that a payment, a Stripe notice or one about another
subscription came out of order, or that two were handled at once: the code does
nothing against these, and `MirrorsProvider` does not speak of them. `doubled`
remembers that two subscriptions were live at once. Then one row cannot show
both: at Paystack the end of either cancels it while the other goes on, at Stripe
the end of the one paid last does, with every notice in order and handled alone.
`MirrorsProvider` promises of such an organisation that an active plan has an
active subscription behind it; without `~doubled` in its second half TLC finds
the cancelled row at both providers. `applied` counts applications for
`NoticeAppliedOnce`.

The repository's own rule is stronger than what is left: "One plan per org ... A
second subscription would bill twice" (`DECISIONS.md:2147-2149`). A checkout that is
open when another is paid stays open and may be paid too (`routes/billing.ts:168`),
so no property says that there is one.

### The run

| part | instance |
|---|---|
| briefs | 2 questions, 1 reply at the model, threshold 2, 2 requests of operators at once, 2 versions |
| posts | one post for the API, one by hand, 2 words, 2 requests at once, 6 in all, 2 projects |
| reprice | 2 bids, 2 prices, 3 changes |
| delivery | 2 orders with a milestone and a checklist item, value 2, 3 instalments, 2 requests at once, 6 in all |
| radar | 2 tabs, 1 project, 2 tokens, 2 tries, 2 bids on the site, 2 entries |
| privacy | 2 messages, 1 question |
| window | 3 messages on 2 threads, 2 polls, lookback 1, lag 1, 3 moments |
| templates | 2 variants, one or both there from the beginning, 3 bids, 2 drafters, 1 request, 2 wordings |
| page | 3 threads, 2 of them with a brief, 2 buttons |
| subscription | 2 checkouts at either provider, 3 notices, 2 requests at once |

1,083,417 states with the two requests, tabs, polls and buttons interchangeable
(`SYMMETRY`; they are only names, and the run has no liveness property). Two
requests are where the lost updates are; six requests draft, approve, edit,
approve again and close a post, or choose, assign, tick, start, mark and deliver
an order (acceptance, which is left to the proof, moves neither its stage nor its
request); two tokens are one saved and one that replaces it. A second message is the new
activity after a redaction; three bids and two drafters are the least that can be
further apart than promised; a lag of one and three moments are the least in which
a cursor can pass a message; two buttons are two loads that overtake each other. Two
questions and two requests are two PATCHes of which one takes the other's answer
back, or an edit and a lock; one text of an operator is enough, because what one
operator puts in the place of another's is allowed. Two checkouts are two
subscriptions, and three notices two payments and the end of one, or an activation,
a trouble and a recovery or an end, with any of them delivered again.

## 8. Seen while modelling, and left as it is

What no document promises, or promises only in part, and no property therefore
says. Each of them the models allow.

* Plan units are given back to the month that is current by then
  (`plan-usage.ts:186`), and the alert of a threshold repeats when the counter
  has moved down (`core/plans.ts:297`).
* The draft job of an evaluation whose draft was rejected is dropped by its id
  (`draft-bid.ts:226`).
* Below the price found another one may clear, since every line rounds
  (`margin.ts:343`); conversion ignores the number of minor digits
  (`margin.ts:235`).
* With two subscriptions live the end of one cancels the row while the other goes on
  (`routes/billing.ts:468`, `522`; section 6). The row a Paystack notice finds is the one
  updated last of its customer's: for an owner of two organisations that pay, who
  is one customer, that may be the other organisation's (`db/billing.ts:166`); the
  model has one organisation.
* Two notices handled at once write from the row both read (`db/billing.ts:161`);
  a payment after the end revives a subscription, one before the activation is
  receipted as skipped (`routes/billing.ts:525`); a sweep, then a failed payment,
  start a new grace (`db/billing.ts:228`).
* Two renewals with one refresh token: the loser marks the account expired over
  the winner's tokens (`tokens.ts:87`); so does a denied poll over a new
  connection (`ingest.ts:428`). An attempt is not bound to its code
  (`platform-accounts.ts:168`).
* Two owners that leave at once leave an organisation without one
  (`0009_auth.sql:82`); a prompt stays with a chat that moves to somebody else,
  and is answered with that person's role (`engine.ts:304`).
* Of two operators who answer different questions at once, the one that writes last
  takes the other's answer back (`routes/discovery.ts:162`; section 7).
* A discovery job tried again drafts its questions twice (`discovery.ts:144`); the
  builder is not called after answers by hand (`discovery.ts:203`), and follows a
  draft by hand with a second version (`brief-build.ts:76`).
* A post approved again is dropped like a reply (`sourcing.ts:482`); the mark of a
  post overwrites a close (`sourcing.ts:300`).
* A shortlist stored late takes a request back (`routes/sourcing.ts:433`); two
  starts make two requests (`routes/sourcing.ts:282`); checklist, milestones and
  edits of an order lose updates (`delivery.ts:646`, `699`, `533`); a job paid in
  advance moves back when its order starts (`delivery.ts:608`).
* An automatic reply leaves `redacted_at` on the thread it sets to `awaiting_client`
  (`auto-reply.ts:289`).
* An erasure while a discovery job is at the model is undone in part: the job stores
  the answers it had read, and may draft with the handle (`discovery.ts:163`). A
  session that was redacted once keeps its mark when its thread opens again, and
  the next redaction passes its answers by (`retention.ts:137`). A retention run
  that dies between its statements leaves the words of the threads it marked, and
  a message stored between them is redacted at once (`retention.ts:128`). The
  first three are what `NothingKeptOfClient` excuses.
* The words of a variant may change between the draft and the first send
  (`routes/templates.ts:329`), and its rate then counts a bid with other words.
* Of two loads of the conversations page that overlap, the one that ends last
  draws its messages under the title of the other, and may leave its sourcing
  request beside the other's brief (`conversations.js:696`).
* Another marketplace account connected in the place of one that was disconnected
  inherits how far its inbox was read (`platform-accounts.ts:243`).
* On the radar page, "already" logs the new price and text with the earlier bid's
  id, and a 401 marks the token the tab holds by then (`radar.js:761`).

## 9. Proofs

Every theorem is about the specification of a component (or, for the last two
invariants, of a composition) and holds for every value of the constants that
satisfies the module's assumption: any number of rows, attempts, workers,
requests and people. The invariants that carry the proofs are invariants of the
runs too, but for `CreatesFirst`, which no run needs. The assumptions say what the code's types say (a limit is a natural
number, a placeholder such as `NoToken` is not a token), and that the sets that
are counted are finite. What is assumed beyond them is in the statement of the
theorem: `~LostAnswers` and `OneAtATime`, each of which a run shows to be needed.

### `BidSubmissionProofs`

`IInv` strengthens the properties with what carries them from step to step:
`JobsOwned` (an active job belongs to exactly one attempt, so nobody else moves
the row towards `submitted`), `ConsentIsCarried` (an approved row and an attempt
on its way carry approved words: this is what `editBid` clearing the approval
buys), `ReferencesAreReal` (a reference in a local or an event names a bid on
the project), `SubmittedIsLeftAlone` (an attempt past its load never holds a
submitted proposal: this is why the unconditional update of `MarkFailed` does no
harm to a sent bid), `GiveBackIsGoingSomewhere`, and `CountersKept` (no counter
is over its limit, and an attempt on its way to `createBid` holds its units).
One lemma proves each conjunct, `NextIInv` puts them together, and the frame
lemmas say once what people, switches, steps and ends of attempts leave alone.

| theorem | states |
|---|---|
| `Invariance`, `TypeCorrect` | `IInv`, and its part `TypeOK` |
| `ApprovalRequired` | `SentWordsWereApproved` |
| `ReferencesHold`, `PipelineHolds` | `RecordedBidIsReal`, `PipelineNamesSubmittedBid`, parts of `IInv` |
| `Finality` | `SubmittedIsFinal`, which TLC checks as a part of `Promise` |
| `NeverTwoBids` | `OneBidPerProject`, under `OneAtATime`: one proposal per project, or one worker |
| `CountersCover` | `CountersCoverBids`, under `~LostAnswers` |
| `WithinAllowance` | `PlacedWithinAllowance`, under `~LostAnswers`: `bids_lost_answer` is what happens without |
| `KeepsThePromise` | `Promise`, under both: `BidSubmission` implements `BidPromise` |

`NeverTwoBids` adds `CreatesFirst`: an attempt between `findBid` and `createBid`
is alone on its project. `CountersCover` counts: a counter is compared with the
bids placed plus the cardinality of the set of workers that hold a unit, which a
step changes by the unit it takes, gives back or spends (`HoldersCount`); from a
counter within its limit `WithinAllowance` follows. For the refinement,
`StepPromise` takes the steps by kind: what people do and what the marketplace
accepts and the record it gets are each one step of `BidPromise` under the
mapping, every other step is a stutter (`PromiseStutter`). It rests on `IInv`,
on `CreatesFirst` and on `CountersCoverBids`, since the promise has the
allowance in it.

### `AutoReplyProofs`

`OneReply`, `OnRecord` and `AttemptsKeepOrder` assume `~LostAnswers`, because
finding 6 shows that they fail without it. Failing queries, crashes and
overlapping polls are allowed in all of them.

`RowInv` strengthens the types with `HoldsTheRecord` (the attempt between
recording and the end of sending or undoing is the one its thread's record
names, so two attempts on one thread are never both past `Record`) and
`AnswerIsOwn`. `OnceInv` adds what holds while no answer gets lost:
`NothingPostedYet` (an attempt that is about to post, or to take its record
back, finds its thread without a reply). From it a post is the first of its
thread (`Posts`), and `DeleteRecord` never takes a posted reply off the record
(`ReplyIsOnRecord`); `HoldsTheRecord` is what keeps `NothingPostedYet` true when
another attempt posts.

| theorem | states |
|---|---|
| `TypeCorrect` | `TypeOK` |
| `SentRowsHold` | `SentRowNamesItsMessage`, lost answers included |
| `OnRecord` | `ReplyIsOnRecord` |
| `OneReply` | `OneAutoReplyPerThread` |
| `AttemptsKeepOrder` | `AutoReplyInv` |

### `OutboundMessagesProofs`

`OutboundInv` adds `ConsentIsCarried` (an approved row, and an attempt before
its post, carry approved words), `AttemptsAreOpen` (an attempt past its load
works on a drafted, unsent row and its answer names its own message) and
`SentIsApproved`. One lemma per kind of step shows that it is kept.

| theorem | states |
|---|---|
| `OutboundInvariance`, `OutboundTypeCorrect` | `OutboundInv`, `TypeOK` |
| `ApprovedWords` | `PostedWordsWereApproved` |
| `OwnMessage` | `SentRowNamesItsMessage` |
| `RedactionHolds` | `RedactedIsClosed` |
| `SentStays` | `SentIsFinal`, which no run checks |

### `DraftingProofs`

*Drafting.* `ListingsHold`, `AsksHold`, `ResultsHold` and `DraftsHold` say what
a job, an attempt and a stored result have to do with each other: an attempt asks
the model only for what the one before it left and nobody has stored yet, a job
that ended with a result has left its row, a draft names an evaluation that is
there. `ChainUnbroken` is itself part
of the induction: each step hands on what it had, or leaves it on record. The
proof of `UsageCoversWork` is apart from the rest: the results stored and the
requests at the model are two finite sets, and a step that adds to one of them
takes a unit first or moves its element over from the other.

*Pricing.* `PriceClearsBothRules` is the invariant of a search by halving: the
upper end of the bracket clears, the price just below its lower end does not, and
halving keeps a middle that clears above one that does not. `FirstHighIsAPrice`
says that the end it starts from is a price. `EstimateKeeps` needs that the
n-th figure of an order exists (`Placed`) and that these ascend
(`SortedAscends`): both are proved by counting the figures below and up to one,
and that a set of figures has a lowest from the order of the naturals being
well-founded, so that no sort has to be followed. `PricingTypeOK` is no mere type: it says that low,
expected and high are in that order.

*Schedules.* `RowsAgree` and `SyncsAgree`: what a sync read, or a queue
schedules, is a scanner somebody created.

| theorem | states |
|---|---|
| `DraftingHolds` | `DraftingInv` |
| `NobodyPaysForASecondOpinion` | `OneJudgementPerJob` |
| `EveryAnswerIsCounted` | `UsageCoversWork` |
| `DraftsKeepTheirPrice` | `BidPricedAsJudged` |
| `ChainStopsOnRecord` | `ChainUnbroken` |
| `EstimatesAreInOrder`, `PriceClearsBothRules` | `PricingTypeOK`, `SearchBrackets` |
| `OnlyCreatedArePolled` | `SchedulesInv` |
| `JobsInvariance` | `JobsInv`, of the composition of section 6 |

### `AccountsProofs`

*Marketplace accounts.* `TokensInHandAreOwn` says that until an identity is
overtaken, the stored refresh token and the one a worker is renewing with are
the account's own; with it a renewal stores the account's token.

*Members.* `RowsHold` and `FoundingsHold` are what the locks and unique keys buy
while transactions overlap: of two that write one membership, or that concern one
person's first organisation, one waits. `LeaversHold` says that outside `crossed` a
transaction that takes an owner away leaves another, and that it is the only one;
`OwnerRemains` follows from the trigger's count. `HearsRight` says that what was
read of a speaker is still so when the update is carried out.

| theorem | states |
|---|---|
| `ActsAsItself` | `TokenActsAsAccount` |
| `OrganisationKeepsOwner` | `OwnerRemains` |
| `ChatDecidersMayApprove` | `ChatDecisionsAllowed` |
| `NobodyFoundsFromWithin` | `FoundedOutside`, a property of steps |

### `SourcingProofs`

*Briefs.* `RequestsNameVersions` and `LockedIsComplete` carry
`LockedBriefStands`: a request in progress names a version that is there, and
`updateBrief` and `lockBrief` are conditional on `locked_at`. `AnswersStand` needs
the types only: a job that reads an operator's answer does not count the question
as open, so what it accepts is elsewhere, and what it does not accept it writes
as it read it.

*Posts.* `ApprovalsAreCarried` (an approved row, and an attempt about to create,
carry vouched words) gives `ProjectsWereApproved`; `ProjectsAreAccounted` (each
project of a post is on its row, in its attempt's hands or lost to it, by
counting) gives `OneProjectPerPost`.

*Reprice.* `StepsHold` says what collector and pricing have in hand, and
`QuotesFollow` that a bid whose price is not judged yet has it on its way
(collected, queued or at work) unless it is among `missed`. When nothing is on
its way, `SettledAtQuote` is what remains.

*Delivery.* `OneLiveOrder` is the unique index on live orders; `OrdersOneAtATime`
says that while requests on orders come one at a time, what they read is still
so; `PaymentsOneAtATime` says the same of payments, and that their sum is right.

| theorem | states |
|---|---|
| `LockedStands`, `AnswersStand` | `LockedBriefStands`, `OperatorAnswersStand`, properties of steps |
| `ApprovedOnly`, `OneProject` | `ProjectsWereApproved`, `OneProjectPerPost` |
| `MarginIsAtQuote` | `SettledAtQuote` |
| `OneSupplier`, `MarkedPaid` | `ChosenWhileLive`, `PaidJobIsMarkedPaid` |

### `OfficeProofs`

*The conversations page.* `FormsAreOfCurrent` is inductive with the types alone.

*Templates.* `SplitHolds` is the one that needs counting: the drafter takes the
variant with the fewest bids, so that outside of what is being drafted at the
moment (at most `Desks`) no variant that stays on is ahead of another.
`MeasureHolds` says that an edit of a variant of which a bid has gone was in hand
when it went.

*The inbox window.* `TimesHold` and `RunsHold`: no poll at work can move the
cursor past a message it has not in hand (`RunMisses` says, for each of its
stages, how it could). `Greatest` gives the newest update of a finite set of
threads.

*Privacy.* `RedactionHolds` follows the sweep through its four statements: with
no excuse on record, a redacted thread is bare, or the sweep that redacted it is
still at work; a job at the model means a session that was started.

*The radar.* `OneRequest` (outside `raced`, a project the page has bid on has no
request left to arrive) carries `PageBidsOnce`, and `ChecksOwnToken` the part of
`StorageIsCurrent` about the token.

*Subscription.* `ReceiptsAreExclusive` (one transaction at a time between a
receipt and its commit, because the second insert waits) gives
`NoticeAppliedOnce`. For `MirrorsProvider`, `NoticesTellTheStanding` says that the
last notice about a subscription is how its provider sees it, and that while no
two were live only the one of the last notice may be; `NoticesFollowPayments`
that the last payment before a notice is then of the same subscription;
`SignalsAreCurrent` that a signal is what its notice means, unless a later one
about the same subscription is still to be applied; `RowsAreCurrent` that while
there is no disorder the row is of the checkout whose payment was applied last.
From these, `RowFollows` (the latest notice applied, if it found the row, left it
as the provider sees that subscription, unless news of it is to come) and
`ActiveIsPaid` (an active row has a subscription that is active or has news to
come) are inductive; with every notice applied no news is to come, and they are the
two halves of the property.

| theorem | states |
|---|---|
| `FormsStoreWhereShown` | `FormsAreOfCurrent` |
| `RatesStayComparable` | `RatesCompare` |
| `NoMessageSlips` | `NothingSlipsBy` |
| `RedactedMeansGone` | `NothingKeptOfClient` |
| `PageNeverBidsTwice`, `BrowserIsCurrent` | `PageBidsOnce`, `StorageIsCurrent` |
| `SubscriptionInvariance`, `AppliedOnce`, `Mirrors` | `SubscriptionInv`, `NoticeAppliedOnce`, `MirrorsProvider` |

### `FulfilmentProofs`

`FulfilmentInvariance` states `FulfilmentInv`, of the composition of section 7,
from the step lemmas of the ten components: a step of the part at work keeps its
invariant, and which part is at work never changes. `JobsInvariance` is the same
for section 6. (The second lives with the proofs of `Drafting`.)

### Only model-checked

Liveness, which the prover cannot reach (it has no rule for fairness and
ENABLED): `JobsEnd`, `SendEnds`, `InboxSettles`, `ChainSettles`,
`SchedulesFollow`. Those of a queue are stated as "again and again" over all
messages or listings, which for the finitely many of an instance says that every
one is settled. Every other property of the passing runs is stated by a theorem.
The six runs that end in a violation show one behaviour each, and have nothing to
prove.

## 10. Not modelled

`components` in `PROJECT.json` says of each part what is left out. In short:

* the remaining routes of the API (reads, and single statements), the MCP server (a proxy of the API), the e-mail and
  model clients (I/O and parsing), the pages of the web app other than the radar
  and the conversations (they show what the API answers and keep nothing);
* row-level security beyond memberships: it holds per query, whatever runs
  beside it;
* dead letters and the schedules of other jobs than polls; periods rolling over; zombie workers that keep
  running after their job was handed on; an organisation's trial
  (`orgs.status`); supplier payments, retainers and rates; the supplier
  directory; the terms of service; a browser that refuses to store (private
  windows);
* wording, layout and formatting; scores and portfolio; exports of personal data;
  answers typed by hand in `Privacy`, the choice between templates, pages of the
  inbox's lists.
