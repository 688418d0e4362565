------------------------------ MODULE InboxWindow ------------------------------
(***************************************************************************)
(* How far back a poll of the inbox looks (workers/inbox-sync.ts): threads *)
(* updated since a little before the last run reached, then their          *)
(* messages since then; what is kept of a run is the newest update it      *)
(* listed.  AutoReplies says what is done with a message once it is        *)
(* listed; here it is whether it is ever listed.                           *)
(*                                                                         *)
(* Polls fail, die and overlap.  A list call answers as of one moment, on  *)
(* one page.  A message may be late on the marketplace's lists by at most  *)
(* Lag, which is taken for what "a late update" means in inbox-sync.ts:43. *)
(***************************************************************************)
EXTENDS Naturals, FiniteSetsExt

CONSTANTS
  Notes,        \* messages
  Talk,         \* the thread of a message
  Runs,         \* polls that may be in progress at once
  Lookback, Lag,
  MaxClock      \* bound: time

ASSUME WindowAssumption ==
  /\ Lookback \in Nat /\ Lag \in Nat /\ Lag <= Lookback
  /\ MaxClock \in Nat \ {0}

VARIABLES
  clock,
  writtenAt,    \* messages: when they were written; 0: not yet
  visible,      \* on the marketplace's lists
  inStore,      \* in the messages table
  syncedTo,     \* platform_accounts.inbox_synced_to; 0 is null
  run           \* polls: step, the cursor they read, the newest update and messages listed

windowVars == <<clock, writtenAt, visible, inStore, syncedTo, run>>

NoRun == [step |-> "idle", from |-> 0, reached |-> 0, talks |-> {}, notes |-> {}]

WindowInit ==
  /\ clock = 1
  /\ writtenAt = [n \in Notes |-> 0]
  /\ visible = {} /\ inStore = {}
  /\ syncedTo = 0
  /\ run = [r \in Runs |-> NoRun]

\* The marketplace.
Tick ==
  /\ clock < MaxClock
  /\ \A n \in Notes : writtenAt[n] # 0 /\ n \notin visible => clock < writtenAt[n] + Lag
  /\ clock' = clock + 1
  /\ UNCHANGED <<writtenAt, visible, inStore, syncedTo, run>>

WriteNote(n) ==
  /\ writtenAt[n] = 0
  /\ writtenAt' = [writtenAt EXCEPT ![n] = clock]
  /\ UNCHANGED <<clock, visible, inStore, syncedTo, run>>

NoteAppears(n) ==
  /\ writtenAt[n] # 0 /\ n \notin visible
  /\ visible' = visible \cup {n}
  /\ UNCHANGED <<clock, writtenAt, inStore, syncedTo, run>>

UpdatedAt(t) == Max({writtenAt[n] : n \in {k \in visible : Talk[k] = t}})

-----------------------------------------------------------------------------
\* A poll.  Without a cursor everything is asked for.
Since(cursor) == IF cursor <= Lookback THEN 0 ELSE cursor - Lookback

ReadCursor(r) ==
  /\ run[r].step = "idle"
  /\ run' = [run EXCEPT ![r] = [NoRun EXCEPT !.step = "threads", !.from = syncedTo]]
  /\ UNCHANGED <<clock, writtenAt, visible, inStore, syncedTo>>

ListThreads(r) ==
  /\ run[r].step = "threads"
  /\ LET talks == {t \in {Talk[n] : n \in visible} : UpdatedAt(t) >= Since(run[r].from)} IN
     run' = [run EXCEPT ![r].step = "messages", ![r].talks = talks,
                        ![r].reached = Max({run[r].from} \cup {UpdatedAt(t) : t \in talks})]
  /\ UNCHANGED <<clock, writtenAt, visible, inStore, syncedTo>>

ListMessages(r) ==
  /\ run[r].step = "messages"
  /\ run' = [run EXCEPT ![r].step = "store",
       ![r].notes = {n \in visible : Talk[n] \in run[r].talks
                                     /\ writtenAt[n] >= Since(run[r].from)}]
  /\ UNCHANGED <<clock, writtenAt, visible, inStore, syncedTo>>

\* Faulty variant: what is kept of a run is the time it ended at.
StoreRunAtNow(r) ==
  /\ run[r].step = "store"
  /\ inStore' = inStore \cup run[r].notes
  /\ syncedTo' = clock
  /\ run' = [run EXCEPT ![r] = NoRun]
  /\ UNCHANGED <<clock, writtenAt, visible>>

\* One transaction: the messages, and how far the run reached.
StoreRun(r) ==
  /\ run[r].step = "store"
  /\ inStore' = inStore \cup run[r].notes
  /\ syncedTo' = run[r].reached
  /\ run' = [run EXCEPT ![r] = NoRun]
  /\ UNCHANGED <<clock, writtenAt, visible>>

\* Refused, no answer, or the process dies: nothing was stored.
RunFails(r) ==
  /\ run[r].step # "idle"
  /\ run' = [run EXCEPT ![r] = NoRun]
  /\ UNCHANGED <<clock, writtenAt, visible, inStore, syncedTo>>

WindowNext ==
  \/ Tick \/ \E n \in Notes : WriteNote(n) \/ NoteAppears(n)
  \/ \E r \in Runs : ReadCursor(r) \/ ListThreads(r) \/ ListMessages(r) \/ StoreRun(r) \/ RunFails(r)

WindowSpec == WindowInit /\ [][WindowNext]_windowVars

-----------------------------------------------------------------------------
WindowTypeOK ==
  /\ clock \in 1..MaxClock
  /\ writtenAt \in [Notes -> 0..MaxClock]
  /\ inStore \subseteq visible /\ visible \subseteq Notes
  /\ syncedTo \in 0..MaxClock
  /\ run \in [Runs -> [step : {"idle", "threads", "messages", "store"}, from : 0..MaxClock,
       reached : 0..MaxClock, talks : SUBSET {Talk[n] : n \in Notes}, notes : SUBSET Notes]]

(***************************************************************************)
(* "asked from this long before the last run reached, so a late update is  *)
(* not missed" (inbox-sync.ts:43): a message that is not stored is still   *)
(* within what the next poll asks for, however polls fail and overlap.     *)
(***************************************************************************)
NothingSlipsBy == \A n \in Notes :
  writtenAt[n] # 0 /\ n \notin inStore => writtenAt[n] >= Since(syncedTo)

-----------------------------------------------------------------------------
\* What carries it: nothing is later than now, and nothing late by more than Lag.
Unstored == {n \in Notes : writtenAt[n] # 0 /\ n \notin inStore}
TimesHold ==
  /\ syncedTo <= clock
  /\ \A n \in Notes :
       /\ writtenAt[n] <= clock
       /\ n \in visible => writtenAt[n] # 0
       /\ writtenAt[n] # 0 /\ n \notin visible => clock <= writtenAt[n] + Lag

\* And a poll in progress asks for all that is not stored, and will list what is
\* older than what it leaves to the next.
RunMisses(r, n) ==
  CASE run[r].step = "idle"     -> FALSE
    [] run[r].step = "threads"  -> writtenAt[n] < Since(run[r].from)
    [] run[r].step = "messages" ->
         \/ writtenAt[n] < Since(run[r].from)
         \/ /\ writtenAt[n] < Since(run[r].reached)
            /\ ~(n \in visible /\ Talk[n] \in run[r].talks)
    [] run[r].step = "store"    -> writtenAt[n] < Since(run[r].reached) /\ n \notin run[r].notes
RunsHold == \A r \in Runs :
  /\ run[r].from <= clock /\ run[r].reached <= clock /\ run[r].notes \subseteq visible
  /\ \A n \in Unstored : ~RunMisses(r, n)

WindowInv == WindowTypeOK /\ TimesHold /\ RunsHold /\ NothingSlipsBy

=============================================================================
