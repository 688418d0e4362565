------------------------------- MODULE Schedules -------------------------------
(***************************************************************************)
(* Scanners as owners keep them (routes/scanners.ts) and the schedules     *)
(* they are polled on, which a job every minute brings in line with the    *)
(* scanners and the accounts (workers/ingest.ts): it reads the schedules,  *)
(* then the scanners, and changes one schedule after the other, while      *)
(* scanners change, accounts break and polls take schedules off.           *)
(***************************************************************************)
EXTENDS Naturals

CONSTANTS
  Scanners,
  Intervals,    \* polling intervals; 0 is none
  MaxOrders,    \* bound: requests of owners
  MaxUpsets     \* bound: runs that die, tokens refused, reconnections

ASSUME SchedulesAssumption ==
  /\ Intervals \subseteq Nat \ {0} /\ Intervals # {}
  /\ MaxOrders \in Nat /\ MaxUpsets \in Nat

VARIABLES
  scanner,      \* scanners: none yet, on, off (`active`), gone; their interval
  connected,    \* the marketplace account's status
  schedule,     \* job schedulers: interval by scanner
  sync,         \* the sync: step, the schedules and the scanners it read, what is left
  poll,         \* polls: idle, started, has read a scanner to go on with, or none
  orders, upsets

scheduleVars == <<scanner, connected, schedule, sync, poll, orders, upsets>>

NoScanner == [state |-> "none", every |-> 0]
Off == [s \in Scanners |-> 0]
NoSync == [step |-> "idle", found |-> Off, wanted |-> Off, left |-> {}]

SchedulesInit ==
  /\ scanner = [s \in Scanners |-> NoScanner]
  /\ connected = TRUE
  /\ schedule = Off
  /\ sync = NoSync
  /\ poll = [s \in Scanners |-> "idle"]
  /\ orders = 0 /\ upsets = 0

-----------------------------------------------------------------------------
\* Requests.
Order(s, row) ==
  /\ orders < MaxOrders /\ orders' = orders + 1
  /\ scanner' = [scanner EXCEPT ![s] = row]
  /\ UNCHANGED <<connected, schedule, sync, poll, upsets>>

There(s) == scanner[s].every # 0
Active(s) == scanner[s].state = "on"

CreateScanner(s) ==
  /\ scanner[s] = NoScanner
  /\ \E every \in Intervals : Order(s, [state |-> "on", every |-> every])

\* PATCH writes the fields it was sent.
SwitchScanner(s) ==
  /\ There(s)
  /\ \E state \in {"on", "off"} : Order(s, [scanner[s] EXCEPT !.state = state])

RetimeScanner(s) ==
  /\ There(s)
  /\ \E every \in Intervals : Order(s, [scanner[s] EXCEPT !.every = every])

DeleteScanner(s) == There(s) /\ Order(s, [state |-> "gone", every |-> 0])

Upset == upsets < MaxUpsets /\ upsets' = upsets + 1

Reconnect ==
  /\ ~connected /\ Upset
  /\ connected' = TRUE
  /\ UNCHANGED <<scanner, schedule, sync, poll, orders>>

-----------------------------------------------------------------------------
\* The sync reads the schedules, then the scanners, then puts right what differs.
Wanted(s) == IF Active(s) /\ connected THEN scanner[s].every ELSE 0

SyncReadsSchedules ==
  /\ sync.step = "idle"
  /\ sync' = [NoSync EXCEPT !.step = "scanners", !.found = schedule]
  /\ UNCHANGED <<scanner, connected, schedule, poll, orders, upsets>>

\* Faulty variant: schedules are added and changed, none is removed.
SyncReadsWantedOnly ==
  /\ sync.step = "scanners"
  /\ LET wanted == [s \in Scanners |-> Wanted(s)] IN
     sync' = [sync EXCEPT !.step = "apply", !.wanted = wanted,
                          !.left = {s \in Scanners : wanted[s] \notin {0, sync.found[s]}}]
  /\ UNCHANGED <<scanner, connected, schedule, poll, orders, upsets>>

SyncReadsScanners ==
  /\ sync.step = "scanners"
  /\ LET wanted == [s \in Scanners |-> Wanted(s)] IN
     sync' = [sync EXCEPT !.step = "apply", !.wanted = wanted,
                          !.left = {s \in Scanners : wanted[s] # sync.found[s]}]
  /\ UNCHANGED <<scanner, connected, schedule, poll, orders, upsets>>

\* What is wanted first, then what is not.
SyncApplies(s) ==
  /\ sync.step = "apply" /\ s \in sync.left
  /\ sync.wanted[s] = 0 => \A u \in sync.left : sync.wanted[u] = 0
  /\ schedule' = [schedule EXCEPT ![s] = sync.wanted[s]]
  /\ sync' = [sync EXCEPT !.left = @ \ {s}]
  /\ UNCHANGED <<scanner, connected, poll, orders, upsets>>

SyncEnds ==
  /\ sync.step = "apply" /\ sync.left = {}
  /\ sync' = NoSync
  /\ UNCHANGED <<scanner, connected, schedule, poll, orders, upsets>>

SyncDies ==
  /\ sync.step # "idle" /\ Upset
  /\ sync' = NoSync
  /\ UNCHANGED <<scanner, connected, schedule, poll, orders>>

-----------------------------------------------------------------------------
PollAt(s, step) == poll' = [poll EXCEPT ![s] = step]

\* A schedule fires.
PollStarts(s) ==
  /\ poll[s] = "idle" /\ schedule[s] # 0
  /\ PollAt(s, "started")
  /\ UNCHANGED <<scanner, connected, schedule, sync, orders, upsets>>

\* With no active scanner its schedule is stale; without an account the poll is skipped.
PollReads(s) ==
  /\ poll[s] = "started"
  /\ PollAt(s, IF ~Active(s) THEN "stale" ELSE IF connected THEN "search" ELSE "idle")
  /\ UNCHANGED <<scanner, connected, schedule, sync, orders, upsets>>

PollUnschedules(s) ==
  /\ poll[s] = "stale"
  /\ schedule' = [schedule EXCEPT ![s] = 0]
  /\ PollAt(s, "idle")
  /\ UNCHANGED <<scanner, connected, sync, orders, upsets>>

PollReturns(s) ==
  /\ poll[s] = "search"
  /\ PollAt(s, "idle")
  /\ UNCHANGED <<scanner, connected, schedule, sync, orders, upsets>>

PollRefused(s) ==
  /\ poll[s] = "search" /\ Upset
  /\ connected' = FALSE
  /\ PollAt(s, "idle")
  /\ UNCHANGED <<scanner, schedule, sync, orders>>

-----------------------------------------------------------------------------
SyncStep ==
  SyncReadsSchedules \/ SyncReadsScanners \/ (\E s \in Scanners : SyncApplies(s)) \/ SyncEnds

PollStep(s) == PollReads(s) \/ PollUnschedules(s) \/ PollReturns(s)

SchedulesNext ==
  \/ \E s \in Scanners : CreateScanner(s) \/ SwitchScanner(s) \/ RetimeScanner(s) \/ DeleteScanner(s)
  \/ Reconnect \/ SyncStep \/ SyncDies
  \/ \E s \in Scanners : PollStarts(s) \/ PollStep(s) \/ PollRefused(s)

SchedulesSpec == SchedulesInit /\ [][SchedulesNext]_scheduleVars

-----------------------------------------------------------------------------
\* Every variable keeps its type.
SchedulesTypeOK ==
  /\ scanner \in [Scanners -> [state : {"none", "on", "off", "gone"}, every : Intervals \cup {0}]]
  /\ connected \in BOOLEAN
  /\ schedule \in [Scanners -> Intervals \cup {0}]
  /\ sync \in [step : {"idle", "scanners", "apply"}, found : [Scanners -> Intervals \cup {0}],
               wanted : [Scanners -> Intervals \cup {0}], left : SUBSET Scanners]
  /\ poll \in [Scanners -> {"idle", "started", "stale", "search"}]
  /\ orders \in 0..MaxOrders /\ upsets \in 0..MaxUpsets

\* The rest of the invariant: what was read, wanted or scheduled is of scanners that
\* were created, an interval is kept for those not deleted, and only a sync that
\* applies has something left to apply.
Created(s) == scanner[s].state # "none"
RowsAgree == \A s \in Scanners :
  /\ There(s) <=> scanner[s].state \in {"on", "off"}
  /\ schedule[s] # 0 \/ sync.found[s] # 0 \/ sync.wanted[s] # 0 \/ poll[s] # "idle" => Created(s)
SyncsAgree ==
  /\ sync.step = "idle" => sync = NoSync
  /\ sync.step = "scanners" => sync.left = {}
SchedulesInv == SchedulesTypeOK /\ RowsAgree /\ SyncsAgree

(***************************************************************************)
(* When people leave the scanners alone, the schedules come to be those of *)
(* the active scanners of a connected account, at their intervals, and     *)
(* stay so (ingest.ts:92-138), though a sync works from what it read, may  *)
(* die half way and polls take schedules off beside it.                    *)
(***************************************************************************)
SchedulesFollow == <>[](\A s \in Scanners : schedule[s] = Wanted(s))

=============================================================================
