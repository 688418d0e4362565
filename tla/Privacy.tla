-------------------------------- MODULE Privacy --------------------------------
(***************************************************************************)
(* What is kept of a client, on one thread of theirs: the handle, the      *)
(* words of the messages, the answers discovery reads out of them, and     *)
(* how they go: by retention once the thread is quiet (packages/db         *)
(* retention.ts, statement by statement), by an owner's erasure            *)
(* (packages/db privacy.ts, one transaction).  They come back by a new     *)
(* message (workers/inbox-sync.ts) and by a discovery job that was at the  *)
(* model meanwhile (workers/discovery.ts).                                 *)
(*                                                                         *)
(* Discovery's job reads the thread, the message and the session before    *)
(* the model is called and stores after it.  Retention's period is days,   *)
(* a job's life minutes: no thread becomes quiet under a job.              *)
(***************************************************************************)
EXTENDS Naturals, FiniteSets

CONSTANTS
  Letters,      \* messages the client writes
  Asked,        \* the questions of discovery
  Unread        \* no answer yet

ASSUME PrivacyAssumption == Unread \notin Letters /\ IsFiniteSet(Asked)

VARIABLES
  thread,         \* the thread: has it the handle, is it redacted, closed, quiet
  letter,       \* messages: unwritten, at the marketplace, stored with words, redacted
  read,         \* the session: started, redacted, the message each answer is from
  named,        \* a message discovery drafted calls the client by the handle
  fetched,      \* the inbox poll: the messages it listed; none when it is idle
  extract,      \* discovery's jobs: step, and what was read before the model
  sweep,        \* the retention run: the statement it is at
  excuse        \* history: ways a redaction is known to stay incomplete

privacyVars == <<thread, letter, read, named, fetched, extract, sweep, excuse>>

NoAnswers == [q \in Asked |-> Unread]
NoJob == [step |-> "none", words |-> FALSE, answers |-> NoAnswers, handle |-> FALSE]

PrivacyInit ==
  /\ thread = [handle |-> TRUE, redacted |-> FALSE, closed |-> FALSE, quiet |-> FALSE]
  /\ letter = [m \in Letters |-> "unwritten"]
  /\ read = [started |-> FALSE, redacted |-> FALSE, answers |-> NoAnswers]
  /\ named = FALSE
  /\ fetched = {}
  /\ extract = [m \in Letters |-> NoJob]
  /\ sweep = "idle"
  /\ excuse = {}

Readable == {m \in Letters : letter[m] = "words"}
Remaining(answers) == {q \in Asked : answers[q] = Unread}
AtModel == {m \in Letters : extract[m].step = "model"}

-----------------------------------------------------------------------------
\* The client writes; the poll lists every message of the thread, the stored ones too.
WriteLetter(m) ==
  /\ letter[m] = "unwritten"
  /\ letter' = [letter EXCEPT ![m] = "outside"]
  /\ UNCHANGED <<thread, read, named, fetched, extract, sweep, excuse>>

Fetch ==
  /\ fetched = {}
  /\ fetched' = {m \in Letters : letter[m] # "unwritten"} /\ fetched' # {}
  /\ UNCHANGED <<thread, letter, read, named, extract, sweep, excuse>>

FetchFails ==
  /\ fetched # {} /\ fetched' = {}
  /\ UNCHANGED <<thread, letter, read, named, extract, sweep, excuse>>

New == {m \in fetched : letter[m] = "outside"}

\* Faulty variant: a redacted thread that is listed again gets its handle back.
KeepLettersNamed ==
  /\ fetched # {} /\ fetched' = {}
  /\ letter' = [m \in Letters |-> IF m \in New THEN "words" ELSE letter[m]]
  /\ thread' = IF New = {} THEN [thread EXCEPT !.handle = TRUE]
             ELSE [handle |-> TRUE, redacted |-> FALSE, closed |-> FALSE, quiet |-> FALSE]
  /\ extract' = [m \in Letters |->
       IF m \in New THEN [NoJob EXCEPT !.step = "waiting"] ELSE extract[m]]
  /\ UNCHANGED <<read, named, sweep, excuse>>

(***************************************************************************)
(* One transaction.  Listed again, a thread that is redacted stays without *)
(* a handle and a message that is stored stays as it is.  A new message    *)
(* opens the thread again, with the handle it came with; discovery is      *)
(* asked for each of them.                                                 *)
(***************************************************************************)
KeepLetters ==
  /\ fetched # {} /\ fetched' = {}
  /\ letter' = [m \in Letters |-> IF m \in New THEN "words" ELSE letter[m]]
  /\ thread' = IF New = {} THEN [thread EXCEPT !.handle = ~thread.redacted]
             ELSE [handle |-> TRUE, redacted |-> FALSE, closed |-> FALSE, quiet |-> FALSE]
  /\ extract' = [m \in Letters |->
       IF m \in New THEN [NoJob EXCEPT !.step = "waiting"] ELSE extract[m]]
  /\ UNCHANGED <<read, named, sweep, excuse>>

-----------------------------------------------------------------------------
\* Discovery.  The operator starts it and asks for the next questions; a draft of
\* questions greets the client by the handle the thread has.
AskQuestions(answers, handle) ==
  named' = (named \/ (Remaining(answers) # {} /\ handle))

StartSession ==
  /\ ~read.started
  /\ read' = [read EXCEPT !.started = TRUE]
  /\ AskQuestions(NoAnswers, thread.handle)
  /\ UNCHANGED <<thread, letter, fetched, extract, sweep, excuse>>

AskMore ==
  /\ read.started /\ Remaining(read.answers) # {}
  /\ AskQuestions(read.answers, thread.handle)
  /\ UNCHANGED <<thread, letter, read, fetched, extract, sweep, excuse>>

LoadLetter(m) ==
  /\ extract[m].step = "waiting"
  /\ extract' = [extract EXCEPT ![m] =
       IF read.started /\ Remaining(read.answers) # {}
       THEN [step |-> "model", words |-> letter[m] = "words",
             answers |-> read.answers, handle |-> thread.handle]
       ELSE [NoJob EXCEPT !.step = "over"]]
  /\ UNCHANGED <<thread, letter, read, named, fetched, sweep, excuse>>

\* One transaction writes back every answer that was read, with those found since.
StoreReading(m) ==
  /\ extract[m].step = "model"
  /\ \E found \in SUBSET Remaining(extract[m].answers) :
       LET merged == [q \in Asked |-> IF q \in found THEN m ELSE extract[m].answers[q]] IN
       /\ found # {} => extract[m].words
       /\ read' = [read EXCEPT !.answers = merged]
       /\ AskQuestions(merged, extract[m].handle)
  /\ extract' = [extract EXCEPT ![m] = [NoJob EXCEPT !.step = "over"]]
  /\ UNCHANGED <<thread, letter, fetched, sweep, excuse>>

\* The model or the database fails: the job is tried again from the start, or given up.
ReadingFails(m) ==
  /\ extract[m].step = "model"
  /\ \E step \in {"waiting", "over"} : extract' = [extract EXCEPT ![m] = [NoJob EXCEPT !.step = step]]
  /\ UNCHANGED <<thread, letter, read, named, fetched, sweep, excuse>>

-----------------------------------------------------------------------------
\* What both redactions do to messages and sessions.
HideLetters ==
  /\ letter' = [m \in Letters |-> IF letter[m] = "words" THEN "redacted" ELSE letter[m]]
  /\ named' = FALSE

EmptySession ==
  read' = IF read.started /\ ~read.redacted
          THEN [read EXCEPT !.answers = NoAnswers, !.redacted = TRUE] ELSE read

\* "overtaken": a discovery job holds what was there; "again": the session carries the
\* mark of an earlier redaction; "cut": a retention run ended before its last statement.
Overtaken == IF AtModel # {} THEN {"overtaken"} ELSE {}
Again == IF read.redacted THEN {"again"} ELSE {}

Erase ==
  /\ thread.handle
  /\ thread' = [thread EXCEPT !.handle = FALSE, !.redacted = TRUE, !.closed = TRUE]
  /\ HideLetters /\ EmptySession
  /\ excuse' = excuse \cup Overtaken \cup Again
  /\ UNCHANGED <<fetched, extract, sweep>>

-----------------------------------------------------------------------------
\* The period passes without a stored message, and no contract rides on the thread.
FallQuiet ==
  /\ ~thread.quiet
  /\ \A m \in Letters : extract[m].step \notin {"waiting", "model"}
  /\ thread' = [thread EXCEPT !.quiet = TRUE]
  /\ UNCHANGED <<letter, read, named, fetched, extract, sweep, excuse>>

SweepCloses ==
  /\ sweep = "idle" /\ thread.quiet /\ ~thread.redacted
  /\ thread' = [thread EXCEPT !.closed = TRUE]
  /\ sweep' = "closed"
  /\ UNCHANGED <<letter, read, named, fetched, extract, excuse>>

SweepThread ==
  /\ sweep = "closed"
  /\ IF thread.quiet /\ thread.closed /\ ~thread.redacted
     THEN thread' = [thread EXCEPT !.handle = FALSE, !.redacted = TRUE] /\ sweep' = "marked"
     ELSE UNCHANGED thread /\ sweep' = "idle"
  /\ UNCHANGED <<letter, read, named, fetched, extract, excuse>>

SweepLetters ==
  /\ sweep = "marked"
  /\ HideLetters
  /\ sweep' = "hidden"
  /\ UNCHANGED <<thread, read, fetched, extract, excuse>>

SweepSession ==
  /\ sweep = "hidden"
  /\ EmptySession
  /\ sweep' = "idle"
  /\ excuse' = excuse \cup Overtaken \cup Again
  /\ UNCHANGED <<thread, letter, named, fetched, extract>>

\* Not a transaction: what is done is done, and the next run passes the thread by.
SweepDies ==
  /\ sweep # "idle"
  /\ sweep' = "idle"
  /\ excuse' = IF sweep = "closed" THEN excuse ELSE excuse \cup {"cut"}
  /\ UNCHANGED <<thread, letter, read, named, fetched, extract>>

PrivacyNext ==
  \/ \E m \in Letters : WriteLetter(m) \/ LoadLetter(m) \/ StoreReading(m) \/ ReadingFails(m)
  \/ Fetch \/ FetchFails \/ KeepLetters
  \/ StartSession \/ AskMore
  \/ Erase \/ FallQuiet
  \/ SweepCloses \/ SweepThread \/ SweepLetters \/ SweepSession \/ SweepDies

PrivacySpec == PrivacyInit /\ [][PrivacyNext]_privacyVars

-----------------------------------------------------------------------------
PrivacyTypeOK ==
  /\ thread \in [handle : BOOLEAN, redacted : BOOLEAN, closed : BOOLEAN, quiet : BOOLEAN]
  /\ letter \in [Letters -> {"unwritten", "outside", "words", "redacted"}]
  /\ read \in [started : BOOLEAN, redacted : BOOLEAN, answers : [Asked -> Letters \cup {Unread}]]
  /\ named \in BOOLEAN
  /\ fetched \subseteq Letters
  /\ extract \in [Letters -> [step : {"none", "waiting", "model", "over"}, words : BOOLEAN,
                              answers : [Asked -> Letters \cup {Unread}], handle : BOOLEAN]]
  /\ sweep \in {"idle", "closed", "marked", "hidden"}
  /\ excuse \subseteq {"overtaken", "again", "cut"}

Answered == read.answers # NoAnswers

(***************************************************************************)
(* A redacted thread keeps nothing of the client once the redaction is     *)
(* through: no handle, no words in a message or a draft, no answer         *)
(* (privacy.ts:137-141, retention.ts).  Known exceptions apart: a run that *)
(* was cut short, a discovery job that was at the model, a session that    *)
(* was redacted before.  The handle is gone without exception.             *)
(***************************************************************************)
NothingKeptOfClient == thread.redacted =>
  /\ ~thread.handle
  /\ sweep = "idle" /\ excuse = {} => Readable = {} /\ ~named /\ ~Answered

-----------------------------------------------------------------------------
\* What carries it: a job has nothing to put back, or the retention run is still at
\* work on a thread that no job touches.
HoldsNothing(m) == ~extract[m].words /\ extract[m].answers = NoAnswers /\ ~extract[m].handle
Bare == Readable = {} /\ ~named /\ ~Answered /\ \A m \in AtModel : HoldsNothing(m)
Sweeping ==
  /\ sweep \in {"marked", "hidden"} /\ thread.quiet
  /\ sweep = "hidden" => Readable = {} /\ ~named

RedactionHolds ==
  /\ thread.quiet => \A m \in Letters : extract[m].step \notin {"waiting", "model"}
  /\ ~read.started => ~Answered /\ AtModel = {}
  /\ thread.redacted => ~thread.handle
  /\ thread.redacted /\ excuse = {} => Bare \/ Sweeping

PrivacyInv == PrivacyTypeOK /\ RedactionHolds /\ NothingKeptOfClient

=============================================================================
