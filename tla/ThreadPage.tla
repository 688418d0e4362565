------------------------------- MODULE ThreadPage -------------------------------
(***************************************************************************)
(* The conversations page in the browser (web/conversations.js): one       *)
(* thread at a time, from four requests.  What the handlers of its buttons *)
(* act on is set when the thread, the session and the brief have arrived;  *)
(* the screen is drawn when the sourcing request has arrived as well.      *)
(* Only the button that was pressed is disabled meanwhile (lib/ui.js), so  *)
(* threads are opened, and changes reload the page, beside each other.     *)
(***************************************************************************)
EXTENDS FiniteSets

CONSTANTS
  Talks,        \* threads
  Briefed,      \* those with a brief
  Presses,      \* buttons at work at once
  Blank

ASSUME PageAssumption == Briefed \subseteq Talks /\ Blank \notin Talks

VARIABLES
  current,      \* the thread whose row, session, brief and versions the handlers have
  older,        \* `shown`: the thread of the version on screen that is not the current one
  screen,       \* what is drawn: the thread of the title and the answers, that of the brief
  press,        \* buttons at work: step, thread
  torn          \* history: a load that failed after it had set what the handlers have

pageVars == <<current, older, screen, press, torn>>

NoPress == [step |-> "idle", talk |-> Blank]

PageInit ==
  /\ current = Blank /\ older = Blank
  /\ screen = [thread |-> Blank, brief |-> Blank]
  /\ press = [p \in Presses |-> NoPress]
  /\ torn = FALSE

Step(p, step, t) == press' = [press EXCEPT ![p] = [step |-> step, talk |-> t]]

-----------------------------------------------------------------------------
OpenThread(p, t) ==
  /\ press[p] = NoPress
  /\ Step(p, "load", t)
  /\ UNCHANGED <<current, older, screen, torn>>

\* Drawn from what the handlers have, but for a version that is not the current one.
BriefOf(t) == IF t \in Briefed THEN t ELSE Blank
Drawing(now, version) ==
  [thread |-> now, brief |-> IF version # Blank THEN version ELSE BriefOf(now)]

\* The thread, the session and the brief have arrived.
ThreadArrives(p) ==
  LET t == press[p].talk IN
  /\ press[p].step = "load"
  /\ current' = t /\ older' = Blank
  /\ IF t \in Briefed
     THEN Step(p, "sourcing", t) /\ UNCHANGED screen
     ELSE Step(p, "idle", Blank) /\ screen' = Drawing(t, Blank)
  /\ UNCHANGED torn

\* Faulty variant: what is drawn is the thread the request was for.
SourcingArrivesAsAsked(p) ==
  LET t == press[p].talk IN
  /\ press[p].step = "sourcing"
  /\ screen' = Drawing(t, older)
  /\ Step(p, "idle", Blank)
  /\ UNCHANGED <<current, older, torn>>

\* An older version that arrived meanwhile stays on screen.
SourcingArrives(p) ==
  LET t == press[p].talk IN
  /\ press[p].step = "sourcing"
  /\ screen' = Drawing(current, older)
  /\ Step(p, "idle", Blank)
  /\ UNCHANGED <<current, older, torn>>

LoadFails(p) ==
  /\ press[p].step \in {"load", "sourcing", "version", "change"}
  /\ torn' = (torn \/ press[p].step = "sourcing")
  /\ Step(p, "idle", Blank)
  /\ UNCHANGED <<current, older, screen>>

\* A reply, an answer, a brief: sent for the thread there is, then that of then is read.
Change(p) ==
  /\ press[p] = NoPress /\ current # Blank
  /\ Step(p, "change", current)
  /\ UNCHANGED <<current, older, screen, torn>>

ChangeDone(p) ==
  /\ press[p].step = "change"
  /\ Step(p, "load", current)
  /\ UNCHANGED <<current, older, screen, torn>>

\* A version of the brief on screen: the current one, or an older one.
ShowVersion(p) ==
  /\ press[p] = NoPress /\ screen.brief # Blank
  /\ Step(p, "version", screen.brief)
  /\ UNCHANGED <<current, older, screen, torn>>

VersionArrives(p) ==
  LET t == press[p].talk IN
  /\ press[p].step = "version"
  /\ \/ current = t /\ older' = Blank
     \/ older' = t
  /\ screen' = [screen EXCEPT !.brief = t]
  /\ Step(p, "idle", Blank)
  /\ UNCHANGED <<current, torn>>

PageNext == \E p \in Presses :
  \/ \E t \in Talks : OpenThread(p, t)
  \/ ThreadArrives(p) \/ SourcingArrives(p) \/ LoadFails(p)
  \/ Change(p) \/ ChangeDone(p) \/ ShowVersion(p) \/ VersionArrives(p)

PageSpec == PageInit /\ [][PageNext]_pageVars

-----------------------------------------------------------------------------
MaybeTalk == Talks \cup {Blank}
PageTypeOK ==
  /\ current \in MaybeTalk /\ older \in MaybeTalk
  /\ screen \in [thread : MaybeTalk, brief : MaybeTalk]
  /\ press \in [Presses -> [step : {"idle", "load", "sourcing", "version", "change"},
                            talk : MaybeTalk]]
  /\ torn \in BOOLEAN

Drawn == \A p \in Presses : press[p].step # "sourcing"

(***************************************************************************)
(* What is typed into a form is stored where the form was shown to belong: *)
(* the answers and the brief on screen are those the handlers would store, *)
(* however loads overlap and overtake each other.  Except between the two  *)
(* halves of a load, or after one that failed half way.  A version that is *)
(* not the current one is not stored at all (`shown`).                     *)
(***************************************************************************)
FormsAreOfCurrent == Drawn /\ ~torn =>
  /\ screen.thread = current
  /\ older = Blank => screen.brief \in {current, Blank}

PageInv == PageTypeOK /\ FormsAreOfCurrent

=============================================================================
