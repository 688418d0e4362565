---------------------------- MODULE OfficeProofs -----------------------------
(***************************************************************************)
(* What is kept around the bids, for any number of messages, threads,      *)
(* wordings, tabs, projects and notices: the page of conversations, the    *)
(* wordings bids are drafted with, the window of the inbox poll, the       *)
(* retention of what clients wrote, the radar of the web app, and the      *)
(* subscription all of it is paid with.                                    *)
(***************************************************************************)
EXTENDS ThreadPage, Templates, InboxWindow, Privacy, Radar, Subscription,
        FiniteSetTheorems, SequenceTheorems, WellFoundedInduction, TLAPS

-----------------------------------------------------------------------------
\* The conversations page (ThreadPage).
\* The page as it first loads satisfies the invariant.
LEMMA InitPage == PageInit => PageInv
  <1> SUFFICES ASSUME PageInit PROVE PageInv
    OBVIOUS
  <1>1. PageTypeOK
    BY DEF PageInit, PageTypeOK, MaybeTalk, NoPress
  <1>2. screen.thread = current /\ screen.brief = Blank
    BY DEF PageInit
  <1> QED BY <1>1, <1>2 DEF PageInv, FormsAreOfCurrent

\* One button of the page does something.
PageStep(p) ==
  \/ \E t \in Talks : OpenThread(p, t)
  \/ ThreadArrives(p) \/ SourcingArrives(p) \/ LoadFails(p)
  \/ Change(p) \/ ChangeDone(p) \/ ShowVersion(p) \/ VersionArrives(p)

\* Every step of a press keeps the types.
LEMMA PageStepTypes ==
  ASSUME PageTypeOK, NEW p \in Presses, PageStep(p)
  PROVE  PageTypeOK'
  <1> USE DEF PageTypeOK, MaybeTalk
  <1>1. \A step \in {"idle", "load", "sourcing", "version", "change"}, t \in MaybeTalk :
          Step(p, step, t) => press' \in [Presses ->
            [step : {"idle", "load", "sourcing", "version", "change"}, talk : MaybeTalk]]
    BY DEF Step
  <1>2. press[p].talk \in MaybeTalk /\ screen.thread \in MaybeTalk /\ screen.brief \in MaybeTalk
    OBVIOUS
  <1>3. \A now, version \in MaybeTalk : Drawing(now, version) \in [thread : MaybeTalk, brief : MaybeTalk]
    BY DEF Drawing, BriefOf
  <1>4. CASE \E t \in Talks : OpenThread(p, t)
    BY <1>1, <1>4 DEF OpenThread
  <1>5. CASE ThreadArrives(p)
    BY <1>1, <1>2, <1>3, <1>5 DEF ThreadArrives
  <1>6. CASE SourcingArrives(p)
    BY <1>1, <1>2, <1>3, <1>6 DEF SourcingArrives
  <1>7. CASE LoadFails(p)
    BY <1>1, <1>7 DEF LoadFails
  <1>8. CASE Change(p) \/ ChangeDone(p) \/ ShowVersion(p)
    BY <1>1, <1>2, <1>8 DEF Change, ChangeDone, ShowVersion
  <1>9. CASE VersionArrives(p)
    BY <1>1, <1>2, <1>9 DEF VersionArrives
  <1> QED BY <1>4, <1>5, <1>6, <1>7, <1>8, <1>9 DEF PageStep

\* Every step of a press leaves the forms those of the thread shown.
LEMMA PageStepForms ==
  ASSUME PageTypeOK, FormsAreOfCurrent, NEW p \in Presses, PageStep(p)
  PROVE  FormsAreOfCurrent'
  <1> SUFFICES ASSUME Drawn', ~torn'
               PROVE  /\ screen'.thread = current'
                      /\ older' = Blank => screen'.brief \in {current', Blank}
    BY DEF FormsAreOfCurrent
  <1> USE DEF PageTypeOK, MaybeTalk
  \* A button that is not in the middle of a load was not before either, or drew.
  <1>1. \A q \in Presses \ {p} : press'[q] = press[q]
    BY DEF PageStep, OpenThread, ThreadArrives, SourcingArrives, LoadFails, Change, ChangeDone,
           ShowVersion, VersionArrives, Step
  <1>2. \A q \in Presses \ {p} : press[q].step # "sourcing"
    BY <1>1 DEF Drawn
  <1>3. ~torn
    BY DEF PageStep, OpenThread, ThreadArrives, SourcingArrives, LoadFails, Change, ChangeDone,
           ShowVersion, VersionArrives
  <1>4. CASE ThreadArrives(p)
    <2>1. press[p].talk \notin Briefed
      BY <1>4 DEF ThreadArrives, Step, Drawn
    <2> QED BY <1>4, <2>1 DEF ThreadArrives, Drawing, BriefOf
  <1>5. CASE SourcingArrives(p)
    BY <1>5 DEF SourcingArrives, Drawing, BriefOf
  <1>6. CASE ~ThreadArrives(p) /\ ~SourcingArrives(p)
    <2>1. press[p].step # "sourcing"
      <3>1. CASE LoadFails(p)
        BY <3>1 DEF LoadFails
      <3>2. CASE ~LoadFails(p)
        BY <1>6, <3>2 DEF PageStep, OpenThread, Change, ChangeDone, ShowVersion, VersionArrives,
                          NoPress
      <3> QED BY <3>1, <3>2
    <2>2. Drawn
      BY <1>2, <2>1 DEF Drawn
    <2>3. screen.thread = current /\ (older = Blank => screen.brief \in {current, Blank})
      BY <1>3, <2>2 DEF FormsAreOfCurrent
    <2>4. CASE VersionArrives(p)
      BY <2>3, <2>4 DEF VersionArrives
    <2>5. CASE ~VersionArrives(p)
      <3>1. UNCHANGED <<current, older, screen>>
        BY <1>6, <2>5 DEF PageStep, OpenThread, LoadFails, Change, ChangeDone, ShowVersion
      <3> QED BY <2>3, <3>1
    <2> QED BY <2>4, <2>5
  <1> QED BY <1>4, <1>5, <1>6

\* Every step of the page keeps the invariant.
LEMMA NextPage == PageInv /\ [PageNext]_pageVars => PageInv'
  <1> SUFFICES ASSUME PageInv, [PageNext]_pageVars PROVE PageInv'
    OBVIOUS
  <1>1. CASE PageNext
    <2>1. PICK p \in Presses : PageStep(p)
      BY <1>1 DEF PageNext, PageStep
    <2> QED BY <2>1, PageStepTypes, PageStepForms DEF PageInv
  <1>2. CASE UNCHANGED pageVars
    BY <1>2 DEF pageVars, PageInv, PageTypeOK, FormsAreOfCurrent, Drawn
  <1> QED BY <1>1, <1>2

\* Whatever threads are opened, changed and shown beside each other, a form stores
\* where the page shows it to belong.
THEOREM FormsStoreWhereShown == PageSpec => []FormsAreOfCurrent
  <1>1. PageInv => FormsAreOfCurrent
    BY DEF PageInv
  <1> QED BY InitPage, NextPage, <1>1, PTL DEF PageSpec

-----------------------------------------------------------------------------
\* The wordings of a bid (Templates).
Written(v) == {b \in Jobs : bid[b].variant = v /\ bid[b].step \in {"queued", "sent"}}
BidStates ==
  [step : {"none", "model", "queued", "sent"}, variant : Variants \cup {NoVariant},
   by : 0..MaxWordings]
EditStates == [variant : Variants \cup {NoVariant}, words : 0..MaxWordings]

\* Sets of jobs are finite, and a larger one has no fewer elements.
LEMMA JobSets ==
  /\ \A S \in SUBSET Jobs : IsFiniteSet(S) /\ Cardinality(S) \in Nat
  /\ \A S, T \in SUBSET Jobs : S \subseteq T => Cardinality(S) <= Cardinality(T)
  <1>1. \A S \in SUBSET Jobs : IsFiniteSet(S) /\ Cardinality(S) \in Nat
    BY FS_Subset, FS_CardinalityType, TemplatesAssumption
  <1> QED BY <1>1, FS_Subset

\* Two sets of jobs together count at most what they count apart.
LEMMA JobUnion ==
  ASSUME NEW S \in SUBSET Jobs, NEW T \in SUBSET Jobs
  PROVE  Cardinality(S \cup T) <= Cardinality(S) + Cardinality(T)
  <1>1. Cardinality(S \cup T) = Cardinality(S) + Cardinality(T) - Cardinality(S \cap T)
    BY JobSets, FS_Union
  <1>2. Cardinality(S) \in Nat /\ Cardinality(T) \in Nat /\ Cardinality(S \cap T) \in Nat
    <2>1. S \cap T \in SUBSET Jobs
      OBVIOUS
    <2> QED BY <2>1, JobSets
  <1> QED BY <1>1, <1>2

\* Before any wording is written the invariant holds.
LEMMA InitTemplates == TemplatesInit => TemplatesInv
  <1> SUFFICES ASSUME TemplatesInit PROVE TemplatesInv
    OBVIOUS
  <1>1. TemplatesTypeOK
    BY TemplatesAssumption DEF TemplatesInit, TemplatesTypeOK, NoBid, NoEdit
  <1>2. \A b \in Jobs : bid[b] = NoBid
    BY DEF TemplatesInit
  <1>3. \A v \in Variants : TakenFrom(v) = {} /\ Written(v) = {}
    BY <1>2, TemplatesAssumption DEF TakenFrom, Written, NoBid
  <1>4. BeingDrafted = {}
    BY <1>2 DEF BeingDrafted, NoBid
  <1>5. SplitHolds /\ EvenSplit
    <2>1. steady \subseteq Variants
      BY DEF TemplatesInit
    <2>2. \A v \in Variants : Cardinality(TakenFrom(v)) = 0 /\ WrittenFrom(v) = 0
      BY <1>3, FS_EmptySet DEF WrittenFrom, Written
    <2>3. Cardinality(BeingDrafted) = 0
      BY <1>4, FS_EmptySet
    <2> QED BY <2>1, <2>2, <2>3, TemplatesAssumption DEF SplitHolds, EvenSplit
  <1>6. MeasureHolds /\ MeasuredWordsStand
    BY <1>2 DEF TemplatesInit, MeasureHolds, MeasuredWordsStand, NoBid, NoEdit
  <1> QED BY <1>1, <1>5, <1>6 DEF TemplatesInv, RatesCompare

TemplatesStep ==
  \/ \E b \in Jobs : PickVariant(b) \/ FinishDraft(b) \/ BidGoes(b)
  \/ \E v \in Variants : AddVariant(v) \/ Switch(v)
  \/ \E e \in Editors : (\E v \in Variants : LoadVariant(e, v)) \/ StoreVariant(e)

\* A job picks one of the wordings switched on that is least written.
LEMMA PickTypes ==
  ASSUME TemplatesTypeOK, NEW b \in Jobs, PickVariant(b)
  PROVE  /\ bid' \in [Jobs -> BidStates]
         /\ \E v \in LeastWritten : v \in Variants /\ v \in on
              /\ bid' = [bid EXCEPT ![b] = bid'[b]]
              /\ bid'[b].step = "model" /\ bid'[b].variant = v
              /\ bid'[b].by = (IF SentFrom(v) = {} THEN 0 ELSE wording[v])
  <1>1. PICK v \in LeastWritten :
          bid' = [bid EXCEPT ![b] = [step |-> "model", variant |-> v,
                                     by |-> IF SentFrom(v) = {} THEN 0 ELSE wording[v]]]
    BY DEF PickVariant
  <1>2. v \in on /\ v \in Variants
    BY DEF LeastWritten, TemplatesTypeOK
  <1> DEFINE new == [step |-> "model", variant |-> v,
                     by |-> IF SentFrom(v) = {} THEN 0 ELSE wording[v]]
  <1>3. new \in BidStates
    BY <1>2, TemplatesAssumption DEF TemplatesTypeOK, BidStates
  <1>4. bid \in [Jobs -> BidStates]
    BY DEF TemplatesTypeOK, BidStates
  <1>5. new.step = "model" /\ new.variant = v /\ new.by = (IF SentFrom(v) = {} THEN 0 ELSE wording[v])
    OBVIOUS
  <1> HIDE DEF new
  <1>6. bid' = [bid EXCEPT ![b] = new] /\ bid'[b] = new
    BY <1>1, <1>4 DEF new
  <1> QED BY <1>2, <1>3, <1>4, <1>5, <1>6

\* Every step of drafting and of editing keeps the types.
LEMMA TemplatesStepTypes ==
  ASSUME TemplatesTypeOK, MeasureHolds, TemplatesStep
  PROVE  TemplatesTypeOK'
  <1> USE DEF TemplatesTypeOK
  <1>1. CASE \E b \in Jobs : PickVariant(b)
    BY <1>1, PickTypes DEF PickVariant, BidStates
  <1>2. CASE \E b \in Jobs : FinishDraft(b)
    BY <1>2, TemplatesAssumption DEF FinishDraft, NoBid
  <1>3. CASE \E b \in Jobs : BidGoes(b)
    <2>1. PICK b \in Jobs : BidGoes(b)
      BY <1>3
    <2>2. bid[b].variant \in Variants
      BY <2>1, TemplatesAssumption DEF BidGoes, MeasureHolds
    <2> QED BY <2>1, <2>2 DEF BidGoes
  <1>4. CASE \E v \in Variants : AddVariant(v) \/ Switch(v)
    BY <1>4, TemplatesAssumption DEF AddVariant, Switch
  <1>5. CASE \E e \in Editors, v \in Variants : LoadVariant(e, v)
    BY <1>5, TemplatesAssumption DEF LoadVariant, Wordings
  <1>6. CASE \E e \in Editors : StoreVariant(e)
    <2>1. PICK e \in Editors : StoreVariant(e)
      BY <1>6
    <2>2. edit[e].variant \in Variants /\ edit[e].words \in 0..MaxWordings /\ edit[e].words # 0
      BY <2>1 DEF StoreVariant, MeasureHolds
    <2>3. wording' = [wording EXCEPT ![edit[e].variant] = edit[e].words]
          /\ UNCHANGED <<on, steady, bid, meanwhile>>
      BY <2>1 DEF StoreVariant
    <2>4. NoEdit \in EditStates
      BY TemplatesAssumption DEF NoEdit, EditStates
    <2>5. edit' \in [Editors -> EditStates]
      BY <2>1, <2>4 DEF StoreVariant, EditStates
    <2> QED BY <2>2, <2>3, <2>5 DEF EditStates
  <1> QED BY <1>1, <1>2, <1>3, <1>4, <1>5, <1>6 DEF TemplatesStep

\* A step other than a pick takes no job to the model.
LEMMA OthersDraftNothing ==
  ASSUME TemplatesTypeOK, MeasureHolds, TemplatesStep, \A b \in Jobs : ~PickVariant(b)
  PROVE  /\ BeingDrafted' \subseteq BeingDrafted /\ steady' \subseteq steady
         /\ \A v \in Variants : TakenFrom(v)' \subseteq TakenFrom(v) /\ Written(v) \subseteq Written(v)'
  <1> USE DEF TemplatesTypeOK
  <1>1. CASE \E b \in Jobs : FinishDraft(b)
    <2>1. PICK b \in Jobs :
            /\ bid[b].step = "model" /\ UNCHANGED steady
            /\ bid' = [bid EXCEPT ![b].step = "queued"] \/ bid' = [bid EXCEPT ![b] = NoBid]
      BY <1>1 DEF FinishDraft
    <2>2. NoBid.step = "none" /\ NoBid.variant \notin Variants
      BY TemplatesAssumption DEF NoBid
    <2>3. \A x \in Jobs : x # b => bid'[x] = bid[x]
      BY <2>1
    <2>4. \/ bid'[b].step = "queued" /\ bid'[b].variant = bid[b].variant
          \/ bid'[b] = NoBid
      BY <2>1
    <2> QED BY <2>1, <2>2, <2>3, <2>4 DEF BeingDrafted, TakenFrom, Written
  <1>2. CASE \E b \in Jobs : BidGoes(b)
    BY <1>2 DEF BidGoes, BeingDrafted, TakenFrom, Written
  <1>3. CASE UNCHANGED bid
    <2>1. steady' \subseteq steady
      BY <1>3 DEF TemplatesStep, PickVariant, FinishDraft, BidGoes, AddVariant, Switch, LoadVariant,
                  StoreVariant
    <2> QED BY <1>3, <2>1 DEF BeingDrafted, TakenFrom, Written
  <1> QED BY <1>1, <1>2, <1>3 DEF TemplatesStep, AddVariant, Switch, LoadVariant, StoreVariant

\* What is picked has the fewest bids, and all the others taken from it are at the
\* model: together no more than the drafters.
LEMMA PickIsEven ==
  ASSUME TemplatesTypeOK, SplitHolds, MeasureHolds, NEW b \in Jobs, PickVariant(b)
  PROVE  SplitHolds'
  <1>1. PICK v \in LeastWritten : /\ v \in Variants /\ v \in on
              /\ bid' = [bid EXCEPT ![b] = bid'[b]]
              /\ bid'[b].step = "model" /\ bid'[b].variant = v
    BY PickTypes
  <1>2. bid \in [Jobs -> BidStates] /\ bid[b].step = "none" /\ UNCHANGED <<on, steady>>
    BY DEF PickVariant, TemplatesTypeOK, BidStates
  <1>3. \A c \in Jobs \ {b} : bid'[c] = bid[c]
    BY <1>1, <1>2
  <1>4. BeingDrafted' = BeingDrafted \cup {b}
    BY <1>1, <1>2, <1>3 DEF BeingDrafted
  <1>5. \A u \in Variants : Written(u)' = Written(u)
    BY <1>1, <1>2, <1>3 DEF Written
  <1>6. Cardinality(BeingDrafted') <= Desks
    <2>1. Cardinality(BeingDrafted) < Desks
      BY DEF PickVariant, BeingDrafted
    <2>2. IsFiniteSet(BeingDrafted) /\ Cardinality(BeingDrafted) \in Nat
      BY JobSets DEF BeingDrafted
    <2>3. Cardinality(BeingDrafted') = Cardinality(BeingDrafted) + 1
      <3>1. b \notin BeingDrafted
        BY <1>2 DEF BeingDrafted
      <3>2. Cardinality(BeingDrafted \cup {b}) = Cardinality(BeingDrafted) + 1
        BY <2>2, <3>1, FS_AddElement
      <3> QED BY <1>4, <3>2
    <2>4. Cardinality(BeingDrafted') \in Nat
      BY JobSets DEF BeingDrafted
    <2> QED BY <2>1, <2>2, <2>3, <2>4, TemplatesAssumption
  <1>7. ASSUME NEW u \in steady, NEW w \in steady
        PROVE  Cardinality(TakenFrom(w)') <= WrittenFrom(u)' + Desks
    <2>1. u \in Variants /\ w \in Variants /\ u \in on
      BY <1>7 DEF TemplatesTypeOK
    <2>2. WrittenFrom(u)' = WrittenFrom(u)
      BY <1>5, <2>1 DEF WrittenFrom, Written
    <2>3. CASE w # v
      <3>1. TakenFrom(w)' \subseteq TakenFrom(w)
        BY <1>1, <1>3, <2>3 DEF TakenFrom
      <3>2. TakenFrom(w)' \in SUBSET Jobs /\ TakenFrom(w) \in SUBSET Jobs
            /\ Written(u) \in SUBSET Jobs
        BY DEF TakenFrom, Written
      <3>3. Cardinality(TakenFrom(w)') <= Cardinality(TakenFrom(w))
            /\ Cardinality(TakenFrom(w)') \in Nat /\ Cardinality(TakenFrom(w)) \in Nat
        BY <3>1, <3>2, JobSets
      <3>4. WrittenFrom(u) \in Nat
        BY <3>2, JobSets DEF WrittenFrom, Written
      <3>5. Cardinality(TakenFrom(w)) <= WrittenFrom(u) + Desks
        BY <1>7 DEF SplitHolds
      <3> QED BY <2>2, <3>3, <3>4, <3>5, TemplatesAssumption
    <2>4. CASE w = v
      <3>1. TakenFrom(v)' \subseteq Written(v)' \cup BeingDrafted'
        <4>1. \A c \in Jobs \ {b} : bid[c].variant = v => bid[c].step # "none"
          BY <1>1, TemplatesAssumption DEF MeasureHolds
        <4>2. \A c \in Jobs : bid'[c] \in BidStates
          <5>1. bid' \in [Jobs -> BidStates]
            BY PickTypes
          <5> QED BY <5>1
        <4>3. \A c \in Jobs : bid'[c].variant = v => bid'[c].step \in {"model", "queued", "sent"}
          BY <1>1, <1>3, <4>1, <4>2 DEF BidStates
        <4> QED BY <4>3 DEF TakenFrom, Written, BeingDrafted
      <3>2. Cardinality(TakenFrom(v)') <= Cardinality(Written(v)' \cup BeingDrafted')
        <4>1. TakenFrom(v)' \in SUBSET Jobs /\ (Written(v)' \cup BeingDrafted') \in SUBSET Jobs
          BY DEF TakenFrom, Written, BeingDrafted
        <4> QED BY <3>1, <4>1, JobSets
      <3>3. Cardinality(Written(v)' \cup BeingDrafted')
              <= Cardinality(Written(v)') + Cardinality(BeingDrafted')
        <4>1. Written(v)' \in SUBSET Jobs /\ BeingDrafted' \in SUBSET Jobs
          BY DEF Written, BeingDrafted
        <4> QED BY <4>1, JobUnion
      <3>4. Cardinality(Written(v)') = WrittenFrom(v)
        BY <1>1, <1>5 DEF Written, WrittenFrom
      <3>5. WrittenFrom(v) <= WrittenFrom(u)
        BY <2>1 DEF LeastWritten
      <3>6. /\ Cardinality(TakenFrom(v)') \in Nat /\ Cardinality(BeingDrafted') \in Nat
            /\ WrittenFrom(v) \in Nat /\ WrittenFrom(u) \in Nat
            /\ Cardinality(Written(v)' \cup BeingDrafted') \in Nat
        <4>1. /\ TakenFrom(v)' \in SUBSET Jobs /\ BeingDrafted' \in SUBSET Jobs
              /\ Written(v) \in SUBSET Jobs /\ Written(u) \in SUBSET Jobs
              /\ (Written(v)' \cup BeingDrafted') \in SUBSET Jobs
          BY DEF TakenFrom, BeingDrafted, Written
        <4> QED BY <4>1, JobSets DEF WrittenFrom, Written
      <3> QED BY <1>6, <2>2, <2>4, <3>2, <3>3, <3>4, <3>5, <3>6, TemplatesAssumption
    <2> QED BY <2>3, <2>4
  <1> QED BY <1>2, <1>6, <1>7 DEF SplitHolds

\* Every step keeps the counts of two wordings within what is in hand.
LEMMA SplitStep ==
  ASSUME TemplatesTypeOK, SplitHolds, MeasureHolds, TemplatesStep
  PROVE  SplitHolds'
  <1>1. CASE \E b \in Jobs : PickVariant(b)
    BY <1>1, PickIsEven
  <1>2. CASE \A b \in Jobs : ~PickVariant(b)
    <2>1. /\ BeingDrafted' \subseteq BeingDrafted /\ steady' \subseteq steady
          /\ \A v \in Variants : TakenFrom(v)' \subseteq TakenFrom(v)
                                /\ Written(v) \subseteq Written(v)'
      BY <1>2, OthersDraftNothing
    <2>2. /\ BeingDrafted' \in SUBSET Jobs /\ BeingDrafted \in SUBSET Jobs
          /\ \A v \in Variants : /\ TakenFrom(v)' \in SUBSET Jobs /\ TakenFrom(v) \in SUBSET Jobs
                                /\ Written(v)' \in SUBSET Jobs /\ Written(v) \in SUBSET Jobs
      BY DEF BeingDrafted, TakenFrom, Written
    <2>3. Cardinality(BeingDrafted') <= Desks
      <3>1. Cardinality(BeingDrafted') <= Cardinality(BeingDrafted)
            /\ Cardinality(BeingDrafted) \in Nat /\ Cardinality(BeingDrafted') \in Nat
        BY <2>1, <2>2, JobSets
      <3> QED BY <3>1, TemplatesAssumption DEF SplitHolds
    <2>4. ASSUME NEW u \in steady', NEW v \in steady'
          PROVE  Cardinality(TakenFrom(v)') <= WrittenFrom(u)' + Desks
      <3>1. u \in steady /\ v \in steady /\ u \in Variants /\ v \in Variants
        BY <2>1, <2>4 DEF TemplatesTypeOK
      <3>2. /\ Cardinality(TakenFrom(v)') <= Cardinality(TakenFrom(v))
            /\ Cardinality(TakenFrom(v)') \in Nat /\ Cardinality(TakenFrom(v)) \in Nat
        BY <2>1, <2>2, <3>1, JobSets
      <3>3. /\ Cardinality(Written(u)) <= Cardinality(Written(u)')
            /\ Cardinality(Written(u)) \in Nat /\ Cardinality(Written(u)') \in Nat
        BY <2>1, <2>2, <3>1, JobSets
      <3>4. WrittenFrom(u) = Cardinality(Written(u)) /\ WrittenFrom(u)' = Cardinality(Written(u)')
        BY DEF WrittenFrom, Written
      <3>5. Cardinality(TakenFrom(v)) <= WrittenFrom(u) + Desks
        BY <3>1 DEF SplitHolds
      <3> QED BY <3>2, <3>3, <3>4, <3>5, TemplatesAssumption
    <2> QED BY <2>3, <2>4 DEF SplitHolds
  <1> QED BY <1>1, <1>2

\* What is written from a variant is taken from it.
LEMMA TakenIsEven ==
  ASSUME TemplatesTypeOK, SplitHolds
  PROVE  EvenSplit
  <1> SUFFICES ASSUME NEW u \in steady, NEW v \in steady
               PROVE  WrittenFrom(v) <= WrittenFrom(u) + Desks
    BY DEF EvenSplit
  <1>1. Written(v) \in SUBSET Jobs /\ TakenFrom(v) \in SUBSET Jobs /\ Written(u) \in SUBSET Jobs
        /\ Written(v) \subseteq TakenFrom(v)
    BY DEF Written, TakenFrom
  <1>2. /\ Cardinality(Written(v)) <= Cardinality(TakenFrom(v))
        /\ Cardinality(Written(v)) \in Nat /\ Cardinality(TakenFrom(v)) \in Nat
        /\ Cardinality(Written(u)) \in Nat
    BY <1>1, JobSets
  <1>3. WrittenFrom(v) = Cardinality(Written(v)) /\ WrittenFrom(u) = Cardinality(Written(u))
    BY DEF WrittenFrom, Written
  <1>4. Cardinality(TakenFrom(v)) <= WrittenFrom(u) + Desks
    BY DEF SplitHolds
  <1> QED BY <1>2, <1>3, <1>4, TemplatesAssumption

-----------------------------------------------------------------------------
\* A bid that has gone stays with its variant.
LEMMA SentStays ==
  ASSUME TemplatesTypeOK, MeasureHolds, TemplatesStep
  PROVE  /\ \A v \in Variants : SentFrom(v) \subseteq SentFrom(v)'
         /\ meanwhile \subseteq meanwhile'
  <1> USE DEF TemplatesTypeOK, SentFrom
  <1>1. CASE \E b \in Jobs : PickVariant(b)
    <2>1. PICK b \in Jobs : PickVariant(b)
      BY <1>1
    <2>2. bid[b].step = "none" /\ UNCHANGED meanwhile /\ \A c \in Jobs \ {b} : bid'[c] = bid[c]
      BY <2>1 DEF PickVariant
    <2> QED BY <2>2
  <1>2. CASE \E b \in Jobs : FinishDraft(b)
    <2>1. PICK b \in Jobs : FinishDraft(b)
      BY <1>2
    <2>2. bid[b].step = "model" /\ UNCHANGED meanwhile /\ \A c \in Jobs \ {b} : bid'[c] = bid[c]
      BY <2>1 DEF FinishDraft
    <2> QED BY <2>2
  <1>3. CASE \E b \in Jobs : BidGoes(b)
    BY <1>3 DEF BidGoes
  <1>4. CASE UNCHANGED <<bid, meanwhile>>
    BY <1>4
  <1> QED BY <1>1, <1>2, <1>3, <1>4
          DEF TemplatesStep, AddVariant, Switch, LoadVariant, StoreVariant

\* What a step does to each bid, and to each request.
LEMMA OneBid ==
  ASSUME TemplatesTypeOK, TemplatesStep, NEW b \in Jobs
  PROVE  \/ bid'[b] = bid[b]
         \/ PickVariant(b)
         \/ bid'[b] = NoBid
         \/ /\ bid[b].step # "none" /\ bid'[b].step \in {"queued", "sent"}
            /\ bid'[b].variant = bid[b].variant /\ bid'[b].by = bid[b].by
            /\ bid'[b].step = "sent" => BidGoes(b)
  <1> USE DEF TemplatesTypeOK
  <1>1. ASSUME NEW c \in Jobs, PickVariant(c), c # b PROVE bid'[b] = bid[b]
    BY <1>1 DEF PickVariant
  <1>2. ASSUME NEW c \in Jobs, FinishDraft(c), c # b PROVE bid'[b] = bid[b]
    BY <1>2 DEF FinishDraft
  <1>3. ASSUME FinishDraft(b)
        PROVE  \/ bid'[b] = NoBid
               \/ /\ bid[b].step # "none" /\ bid'[b].step = "queued"
                  /\ bid'[b].variant = bid[b].variant /\ bid'[b].by = bid[b].by
    <2>1. CASE bid' = [bid EXCEPT ![b] = NoBid]
      BY <2>1
    <2>2. CASE bid' = [bid EXCEPT ![b].step = "queued"]
      BY <1>3, <2>2 DEF FinishDraft
    <2> QED BY <1>3, <2>1, <2>2 DEF FinishDraft
  <1>4. ASSUME NEW c \in Jobs, BidGoes(c), c # b PROVE bid'[b] = bid[b]
    BY <1>4 DEF BidGoes
  <1>5. ASSUME BidGoes(b)
        PROVE  /\ bid[b].step # "none" /\ bid'[b].step = "sent"
               /\ bid'[b].variant = bid[b].variant /\ bid'[b].by = bid[b].by
    BY <1>5 DEF BidGoes
  <1>6. CASE UNCHANGED bid
    BY <1>6
  <1>7. \/ \E c \in Jobs : PickVariant(c)
        \/ \E c \in Jobs : FinishDraft(c)
        \/ \E c \in Jobs : BidGoes(c)
        \/ UNCHANGED bid
    BY DEF TemplatesStep, AddVariant, Switch, LoadVariant, StoreVariant
  <1> QED BY <1>1, <1>2, <1>3, <1>4, <1>5, <1>6, <1>7

\* A step leaves an editor as it was, ends its edit, or loads a wording.
LEMMA OneEdit ==
  ASSUME TemplatesTypeOK, TemplatesStep, NEW e \in Editors
  PROVE  \/ edit'[e] = edit[e]
         \/ edit'[e] = NoEdit
         \/ \E v \in Variants : LoadVariant(e, v)
  <1> USE DEF TemplatesTypeOK
  <1>1. ASSUME NEW d \in Editors, NEW v \in Variants, LoadVariant(d, v), d # e
        PROVE  edit'[e] = edit[e]
    BY <1>1 DEF LoadVariant
  <1>2. ASSUME NEW d \in Editors, StoreVariant(d) PROVE edit'[e] \in {edit[e], NoEdit}
    BY <1>2 DEF StoreVariant
  <1>3. CASE UNCHANGED edit
    BY <1>3
  <1>4. \/ \E d \in Editors, v \in Variants : LoadVariant(d, v)
        \/ \E d \in Editors : StoreVariant(d)
        \/ UNCHANGED edit
    BY DEF TemplatesStep, PickVariant, FinishDraft, BidGoes, AddVariant, Switch
  <1> QED BY <1>1, <1>2, <1>3, <1>4

\* More bids of a variant have gone only if one just went, and then a request that has
\* the variant in hand is on record.
LEMMA GoneMeanwhile ==
  ASSUME TemplatesTypeOK, TemplatesStep, NEW v \in Variants, v \in InHand
  PROVE  SentFrom(v)' \subseteq SentFrom(v) \/ v \in meanwhile'
  <1>1. CASE \E b \in Jobs : BidGoes(b) /\ bid[b].variant = v
    BY <1>1 DEF BidGoes
  <1>2. CASE ~\E b \in Jobs : BidGoes(b) /\ bid[b].variant = v
    <2> SUFFICES ASSUME NEW b \in Jobs, bid'[b].step = "sent", bid'[b].variant = v
                 PROVE  bid[b].step = "sent" /\ bid[b].variant = v
      BY DEF SentFrom
    <2>1. CASE PickVariant(b)
      <3>1. bid'[b].step = "model"
        BY <2>1, PickTypes
      <3> QED BY <3>1
    <2>2. bid'[b] # NoBid
      BY DEF NoBid
    <2> QED BY <1>2, <2>1, <2>2, OneBid
  <1> QED BY <1>1, <1>2

\* Every step keeps each count the number of bids written with the wording.
LEMMA MeasureStep ==
  ASSUME TemplatesTypeOK, MeasureHolds, TemplatesStep
  PROVE  MeasureHolds'
  <1>1. \A v \in Variants : SentFrom(v) \subseteq SentFrom(v)'
    BY SentStays
  <1>2. meanwhile \subseteq meanwhile'
    BY SentStays
  <1>3. ASSUME NEW b \in Jobs
        PROVE  /\ bid'[b].step = "none" <=> bid'[b].variant = NoVariant
               /\ bid'[b].by # 0 => SentFrom(bid[b].variant)' # {}
    <2>1. /\ bid[b].step = "none" <=> bid[b].variant = NoVariant
          /\ bid[b].by # 0 => SentFrom(bid[b].variant) # {}
      BY DEF MeasureHolds
    <2>2. PICK v : v = bid[b].variant
      OBVIOUS
    <2>3. bid[b].by # 0 => SentFrom(v)' # {}
      <3>1. ASSUME bid[b].by # 0, v = NoVariant PROVE FALSE
        <4>1. PICK c \in Jobs : bid[c].variant = NoVariant /\ bid[c].step = "sent"
          BY <2>1, <2>2, <3>1 DEF SentFrom
        <4> QED BY <4>1 DEF MeasureHolds
      <3>2. bid[b].by # 0 => v \in Variants /\ SentFrom(v) # {}
        BY <2>1, <2>2, <3>1 DEF TemplatesTypeOK
      <3> QED BY <1>1, <3>2
    <2>4. CASE PickVariant(b)
      <3>1. PICK u \in LeastWritten :
              /\ u \in Variants /\ bid'[b].step = "model" /\ bid'[b].variant = u
              /\ bid'[b].by = (IF SentFrom(u) = {} THEN 0 ELSE wording[u])
        BY <2>4, PickTypes
      <3>2. bid'[b].by # 0 => SentFrom(u)' # {}
        BY <1>1, <3>1
      <3>3. u # NoVariant
        BY <3>1, TemplatesAssumption
      <3> QED BY <3>1, <3>2, <3>3 DEF SentFrom
    <2>5. CASE bid'[b] = NoBid
      BY <2>5 DEF NoBid
    <2>6. CASE /\ bid[b].step = "none" <=> bid'[b].step = "none"
               /\ bid'[b].variant = bid[b].variant /\ bid'[b].by = bid[b].by
      BY <2>1, <2>2, <2>3, <2>6 DEF SentFrom
    <2> QED BY <2>4, <2>5, <2>6, OneBid
  <1>4. ASSUME NEW e \in Editors, edit'[e] # NoEdit
        PROVE  /\ edit'[e].variant \in Variants /\ edit'[e].words # 0
               /\ SentFrom(edit[e].variant)' # {} => edit'[e].variant \in meanwhile'
    <2>1. CASE edit'[e] = edit[e]
      <3>1. PICK v \in Variants : v = edit[e].variant /\ v \in InHand
        BY <1>4, <2>1 DEF MeasureHolds, InHand
      <3>2. edit[e].words # 0 /\ (SentFrom(v) # {} => v \in meanwhile)
        BY <1>4, <2>1, <3>1 DEF MeasureHolds
      <3>3. SentFrom(v)' # {} => v \in meanwhile'
        BY <1>2, <3>1, <3>2, GoneMeanwhile
      <3> QED BY <2>1, <3>1, <3>2, <3>3 DEF SentFrom
    <2>2. CASE \E v \in Variants : LoadVariant(e, v)
      <3>1. PICK v \in Variants : LoadVariant(e, v)
        BY <2>2
      <3>2. PICK words \in Wordings : edit' = [edit EXCEPT ![e] = [variant |-> v, words |-> words]]
        BY <3>1 DEF LoadVariant
      <3>3. edit'[e].variant = v /\ edit'[e].words = words
        BY <3>2 DEF TemplatesTypeOK
      <3>4. words # 0
        BY DEF Wordings
      <3>5. SentFrom(v)' = {}
        BY <3>1 DEF LoadVariant, WordsLocked, SentFrom
      <3> QED BY <3>3, <3>4, <3>5 DEF SentFrom
    <2> QED BY <1>4, <2>1, <2>2, OneEdit
  <1> QED BY <1>3, <1>4 DEF MeasureHolds

\* New words are stored by a request that read a variant before the first bid from it
\* went; a bid that knows the words of its variant was picked after that.
LEMMA WordsStep ==
  ASSUME TemplatesTypeOK, MeasureHolds, MeasuredWordsStand, TemplatesStep
  PROVE  MeasuredWordsStand'
  <1> SUFFICES ASSUME NEW b \in Jobs, bid'[b].by # 0, bid'[b].variant \notin meanwhile'
               PROVE  wording'[bid'[b].variant] = bid'[b].by
    BY DEF MeasuredWordsStand
  <1>1. meanwhile \subseteq meanwhile'
    BY SentStays
  <1>2. CASE PickVariant(b)
    <2>1. PICK v \in LeastWritten :
            bid'[b].variant = v /\ bid'[b].by = (IF SentFrom(v) = {} THEN 0 ELSE wording[v])
      BY <1>2, PickTypes
    <2>2. wording' = wording
      BY <1>2 DEF PickVariant
    <2> QED BY <2>1, <2>2
  <1>3. CASE ~PickVariant(b)
    <2>1. bid'[b].by = bid[b].by /\ bid'[b].variant = bid[b].variant
      <3>1. bid'[b] # NoBid
        BY DEF NoBid
      <3> QED BY <1>3, <3>1, OneBid
    <2>2. wording[bid[b].variant] = bid[b].by /\ SentFrom(bid[b].variant) # {}
      BY <1>1, <2>1 DEF MeasuredWordsStand, MeasureHolds
    <2>3. bid[b].variant \in Variants
      <3>1. PICK c \in Jobs : bid[c].variant = bid[b].variant /\ bid[c].step = "sent"
        BY <2>2 DEF SentFrom
      <3> QED BY <3>1 DEF MeasureHolds, TemplatesTypeOK
    <2>4. CASE \E e \in Editors : StoreVariant(e)
      <3>1. PICK e \in Editors : StoreVariant(e)
        BY <2>4
      <3>2. edit[e].variant # bid[b].variant
        BY <1>1, <2>1, <2>2, <3>1 DEF StoreVariant, MeasureHolds
      <3> QED BY <2>1, <2>2, <2>3, <3>1, <3>2 DEF StoreVariant, TemplatesTypeOK
    <2>5. CASE \E v \in Variants : AddVariant(v)
      <3>1. PICK v \in Variants : AddVariant(v)
        BY <2>5
      <3>2. v # bid[b].variant
        BY <2>1, <2>2, <3>1 DEF AddVariant
      <3> QED BY <2>1, <2>2, <2>3, <3>1, <3>2 DEF AddVariant, TemplatesTypeOK
    <2>6. CASE UNCHANGED wording
      BY <2>1, <2>2, <2>6
    <2> QED BY <2>4, <2>5, <2>6 DEF TemplatesStep, PickVariant, FinishDraft, BidGoes, Switch,
               LoadVariant
  <1> QED BY <1>2, <1>3

\* Every step of drafting and of editing keeps the invariant.
LEMMA NextTemplates == TemplatesInv /\ [TemplatesNext]_templateVars => TemplatesInv'
  <1> SUFFICES ASSUME TemplatesInv, [TemplatesNext]_templateVars PROVE TemplatesInv'
    OBVIOUS
  <1>1. CASE TemplatesNext
    <2>1. TemplatesStep
      BY <1>1 DEF TemplatesNext, TemplatesStep
    <2>2. TemplatesTypeOK' /\ SplitHolds' /\ MeasureHolds' /\ MeasuredWordsStand'
      BY <2>1, TemplatesStepTypes, SplitStep, MeasureStep, WordsStep DEF TemplatesInv, RatesCompare
    <2>3. EvenSplit'
      BY <2>2, TakenIsEven, PTL
    <2> QED BY <2>2, <2>3 DEF TemplatesInv, RatesCompare
  <1>2. CASE UNCHANGED templateVars
    BY <1>2 DEF templateVars, TemplatesInv, TemplatesTypeOK, SplitHolds, MeasureHolds, RatesCompare,
                EvenSplit, MeasuredWordsStand, BeingDrafted, TakenFrom, WrittenFrom, SentFrom
  <1> QED BY <1>1, <1>2

\* The split stays even and the rates stay those of one wording, for any number of
\* variants, jobs, drafters and requests.
THEOREM RatesStayComparable == TemplatesSpec => []RatesCompare
  <1>1. TemplatesInv => RatesCompare
    BY DEF TemplatesInv
  <1> QED BY InitTemplates, NextTemplates, <1>1, PTL DEF TemplatesSpec

-----------------------------------------------------------------------------
\* The window of the inbox poll (InboxWindow).
\* A set of numbers with a bound has a greatest.
LEMMA Greatest ==
  ASSUME NEW K \in Nat, NEW S \in SUBSET (0..K), S # {}
  PROVE  Max(S) \in S /\ \A x \in S : x <= Max(S)
  <1> DEFINE Bounds == {m \in Nat : \A x \in S : x <= m}
  <1>1. Bounds \subseteq Nat /\ K \in Bounds
    OBVIOUS
  <1>2. PICK m \in Bounds : \A k \in Bounds : ~(<<k, m>> \in OpToRel(<, Nat))
    <2> HIDE DEF Bounds
    <2>1. IsWellFoundedOn(OpToRel(<, Nat), Nat)
      BY NatLessThanWellFounded
    <2> QED BY <1>1, <2>1, WFMin
  <1>3. \A k \in Bounds : ~(k < m)
    BY <1>1, <1>2 DEF OpToRel
  <1>4. m \in S
    <2> SUFFICES ASSUME m \notin S PROVE FALSE
      OBVIOUS
    <2>1. m \in Nat /\ \A x \in S : x \in Nat /\ x <= m /\ x # m
      OBVIOUS
    <2>2. PICK x \in S : TRUE
      OBVIOUS
    <2>3. m # 0 /\ m - 1 \in Nat
      BY <2>1, <2>2
    <2>4. m - 1 \in Bounds
      BY <2>1, <2>3
    <2> QED BY <1>3, <2>1, <2>4
  <1>5. \A x \in S : m >= x
    OBVIOUS
  <1> QED BY <1>4, <1>5 DEF Max

\* The start of the window is no later than the cursor, and grows with it.
LEMMA SinceBelow ==
  /\ \A c \in Nat : Since(c) \in Nat /\ Since(c) <= c
  /\ \A c, d \in Nat : c <= d => Since(c) <= Since(d)
  /\ \A c, d \in Nat : c <= d + Lag => Since(c) <= d
  BY WindowAssumption DEF Since

\* A thread is as new as any of its messages that are listed.
LEMMA NewestCounts ==
  ASSUME WindowTypeOK, NEW n \in visible
  PROVE  UpdatedAt(Talk[n]) \in 0..MaxClock /\ writtenAt[n] <= UpdatedAt(Talk[n])
         /\ \E k \in visible : Talk[k] = Talk[n] /\ UpdatedAt(Talk[n]) = writtenAt[k]
  <1> DEFINE S == {writtenAt[k] : k \in {j \in visible : Talk[j] = Talk[n]}}
  <1>1. S \in SUBSET (0..MaxClock) /\ writtenAt[n] \in S
    BY DEF WindowTypeOK
  <1>2. Max(S) \in S /\ \A x \in S : x <= Max(S)
    <2> HIDE DEF S
    <2> QED BY <1>1, Greatest, WindowAssumption
  <1>3. UpdatedAt(Talk[n]) = Max(S)
    BY DEF UpdatedAt
  <1> QED BY <1>1, <1>2, <1>3

\* Before the first poll the invariant holds.
LEMMA InitWindow == WindowInit => WindowInv
  <1> SUFFICES ASSUME WindowInit PROVE WindowInv
    OBVIOUS
  <1> QED BY SinceBelow, WindowAssumption
     DEF WindowInit, WindowInv, WindowTypeOK, TimesHold, RunsHold, RunMisses, Unstored,
         NothingSlipsBy, NoRun

Listed(r) == {t \in {Talk[n] : n \in visible} : UpdatedAt(t) >= Since(run[r].from)}
Reaches(r) == Max({run[r].from} \cup {UpdatedAt(t) : t \in Listed(r)})

\* A poll leaves to the next no less than it read and no more than there is.
LEMMA ReachesNewest ==
  ASSUME WindowTypeOK, TimesHold, RunsHold, NEW r \in Runs
  PROVE  /\ Reaches(r) \in 0..MaxClock /\ Reaches(r) <= clock /\ run[r].from <= Reaches(r)
         /\ Listed(r) \subseteq {Talk[n] : n \in Notes}
  <1> DEFINE S == {run[r].from} \cup {UpdatedAt(t) : t \in Listed(r)}
  <1>1. \A t \in Listed(r) : UpdatedAt(t) \in 0..MaxClock /\ UpdatedAt(t) <= clock
    <2> TAKE t \in Listed(r)
    <2>1. PICK n \in visible : t = Talk[n]
      BY DEF Listed
    <2>2. PICK k \in visible : UpdatedAt(t) = writtenAt[k]
      BY <2>1, NewestCounts
    <2> QED BY <2>2 DEF WindowTypeOK, TimesHold
  <1>2. S \in SUBSET (0..MaxClock) /\ run[r].from \in S /\ \A x \in S : x <= clock
    BY <1>1 DEF WindowTypeOK, RunsHold
  <1>3. Max(S) \in S /\ \A x \in S : x <= Max(S)
    <2> HIDE DEF S
    <2> QED BY <1>2, Greatest, WindowAssumption
  <1>4. Reaches(r) = Max(S)
    BY DEF Reaches
  <1>5. Listed(r) \subseteq {Talk[n] : n \in Notes}
    BY DEF Listed, WindowTypeOK
  <1> HIDE DEF S
  <1> QED BY <1>2, <1>3, <1>4, <1>5

-----------------------------------------------------------------------------
RunStates ==
  [step : {"idle", "threads", "messages", "store"}, from : 0..MaxClock, reached : 0..MaxClock,
   talks : SUBSET {Talk[n] : n \in Notes}, notes : SUBSET Notes]

\* What the messages call lists.
NotesFound(r) ==
  {n \in visible : Talk[n] \in run[r].talks /\ writtenAt[n] >= Since(run[r].from)}

\* What a poll's steps do to it, and that the others are left alone.
LEMMA PollChanges ==
  ASSUME WindowTypeOK, NEW r \in Runs
  PROVE  /\ ReadCursor(r) => run' = [run EXCEPT ![r] = [NoRun EXCEPT !.step = "threads", !.from = syncedTo]]
         /\ ListThreads(r) => run' = [run EXCEPT ![r] = [run[r] EXCEPT !.step = "messages",
                                         !.talks = Listed(r), !.reached = Reaches(r)]]
         /\ ListMessages(r) => run' = [run EXCEPT ![r] = [run[r] EXCEPT !.step = "store", !.notes = NotesFound(r)]]
         /\ StoreRun(r) \/ RunFails(r) => run' = [run EXCEPT ![r] = NoRun]
  <1> USE DEF WindowTypeOK
  <1>1. ListThreads(r) => run' = [run EXCEPT ![r] = [run[r] EXCEPT !.step = "messages",
                                         !.talks = Listed(r), !.reached = Reaches(r)]]
    <2> SUFFICES ASSUME ListThreads(r) PROVE run' = [run EXCEPT ![r] = [run[r] EXCEPT !.step = "messages",
                                         !.talks = Listed(r), !.reached = Reaches(r)]]
      BY DEF ListThreads
    <2>1. run' = [run EXCEPT ![r].step = "messages", ![r].talks = Listed(r), ![r].reached = Reaches(r)]
      BY DEF ListThreads, Listed, Reaches
    <2> QED BY <2>1
  <1>2. ListMessages(r) => run' = [run EXCEPT ![r] = [run[r] EXCEPT !.step = "store", !.notes = NotesFound(r)]]
    BY DEF ListMessages, NotesFound
  <1> QED BY <1>1, <1>2 DEF ReadCursor, StoreRun, RunFails

\* What each step of a poll changes.
LEMMA PollSteps ==
  ASSUME WindowTypeOK, NEW r \in Runs
  PROVE  /\ ReadCursor(r) => /\ run[r].step = "idle" /\ run'[r].step = "threads"
                             /\ run'[r].from = syncedTo /\ run'[r].reached = 0 /\ run'[r].notes = {}
         /\ ListThreads(r) => /\ run[r].step = "threads" /\ run'[r].step = "messages"
                              /\ run'[r].from = run[r].from /\ run'[r].reached = Reaches(r)
                              /\ run'[r].talks = Listed(r) /\ run'[r].notes = run[r].notes
         /\ ListMessages(r) => /\ run[r].step = "messages" /\ run'[r].step = "store"
                               /\ run'[r].from = run[r].from /\ run'[r].reached = run[r].reached
                               /\ run'[r].notes = NotesFound(r)
         /\ StoreRun(r) \/ RunFails(r) => /\ run'[r].step = "idle" /\ run'[r].from = 0
                                          /\ run'[r].reached = 0 /\ run'[r].notes = {}
  <1>1. \A new : run' = [run EXCEPT ![r] = new] => run'[r] = new
    BY DEF WindowTypeOK
  <1>2. run[r] \in RunStates
    BY DEF WindowTypeOK, RunStates
  <1>3. ASSUME ReadCursor(r)
        PROVE  /\ run[r].step = "idle" /\ run'[r].step = "threads"
               /\ run'[r].from = syncedTo /\ run'[r].reached = 0 /\ run'[r].notes = {}
    <2>1. run'[r] = [NoRun EXCEPT !.step = "threads", !.from = syncedTo]
      BY <1>1, <1>3, PollChanges
    <2> QED BY <1>3, <2>1 DEF NoRun, ReadCursor
  <1>4. ASSUME ListThreads(r)
        PROVE  /\ run[r].step = "threads" /\ run'[r].step = "messages"
               /\ run'[r].from = run[r].from /\ run'[r].reached = Reaches(r)
               /\ run'[r].talks = Listed(r) /\ run'[r].notes = run[r].notes
    <2>1. run'[r] = [run[r] EXCEPT !.step = "messages", !.talks = Listed(r), !.reached = Reaches(r)]
      BY <1>1, <1>4, PollChanges
    <2>2. run[r].step = "threads"
      BY <1>4 DEF ListThreads
    <2> QED BY <1>2, <2>1, <2>2 DEF RunStates
  <1>5. ASSUME ListMessages(r)
        PROVE  /\ run[r].step = "messages" /\ run'[r].step = "store"
               /\ run'[r].from = run[r].from /\ run'[r].reached = run[r].reached
               /\ run'[r].notes = NotesFound(r)
    <2>1. run'[r] = [run[r] EXCEPT !.step = "store", !.notes = NotesFound(r)]
      BY <1>1, <1>5, PollChanges
    <2>2. run[r].step = "messages"
      BY <1>5 DEF ListMessages
    <2> QED BY <1>2, <2>1, <2>2 DEF RunStates
  <1>6. ASSUME StoreRun(r) \/ RunFails(r)
        PROVE  /\ run'[r].step = "idle" /\ run'[r].from = 0
               /\ run'[r].reached = 0 /\ run'[r].notes = {}
    <2>1. run'[r] = NoRun
      BY <1>1, <1>6, PollChanges
    <2> QED BY <2>1 DEF NoRun
  <1> QED BY <1>3, <1>4, <1>5, <1>6

\* Each step of a poll leaves the polls typed.
LEMMA RunStatesKept ==
  ASSUME WindowTypeOK, TimesHold, RunsHold, NEW r \in Runs,
         ReadCursor(r) \/ ListThreads(r) \/ ListMessages(r) \/ StoreRun(r) \/ RunFails(r)
  PROVE  run' \in [Runs -> RunStates]
  <1>1. run \in [Runs -> RunStates]
    BY DEF WindowTypeOK, RunStates
  <1>2. NoRun \in RunStates
    BY WindowAssumption DEF NoRun, RunStates
  <1>3. CASE ReadCursor(r)
    <2>1. [NoRun EXCEPT !.step = "threads", !.from = syncedTo] \in RunStates
      BY <1>2 DEF RunStates, WindowTypeOK
    <2> QED BY <1>1, <1>3, <2>1, PollChanges
  <1>4. CASE ListThreads(r)
    <2>1. Reaches(r) \in 0..MaxClock /\ Listed(r) \in SUBSET {Talk[n] : n \in Notes}
      BY ReachesNewest
    <2>2. [run[r] EXCEPT !.step = "messages", !.talks = Listed(r), !.reached = Reaches(r)] \in RunStates
      BY <1>1, <2>1 DEF RunStates
    <2> QED BY <1>1, <1>4, <2>2, PollChanges
  <1>5. CASE ListMessages(r)
    <2>1. NotesFound(r) \in SUBSET Notes
      BY DEF NotesFound, WindowTypeOK
    <2>2. [run[r] EXCEPT !.step = "store", !.notes = NotesFound(r)] \in RunStates
      BY <1>1, <2>1 DEF RunStates
    <2> QED BY <1>1, <1>5, <2>2, PollChanges
  <1>6. CASE StoreRun(r) \/ RunFails(r)
    BY <1>1, <1>2, <1>6, PollChanges
  <1> QED BY <1>3, <1>4, <1>5, <1>6

\* Every step of polling and of the marketplace keeps the types.
LEMMA WindowTypes ==
  ASSUME WindowTypeOK, TimesHold, RunsHold, WindowNext
  PROVE  WindowTypeOK'
  <1>1. CASE Tick \/ \E n \in Notes : WriteNote(n) \/ NoteAppears(n)
    BY <1>1, WindowAssumption DEF Tick, WriteNote, NoteAppears, WindowTypeOK
  <1>2. CASE \E r \in Runs : ReadCursor(r) \/ ListThreads(r) \/ ListMessages(r)
                              \/ StoreRun(r) \/ RunFails(r)
    <2>1. PICK r \in Runs : ReadCursor(r) \/ ListThreads(r) \/ ListMessages(r)
                              \/ StoreRun(r) \/ RunFails(r)
      BY <1>2
    <2>2. run' \in [Runs -> RunStates]
      BY <2>1, RunStatesKept
    <2>3. /\ clock' = clock /\ writtenAt' = writtenAt /\ visible' = visible
          /\ inStore' \subseteq visible' /\ syncedTo' \in 0..MaxClock
      <3>1. CASE StoreRun(r)
        <4>1. run[r].notes \subseteq visible /\ run[r].reached \in 0..MaxClock
          BY DEF RunsHold, WindowTypeOK
        <4> QED BY <3>1, <4>1 DEF StoreRun, WindowTypeOK
      <3>2. CASE ~StoreRun(r)
        BY <2>1, <3>2 DEF ReadCursor, ListThreads, ListMessages, RunFails, WindowTypeOK
      <3> QED BY <3>1, <3>2
    <2> QED BY <2>2, <2>3 DEF WindowTypeOK, RunStates
  <1> QED BY <1>1, <1>2 DEF WindowNext

\* Every step keeps the clock ahead of the cursor and of what was written.
LEMMA TimesStep ==
  ASSUME WindowTypeOK, TimesHold, RunsHold, WindowNext
  PROVE  TimesHold'
  <1> USE DEF TimesHold, WindowTypeOK
  <1>1. CASE Tick \/ \E n \in Notes : WriteNote(n) \/ NoteAppears(n)
    BY <1>1, WindowAssumption DEF Tick, WriteNote, NoteAppears
  <1>2. CASE \E r \in Runs : ReadCursor(r) \/ ListThreads(r) \/ ListMessages(r)
                              \/ RunFails(r)
    BY <1>2 DEF ReadCursor, ListThreads, ListMessages, RunFails
  <1>3. CASE \E r \in Runs : StoreRun(r)
    BY <1>3 DEF StoreRun, RunsHold
  <1> QED BY <1>1, <1>2, <1>3 DEF WindowNext

\* Of one poll and one message: what is asked for is in time.
LEMMA PollMissesNothing ==
  ASSUME WindowTypeOK, TimesHold, RunsHold, NothingSlipsBy, NEW r \in Runs, NEW n \in Unstored,
         ReadCursor(r) \/ ListThreads(r) \/ ListMessages(r) \/ StoreRun(r) \/ RunFails(r)
  PROVE  ~RunMisses(r, n)'
  <1> USE DEF WindowTypeOK
  <1>1. ~RunMisses(r, n) /\ n \in Notes /\ writtenAt[n] # 0 /\ n \notin inStore
    BY DEF RunsHold, Unstored
  <1>2. /\ writtenAt' = writtenAt /\ visible' = visible /\ writtenAt[n] \in Nat
        /\ run[r].from \in Nat /\ run[r].reached \in Nat /\ syncedTo \in Nat
    <2>1. writtenAt' = writtenAt /\ visible' = visible
      BY DEF ReadCursor, ListThreads, ListMessages, StoreRun, RunFails
    <2> QED BY <1>1, <2>1
  <1>3. CASE ReadCursor(r)
    <2>1. writtenAt[n] >= Since(syncedTo)
      BY <1>1 DEF NothingSlipsBy
    <2>2. run'[r].step = "threads" /\ run'[r].from = syncedTo
      BY <1>3, PollSteps
    <2> QED BY <1>2, <2>1, <2>2, SinceBelow DEF RunMisses
  <1>4. CASE ListThreads(r)
    <2>1. /\ run[r].step = "threads" /\ run'[r].step = "messages" /\ run'[r].from = run[r].from
          /\ run'[r].reached = Reaches(r) /\ run'[r].talks = Listed(r)
      BY <1>4, PollSteps
    <2>2. writtenAt[n] >= Since(run[r].from)
      BY <1>1, <1>2, <2>1, SinceBelow DEF RunMisses
    <2>3. Reaches(r) \in Nat /\ Reaches(r) <= clock
      BY ReachesNewest
    <2>4. CASE n \in visible
      <3>1. Talk[n] \in Listed(r)
        <4>1. UpdatedAt(Talk[n]) \in Nat /\ writtenAt[n] <= UpdatedAt(Talk[n])
          BY <2>4, NewestCounts
        <4>2. UpdatedAt(Talk[n]) >= Since(run[r].from)
          BY <1>2, <2>2, <4>1, SinceBelow
        <4> QED BY <2>4, <4>2 DEF Listed
      <3> QED BY <1>2, <2>1, <2>2, <2>4, <3>1, SinceBelow DEF RunMisses
    <2>5. CASE n \notin visible
      <3>1. clock <= writtenAt[n] + Lag
        BY <1>1, <2>5 DEF TimesHold
      <3>2. Reaches(r) <= writtenAt[n] + Lag
        BY <1>2, <2>3, <3>1, WindowAssumption
      <3>3. Since(Reaches(r)) \in Nat /\ Since(Reaches(r)) <= writtenAt[n]
        BY <1>2, <2>3, <3>2, SinceBelow
      <3> QED BY <1>2, <2>1, <2>2, <3>3, SinceBelow DEF RunMisses
    <2> QED BY <2>4, <2>5
  <1>5. CASE ListMessages(r)
    <2>1. /\ run[r].step = "messages" /\ run'[r].step = "store"
          /\ run'[r].reached = run[r].reached /\ run'[r].notes = NotesFound(r)
      BY <1>5, PollSteps
    <2>2. /\ writtenAt[n] >= Since(run[r].from)
          /\ writtenAt[n] < Since(run[r].reached) => n \in visible /\ Talk[n] \in run[r].talks
      BY <1>1, <1>2, <2>1, SinceBelow DEF RunMisses
    <2>3. writtenAt[n] < Since(run[r].reached) => n \in NotesFound(r)
      BY <2>2 DEF NotesFound
    <2> QED BY <1>2, <2>1, <2>3 DEF RunMisses
  <1>6. CASE StoreRun(r) \/ RunFails(r)
    <2>1. run'[r].step = "idle"
      BY <1>6, PollSteps
    <2> QED BY <2>1 DEF RunMisses
  <1> QED BY <1>3, <1>4, <1>5, <1>6

\* Every step keeps what a poll in hand may still miss within its window.
LEMMA RunsStep ==
  ASSUME WindowTypeOK, TimesHold, RunsHold, NothingSlipsBy, WindowNext
  PROVE  RunsHold'
  <1> SUFFICES ASSUME NEW r \in Runs
               PROVE  /\ run'[r].from <= clock' /\ run'[r].reached <= clock'
                      /\ run'[r].notes \subseteq visible'
                      /\ \A n \in Unstored' : ~RunMisses(r, n)'
    BY DEF RunsHold
  <1>1. /\ run[r].from <= clock /\ run[r].reached <= clock /\ run[r].notes \subseteq visible
        /\ \A n \in Unstored : ~RunMisses(r, n)
    BY DEF RunsHold
  <1>2. /\ clock \in Nat /\ run[r].from \in Nat /\ run[r].reached \in Nat
        /\ run[r].step \in {"idle", "threads", "messages", "store"}
    BY DEF WindowTypeOK
  <1>3. CASE Tick
    <2>1. clock' = clock + 1 /\ UNCHANGED <<writtenAt, visible, inStore, run>>
      BY <1>3 DEF Tick
    <2>2. \A n \in Unstored' : ~RunMisses(r, n)'
      BY <1>1, <2>1 DEF Unstored, RunMisses
    <2> QED BY <1>1, <1>2, <2>1, <2>2
  <1>4. ASSUME NEW n \in Notes, WriteNote(n)
        PROVE  \A k \in Unstored' : ~RunMisses(r, k)'
    <2> TAKE k \in Unstored'
    <2>1. /\ run' = run /\ visible' = visible /\ inStore' = inStore /\ n \notin visible
          /\ \A j \in Notes \ {n} : writtenAt'[j] = writtenAt[j]
          /\ writtenAt'[n] = clock
      BY <1>4 DEF WriteNote, TimesHold, WindowTypeOK
    <2>2. CASE k = n
      <3>1. Since(run[r].from) <= clock /\ Since(run[r].reached) <= clock
            /\ Since(run[r].from) \in Nat /\ Since(run[r].reached) \in Nat
        BY <1>1, <1>2, SinceBelow
      <3>2. ~(clock < Since(run[r].from)) /\ ~(clock < Since(run[r].reached))
        BY <1>2, <3>1
      <3> QED BY <1>2, <2>1, <2>2, <3>2 DEF RunMisses
    <2>3. CASE k # n
      <3>1. k \in Unstored /\ writtenAt'[k] = writtenAt[k]
        BY <2>1, <2>3 DEF Unstored
      <3> QED BY <1>1, <2>1, <3>1 DEF RunMisses
    <2> QED BY <2>2, <2>3
  <1>5. CASE \E n \in Notes : WriteNote(n)
    <2>1. UNCHANGED <<clock, visible, run>>
      BY <1>5 DEF WriteNote
    <2> QED BY <1>1, <1>4, <1>5, <2>1
  <1>6. CASE \E n \in Notes : NoteAppears(n)
    <2>1. visible \subseteq visible' /\ UNCHANGED <<clock, writtenAt, inStore, run>>
      BY <1>6 DEF NoteAppears
    <2> QED BY <1>1, <1>2, <2>1 DEF Unstored, RunMisses
  <1>7. ASSUME NEW q \in Runs,
               ReadCursor(q) \/ ListThreads(q) \/ ListMessages(q) \/ StoreRun(q) \/ RunFails(q)
        PROVE  /\ run'[r].from <= clock' /\ run'[r].reached <= clock'
               /\ run'[r].notes \subseteq visible'
               /\ \A n \in Unstored' : ~RunMisses(r, n)'
    <2>1. clock' = clock /\ writtenAt' = writtenAt /\ visible' = visible /\ inStore \subseteq inStore'
      BY <1>7 DEF ReadCursor, ListThreads, ListMessages, StoreRun, RunFails
    <2>2. Unstored' \subseteq Unstored
      BY <2>1 DEF Unstored
    <2>3. CASE q # r
      <3>1. run'[r] = run[r]
        BY <1>7, <2>3 DEF ReadCursor, ListThreads, ListMessages, StoreRun, RunFails, WindowTypeOK
      <3> QED BY <1>1, <2>1, <2>2, <3>1 DEF RunMisses
    <2>4. CASE q = r
      <3>1. \A n \in Unstored : ~RunMisses(r, n)'
        BY <1>7, <2>4, PollMissesNothing
      <3>2. syncedTo <= clock /\ syncedTo \in Nat
        BY DEF TimesHold, WindowTypeOK
      <3>3. run'[r].from <= clock /\ run'[r].reached <= clock /\ run'[r].notes \subseteq visible
        <4>1. CASE ReadCursor(r)
          BY <1>2, <3>2, <4>1, PollSteps
        <4>2. CASE ListThreads(r)
          BY <1>1, <4>2, PollSteps, ReachesNewest
        <4>3. CASE ListMessages(r)
          BY <1>1, <4>3, PollSteps DEF NotesFound
        <4>4. CASE StoreRun(r) \/ RunFails(r)
          BY <1>2, <3>2, <4>4, PollSteps
        <4> QED BY <1>7, <2>4, <4>1, <4>2, <4>3, <4>4
      <3> QED BY <2>1, <2>2, <3>1, <3>3
    <2> QED BY <2>3, <2>4
  <1>8. CASE \E q \in Runs : ReadCursor(q) \/ ListThreads(q) \/ ListMessages(q)
                              \/ StoreRun(q) \/ RunFails(q)
    BY <1>7, <1>8
  <1> QED BY <1>3, <1>5, <1>6, <1>8 DEF WindowNext

\* What a run leaves to the next is no more than it asked for itself.
LEMMA SlipsStep ==
  ASSUME WindowTypeOK, TimesHold, RunsHold, NothingSlipsBy, WindowNext
  PROVE  NothingSlipsBy'
  <1> SUFFICES ASSUME NEW n \in Notes, writtenAt'[n] # 0, n \notin inStore'
               PROVE  writtenAt'[n] >= Since(syncedTo)'
    BY DEF NothingSlipsBy, Since
  <1>1. CASE \E r \in Runs : StoreRun(r)
    <2>1. PICK r \in Runs : StoreRun(r)
      BY <1>1
    <2>2. /\ run[r].step = "store" /\ inStore' = inStore \cup run[r].notes
          /\ syncedTo' = run[r].reached /\ writtenAt' = writtenAt
      BY <2>1 DEF StoreRun
    <2>3. n \in Unstored /\ n \notin run[r].notes
      BY <2>2 DEF Unstored
    <2>4. ~(writtenAt[n] < Since(run[r].reached))
      BY <2>2, <2>3 DEF RunsHold, RunMisses
    <2>5. run[r].reached \in Nat /\ writtenAt[n] \in Nat
      BY DEF WindowTypeOK
    <2>6. Since(run[r].reached) \in Nat
      BY <2>5, SinceBelow
    <2> QED BY <2>2, <2>4, <2>5, <2>6 DEF Since
  <1>2. CASE \E k \in Notes : WriteNote(k)
    <2>1. PICK k \in Notes : WriteNote(k)
      BY <1>2
    <2>2. syncedTo' = syncedTo /\ writtenAt'[n] \in {writtenAt[n], clock} /\ inStore' = inStore
          /\ (writtenAt'[n] = clock \/ writtenAt'[n] = writtenAt[n])
      BY <2>1 DEF WriteNote, WindowTypeOK
    <2>3. syncedTo \in Nat /\ clock \in Nat /\ syncedTo <= clock
      BY DEF WindowTypeOK, TimesHold
    <2>4. Since(syncedTo) \in Nat /\ Since(syncedTo) <= clock
      BY <2>3, SinceBelow
    <2> QED BY <2>2, <2>3, <2>4 DEF NothingSlipsBy, Since
  <1>3. CASE UNCHANGED <<writtenAt, inStore, syncedTo>>
    BY <1>3 DEF NothingSlipsBy, Since
  <1> QED BY <1>1, <1>2, <1>3
          DEF WindowNext, Tick, NoteAppears, ReadCursor, ListThreads, ListMessages, RunFails

\* Every step of polling and of the marketplace keeps the invariant.
LEMMA NextWindow == WindowInv /\ [WindowNext]_windowVars => WindowInv'
  <1> SUFFICES ASSUME WindowInv, [WindowNext]_windowVars PROVE WindowInv'
    OBVIOUS
  <1>1. CASE WindowNext
    BY <1>1, WindowTypes, TimesStep, RunsStep, SlipsStep DEF WindowInv
  <1>2. CASE UNCHANGED windowVars
    BY <1>2 DEF windowVars, WindowInv, WindowTypeOK, TimesHold, RunsHold, RunMisses, Unstored,
                NothingSlipsBy
  <1> QED BY <1>1, <1>2

\* However polls fail and overlap, no message is older than what the next one asks
\* for, for any number of messages, threads and polls, and any lag up to Lookback.
THEOREM NoMessageSlips == WindowSpec => []NothingSlipsBy
  <1>1. WindowInv => NothingSlipsBy
    BY DEF WindowInv
  <1> QED BY InitWindow, NextWindow, <1>1, PTL DEF WindowSpec

-----------------------------------------------------------------------------
\* Retention (Privacy).
Answers == [Asked -> Letters \cup {Unread}]
Extracts ==
  [step : {"none", "waiting", "model", "over"}, words : BOOLEAN, answers : Answers,
   handle : BOOLEAN]

\* A job at each of its steps that has read nothing holds nothing.
LEMMA BlankJobs ==
  /\ NoAnswers \in Answers
  /\ \A s \in {"none", "waiting", "model", "over"} :
       LET job == [NoJob EXCEPT !.step = s] IN
         job \in Extracts /\ job.step = s /\ job.words = FALSE /\ job.answers = NoAnswers
         /\ job.handle = FALSE
  <1>1. NoAnswers \in Answers
    BY DEF NoAnswers, Answers
  <1> QED BY <1>1 DEF NoJob, Extracts

\* Before any message the invariant holds.
LEMMA InitPrivacy == PrivacyInit => PrivacyInv
  <1> SUFFICES ASSUME PrivacyInit PROVE PrivacyInv
    OBVIOUS
  <1>1. NoAnswers \in Answers
    BY BlankJobs
  <1>2. PrivacyTypeOK
    BY <1>1 DEF PrivacyInit, PrivacyTypeOK, NoJob, Answers
  <1>3. ~thread.redacted /\ ~thread.quiet
    BY DEF PrivacyInit
  <1>4. ~Answered /\ AtModel = {}
    BY DEF PrivacyInit, Answered, AtModel, NoJob
  <1> QED BY <1>2, <1>3, <1>4 DEF PrivacyInv, RedactionHolds, NothingKeptOfClient

\* The next-state relation, an action to a disjunct.
PrivacyStep ==
  \/ \E m \in Letters : WriteLetter(m)
  \/ \E m \in Letters : LoadLetter(m)
  \/ \E m \in Letters : StoreReading(m)
  \/ \E m \in Letters : ReadingFails(m)
  \/ Fetch \/ FetchFails \/ KeepLetters
  \/ StartSession \/ AskMore
  \/ Erase \/ FallQuiet
  \/ SweepCloses \/ SweepThread \/ SweepLetters \/ SweepSession \/ SweepDies

\* A job that is loaded, and one that ends.
Loaded(m) ==
  IF read.started /\ Remaining(read.answers) # {}
  THEN [step |-> "model", words |-> letter[m] = "words",
        answers |-> read.answers, handle |-> thread.handle]
  ELSE [NoJob EXCEPT !.step = "over"]

\* What each step of a reading job changes.
LEMMA JobSteps ==
  ASSUME PrivacyTypeOK, NEW m \in Letters
  PROVE  /\ LoadLetter(m) =>
              /\ extract' \in [Letters -> Extracts]
              /\ \A k \in Letters \ {m} : extract'[k] = extract[k]
              /\ extract[m].step = "waiting" /\ extract'[m].step \in {"model", "over"}
              /\ extract'[m].step = "model" =>
                   /\ read.started /\ extract'[m].answers = read.answers
                   /\ extract'[m].words = (letter[m] = "words") /\ extract'[m].handle = thread.handle
         /\ StoreReading(m) \/ ReadingFails(m) =>
              /\ extract' \in [Letters -> Extracts]
              /\ \A k \in Letters \ {m} : extract'[k] = extract[k]
              /\ extract[m].step = "model" /\ extract'[m].step \in {"waiting", "over"}
  <1>1. extract \in [Letters -> Extracts]
    BY DEF PrivacyTypeOK, Extracts, Answers
  <1>2. ASSUME LoadLetter(m)
        PROVE  /\ extract' \in [Letters -> Extracts]
               /\ \A k \in Letters \ {m} : extract'[k] = extract[k]
               /\ extract[m].step = "waiting" /\ extract'[m].step \in {"model", "over"}
               /\ extract'[m].step = "model" =>
                   /\ read.started /\ extract'[m].answers = read.answers
                   /\ extract'[m].words = (letter[m] = "words") /\ extract'[m].handle = thread.handle
    <2>1. extract' = [extract EXCEPT ![m] = Loaded(m)] /\ extract[m].step = "waiting"
      BY <1>2 DEF LoadLetter, Loaded
    <2>2. /\ Loaded(m) \in Extracts /\ Loaded(m).step \in {"model", "over"}
          /\ Loaded(m).step = "model" =>
                   /\ read.started /\ Loaded(m).answers = read.answers
                   /\ Loaded(m).words = (letter[m] = "words") /\ Loaded(m).handle = thread.handle
      <3>1. CASE read.started /\ Remaining(read.answers) # {}
        BY <3>1 DEF Loaded, PrivacyTypeOK, Extracts, Answers
      <3>2. CASE ~(read.started /\ Remaining(read.answers) # {})
        <4>1. Loaded(m) = [NoJob EXCEPT !.step = "over"]
          BY <3>2 DEF Loaded
        <4> QED BY <4>1, BlankJobs
      <3> QED BY <3>1, <3>2
    <2> QED BY <1>1, <2>1, <2>2
  <1>3. ASSUME StoreReading(m) \/ ReadingFails(m)
        PROVE  /\ extract' \in [Letters -> Extracts]
               /\ \A k \in Letters \ {m} : extract'[k] = extract[k]
               /\ extract[m].step = "model" /\ extract'[m].step \in {"waiting", "over"}
    <2>1. PICK s \in {"waiting", "over"} : extract' = [extract EXCEPT ![m] = [NoJob EXCEPT !.step = s]]
      BY <1>3 DEF StoreReading, ReadingFails
    <2>2. extract[m].step = "model"
      BY <1>3 DEF StoreReading, ReadingFails
    <2>3. [NoJob EXCEPT !.step = s] \in Extracts /\ [NoJob EXCEPT !.step = s].step = s
      BY BlankJobs
    <2> QED BY <1>1, <2>1, <2>2, <2>3
  <1> QED BY <1>2, <1>3

\* Every step keeps the types.
LEMMA PrivacyTypes ==
  ASSUME PrivacyTypeOK, PrivacyStep
  PROVE  PrivacyTypeOK'
  <1> USE DEF PrivacyTypeOK
  <1>1. CASE \E m \in Letters : WriteLetter(m)
    BY <1>1 DEF WriteLetter
  <1>2. CASE \E m \in Letters : LoadLetter(m)
    <2>1. extract' \in [Letters -> Extracts]
      BY <1>2, JobSteps
    <2>2. UNCHANGED <<thread, letter, read, named, fetched, sweep, excuse>>
      BY <1>2 DEF LoadLetter
    <2> QED BY <2>1, <2>2 DEF Extracts, Answers
  <1>3. CASE \E m \in Letters : StoreReading(m)
    <2>1. PICK m \in Letters : StoreReading(m)
      BY <1>3
    <2>2. extract' \in [Letters -> Extracts]
      BY <2>1, JobSteps
    <2>3. PICK found \in SUBSET Remaining(extract[m].answers) :
            LET merged == [q \in Asked |-> IF q \in found THEN m ELSE extract[m].answers[q]] IN
              read' = [read EXCEPT !.answers = merged] /\ AskQuestions(merged, extract[m].handle)
      BY <2>1 DEF StoreReading
    <2> DEFINE merged == [q \in Asked |-> IF q \in found THEN m ELSE extract[m].answers[q]]
    <2>4. merged \in Answers
      BY DEF Answers
    <2>5. named' \in BOOLEAN
      BY <2>3 DEF AskQuestions
    <2>6. read' = [read EXCEPT !.answers = merged]
      BY <2>3
    <2> HIDE DEF merged
    <2> QED BY <2>1, <2>2, <2>4, <2>5, <2>6 DEF StoreReading, Extracts, Answers
  <1>4. CASE \E m \in Letters : ReadingFails(m)
    <2>1. extract' \in [Letters -> Extracts]
      BY <1>4, JobSteps
    <2> QED BY <1>4, <2>1 DEF ReadingFails, Extracts, Answers
  <1>5. CASE Fetch \/ FetchFails
    BY <1>5 DEF Fetch, FetchFails
  <1>6. CASE KeepLetters
    <2>1. [NoJob EXCEPT !.step = "waiting"] \in Extracts
      BY BlankJobs
    <2>2. extract' \in [Letters -> Extracts]
      BY <1>6, <2>1 DEF KeepLetters, Extracts, Answers
    <2>3. thread' \in [handle : BOOLEAN, redacted : BOOLEAN, closed : BOOLEAN, quiet : BOOLEAN]
      BY <1>6 DEF KeepLetters
    <2> QED BY <1>6, <2>2, <2>3 DEF KeepLetters, Extracts, Answers
  <1>7. CASE StartSession \/ AskMore
    BY <1>7 DEF StartSession, AskMore, AskQuestions
  <1>8. CASE Erase \/ SweepLetters \/ SweepSession
    <2>1. NoAnswers \in [Asked -> Letters \cup {Unread}]
      BY DEF NoAnswers
    <2>2. /\ HideLetters \/ UNCHANGED <<letter, named>>
          /\ EmptySession \/ UNCHANGED read
          /\ UNCHANGED <<fetched, extract>>
          /\ sweep' \in {sweep, "hidden", "idle"}
          /\ excuse' = excuse \/ excuse' = excuse \cup Overtaken \cup Again
          /\ \/ thread' = [thread EXCEPT !.handle = FALSE, !.redacted = TRUE, !.closed = TRUE]
             \/ UNCHANGED thread
      BY <1>8 DEF Erase, SweepLetters, SweepSession
    <2>3. letter' \in [Letters -> {"unwritten", "outside", "words", "redacted"}] /\ named' \in BOOLEAN
      BY <2>2 DEF HideLetters
    <2>4. read' \in [started : BOOLEAN, redacted : BOOLEAN, answers : [Asked -> Letters \cup {Unread}]]
      BY <2>1, <2>2 DEF EmptySession
    <2>5. excuse' \subseteq {"overtaken", "again", "cut"}
      BY <2>2 DEF Overtaken, Again
    <2>6. thread' \in [handle : BOOLEAN, redacted : BOOLEAN, closed : BOOLEAN, quiet : BOOLEAN]
      BY <2>2
    <2> QED BY <2>2, <2>3, <2>4, <2>5, <2>6
  <1>9. CASE FallQuiet \/ SweepCloses \/ SweepThread \/ SweepDies
    <2>1. thread' \in [handle : BOOLEAN, redacted : BOOLEAN, closed : BOOLEAN, quiet : BOOLEAN]
      BY <1>9 DEF FallQuiet, SweepCloses, SweepThread, SweepDies
    <2> QED BY <1>9, <2>1 DEF FallQuiet, SweepCloses, SweepThread, SweepDies
  <1> QED BY <1>1, <1>2, <1>3, <1>4, <1>5, <1>6, <1>7, <1>8, <1>9 DEF PrivacyStep

-----------------------------------------------------------------------------
\* What the parts of RedactionHolds look at.
LEMMA SameView ==
  ASSUME PrivacyTypeOK, RedactionHolds,
         read' = read, named' = named, extract' = extract, sweep' = sweep, excuse' = excuse,
         thread' = thread, Readable' = Readable
  PROVE  RedactionHolds'
  BY DEF RedactionHolds, Bare, Sweeping, Answered, AtModel, HoldsNothing

\* A job at the model: the thread is not quiet, so no retention run is at work on it.
LEMMA JobMeansBare ==
  ASSUME RedactionHolds, thread.redacted, excuse = {},
         \/ \E m \in Letters : extract[m].step \in {"waiting", "model"}
         \/ sweep \in {"idle", "closed"}
  PROVE  Bare
  BY DEF RedactionHolds, Sweeping

\* Loading a message to read keeps the redaction.
LEMMA LoadHolds ==
  ASSUME PrivacyTypeOK, RedactionHolds, NEW m \in Letters, LoadLetter(m)
  PROVE  RedactionHolds'
  <1>1. /\ extract[m].step = "waiting" /\ extract'[m].step \in {"model", "over"}
        /\ \A k \in Letters \ {m} : extract'[k] = extract[k]
        /\ extract'[m].step = "model" =>
                   /\ read.started /\ extract'[m].answers = read.answers
                   /\ extract'[m].words = (letter[m] = "words") /\ extract'[m].handle = thread.handle
    BY JobSteps
  <1>2. UNCHANGED <<thread, letter, read, named, fetched, sweep, excuse>>
    BY DEF LoadLetter
  <1>3. ~thread.quiet /\ ~thread.quiet'
    BY <1>1, <1>2 DEF RedactionHolds
  <1>4. AtModel' \subseteq AtModel \cup {m}
    BY <1>1 DEF AtModel
  <1>5. ~read'.started => ~Answered' /\ AtModel' = {}
    <2> SUFFICES ASSUME ~read.started PROVE ~Answered' /\ AtModel' = {}
      BY <1>2
    <2>1. ~Answered /\ AtModel = {} /\ extract'[m].step # "model"
      BY <1>1 DEF RedactionHolds
    <2> QED BY <1>2, <1>4, <2>1 DEF Answered, AtModel
  <1>6. ASSUME thread.redacted, excuse = {} PROVE Bare'
    <2>1. Bare /\ ~thread.handle
      BY <1>1, <1>6, JobMeansBare DEF RedactionHolds
    <2>2. ASSUME NEW k \in AtModel' PROVE HoldsNothing(k)'
      <3>1. CASE k = m
        <4>1. extract'[m].answers = read.answers /\ extract'[m].words = FALSE
              /\ extract'[m].handle = FALSE
          <5>1. letter[m] # "words" /\ extract'[m].step = "model"
            BY <2>1, <2>2, <3>1 DEF Bare, Readable, AtModel
          <5>2. thread.handle = FALSE
            BY <2>1 DEF PrivacyTypeOK
          <5> QED BY <1>1, <5>1, <5>2
        <4> QED BY <2>1, <3>1, <4>1 DEF HoldsNothing, Bare, Answered
      <3>2. CASE k # m
        <4>1. k \in AtModel /\ extract'[k] = extract[k]
          BY <1>1, <1>4, <2>2, <3>2 DEF AtModel
        <4> QED BY <2>1, <4>1 DEF HoldsNothing, Bare
      <3> QED BY <3>1, <3>2
    <2> QED BY <1>2, <2>1, <2>2 DEF Bare, Readable, Answered
  <1> QED BY <1>2, <1>3, <1>5, <1>6 DEF RedactionHolds

\* Storing what was read, or failing to read, keeps the redaction.
LEMMA StoreHolds ==
  ASSUME PrivacyTypeOK, RedactionHolds, NEW m \in Letters, StoreReading(m) \/ ReadingFails(m)
  PROVE  RedactionHolds'
  <1>1. /\ extract[m].step = "model" /\ extract'[m].step \in {"waiting", "over"}
        /\ \A k \in Letters \ {m} : extract'[k] = extract[k]
    BY JobSteps
  <1>2. UNCHANGED <<thread, letter, fetched, sweep, excuse>> /\ m \in AtModel
    BY <1>1 DEF StoreReading, ReadingFails, AtModel
  <1>3. ~thread.quiet /\ ~thread.quiet' /\ read.started /\ read'.started
    BY <1>1, <1>2 DEF RedactionHolds, StoreReading, ReadingFails, PrivacyTypeOK
  <1>4. AtModel' \subseteq AtModel /\ \A k \in AtModel' : extract'[k] = extract[k]
    BY <1>1 DEF AtModel
  <1>5. ASSUME thread.redacted, excuse = {} PROVE Bare'
    <2>1. Bare /\ HoldsNothing(m)
      BY <1>1, <1>2, <1>5, JobMeansBare DEF Bare
    <2>2. read'.answers = NoAnswers /\ named' = FALSE
      <3>1. CASE ReadingFails(m)
        BY <2>1, <3>1 DEF ReadingFails, Bare, Answered, PrivacyTypeOK
      <3>2. CASE StoreReading(m)
        <4>1. PICK found \in SUBSET Remaining(extract[m].answers) :
                /\ found # {} => extract[m].words
                /\ LET merged == [q \in Asked |-> IF q \in found THEN m ELSE extract[m].answers[q]] IN
                    read' = [read EXCEPT !.answers = merged] /\ AskQuestions(merged, extract[m].handle)
          BY <3>2 DEF StoreReading
        <4>2. found = {}
          BY <2>1, <4>1 DEF HoldsNothing
        <4>3. [q \in Asked |-> IF q \in found THEN m ELSE extract[m].answers[q]] = NoAnswers
          BY <2>1, <4>2 DEF HoldsNothing, NoAnswers
        <4>4. read' = [read EXCEPT !.answers = NoAnswers] /\ AskQuestions(NoAnswers, extract[m].handle)
          BY <4>1, <4>3
        <4>5. read'.answers = NoAnswers
          BY <4>4 DEF PrivacyTypeOK
        <4>6. named' = FALSE
          <5>1. ~named /\ ~extract[m].handle
            BY <2>1 DEF Bare, HoldsNothing
          <5> QED BY <4>4, <5>1 DEF AskQuestions
        <4> QED BY <4>5, <4>6
      <3> QED BY <3>1, <3>2
    <2> QED BY <1>2, <1>4, <2>1, <2>2 DEF Bare, Readable, Answered, HoldsNothing
  <1> QED BY <1>2, <1>3, <1>5, <1>4, <1>1 DEF RedactionHolds

\* The session: the draft greets by the handle the thread has, and a redacted one has none.
LEMMA SessionHolds ==
  ASSUME PrivacyTypeOK, RedactionHolds, StartSession \/ AskMore
  PROVE  RedactionHolds'
  <1>1. /\ UNCHANGED <<thread, letter, fetched, extract, sweep, excuse>>
        /\ read'.answers = read.answers /\ read'.started /\ read'.redacted = read.redacted
    BY DEF StartSession, AskMore, PrivacyTypeOK
  <1>2. thread.redacted => named' = named
    <2> SUFFICES ASSUME thread.redacted PROVE named' = named
      OBVIOUS
    <2>1. thread.handle = FALSE
      BY DEF RedactionHolds, PrivacyTypeOK
    <2>2. \E answers : named' = (named \/ (Remaining(answers) # {} /\ thread.handle))
      BY DEF StartSession, AskMore, AskQuestions
    <2> QED BY <2>1, <2>2 DEF PrivacyTypeOK
  <1> QED BY <1>1, <1>2
          DEF RedactionHolds, Bare, Sweeping, Answered, AtModel, HoldsNothing, Readable

\* What redaction does to a session leaves no answer in it, unless it was redacted before.
LEMMA EmptiedSession ==
  ASSUME PrivacyTypeOK, RedactionHolds, EmptySession
  PROVE  read.redacted \/ ~Answered'
  <1>1. CASE read.started /\ ~read.redacted
    BY <1>1 DEF EmptySession, Answered, PrivacyTypeOK
  <1>2. CASE ~read.started
    BY <1>2 DEF EmptySession, Answered, RedactionHolds
  <1> QED BY <1>1, <1>2

\* Emptying a session neither starts it nor fills it.
LEMMA StartedStays ==
  ASSUME PrivacyTypeOK, RedactionHolds, EmptySession
  PROVE  ~read'.started => ~read.started /\ ~Answered'
  <1>1. CASE read.started /\ ~read.redacted
    BY <1>1 DEF EmptySession, PrivacyTypeOK
  <1>2. CASE ~(read.started /\ ~read.redacted)
    BY <1>2 DEF EmptySession, Answered, RedactionHolds
  <1> QED BY <1>1, <1>2

\* Erasing a client keeps the redaction of all that went before.
LEMMA EraseHolds ==
  ASSUME PrivacyTypeOK, RedactionHolds, Erase
  PROVE  RedactionHolds'
  <1>1. /\ thread'.quiet = thread.quiet /\ ~thread'.handle
        /\ UNCHANGED <<fetched, extract, sweep>>
        /\ excuse' = excuse \cup Overtaken \cup Again /\ named' = FALSE
    BY DEF Erase, HideLetters, PrivacyTypeOK
  <1>2. Readable' = {}
    BY DEF Erase, HideLetters, Readable
  <1>3. excuse' = {} => AtModel = {} /\ ~read.redacted
    BY <1>1 DEF Overtaken, Again
  <1>4. (read.redacted \/ ~Answered') /\ (~read'.started => ~read.started /\ ~Answered')
    BY EmptiedSession, StartedStays DEF Erase
  <1>5. AtModel' = AtModel
    BY <1>1 DEF AtModel
  <1>6. excuse' = {} => Bare'
    BY <1>1, <1>2, <1>3, <1>4, <1>5 DEF Bare
  <1> QED BY <1>1, <1>4, <1>5, <1>6 DEF RedactionHolds

\* Each step of the sweep keeps the redaction, a sweep that dies included.
LEMMA SweepHolds ==
  ASSUME PrivacyTypeOK, RedactionHolds,
         SweepCloses \/ SweepThread \/ SweepLetters \/ SweepSession \/ SweepDies
  PROVE  RedactionHolds'
  <1>1. extract' = extract /\ AtModel' = AtModel
    BY DEF SweepCloses, SweepThread, SweepLetters, SweepSession, SweepDies, AtModel
  <1>2. CASE SweepCloses
    BY <1>1, <1>2 DEF SweepCloses, RedactionHolds, Answered, PrivacyTypeOK
  <1>3. CASE SweepThread
    <2>1. CASE thread.quiet /\ thread.closed /\ ~thread.redacted
      BY <1>1, <1>3, <2>1 DEF SweepThread, RedactionHolds, Answered, PrivacyTypeOK, Sweeping
    <2>2. CASE ~(thread.quiet /\ thread.closed /\ ~thread.redacted)
      <3>1. UNCHANGED <<thread, letter, read, named, excuse>>
        BY <1>3, <2>2 DEF SweepThread
      <3>2. thread.redacted /\ excuse = {} => Bare
        BY <1>3, JobMeansBare DEF SweepThread
      <3>3. Bare' <=> Bare
        BY <1>1, <3>1 DEF Bare, Readable, Answered, HoldsNothing
      <3> QED BY <1>1, <3>1, <3>2, <3>3 DEF RedactionHolds, Answered
    <2> QED BY <2>1, <2>2
  <1>4. CASE SweepLetters
    <2>1. /\ Readable' = {} /\ named' = FALSE /\ sweep' = "hidden" /\ sweep = "marked"
          /\ UNCHANGED <<thread, read, excuse>>
      BY <1>4 DEF SweepLetters, HideLetters, Readable
    <2>2. Bare => Bare'
      BY <1>1, <2>1 DEF Bare, Answered, HoldsNothing
    <2>3. Sweeping => Sweeping'
      BY <2>1 DEF Sweeping
    <2> QED BY <1>1, <2>1, <2>2, <2>3 DEF RedactionHolds, Answered
  <1>5. CASE SweepSession
    <2>1. /\ sweep = "hidden" /\ UNCHANGED <<thread, letter, named>>
          /\ excuse' = excuse \cup Overtaken \cup Again
      BY <1>5 DEF SweepSession
    <2>2. excuse' = {} => AtModel = {} /\ ~read.redacted /\ excuse = {}
      BY <2>1 DEF Overtaken, Again
    <2>3. (read.redacted \/ ~Answered') /\ (~read'.started => ~read.started /\ ~Answered')
      BY <1>5, EmptiedSession, StartedStays DEF SweepSession
    <2>4. thread.redacted /\ excuse = {} => Readable = {} /\ ~named
      BY <2>1 DEF RedactionHolds, Bare, Sweeping
    <2>5. thread.redacted /\ excuse' = {} => Bare'
      BY <1>1, <2>1, <2>2, <2>3, <2>4 DEF Bare, Readable
    <2> QED BY <1>1, <2>1, <2>3, <2>5 DEF RedactionHolds
  <1>6. CASE SweepDies
    <2>1. UNCHANGED <<thread, letter, read, named>>
      BY <1>6 DEF SweepDies
    <2>2. excuse' = {} => sweep = "closed" /\ excuse = {}
      BY <1>6 DEF SweepDies
    <2>3. thread.redacted /\ excuse' = {} => Bare
      BY <2>2, JobMeansBare
    <2>4. Bare' <=> Bare
      BY <1>1, <2>1 DEF Bare, Readable, Answered, HoldsNothing
    <2> QED BY <1>1, <2>1, <2>3, <2>4 DEF RedactionHolds, Answered
  <1> QED BY <1>2, <1>3, <1>4, <1>5, <1>6

\* Messages that arrive, and threads that fall quiet, keep the redaction.
LEMMA LettersHold ==
  ASSUME PrivacyTypeOK, RedactionHolds,
         \/ \E m \in Letters : WriteLetter(m)
         \/ Fetch \/ FetchFails \/ KeepLetters \/ FallQuiet
  PROVE  RedactionHolds'
  <1>1. CASE \E m \in Letters : WriteLetter(m)
    <2>1. Readable' = Readable
      BY <1>1 DEF WriteLetter, Readable, PrivacyTypeOK
    <2> QED BY <1>1, <2>1, SameView DEF WriteLetter
  <1>2. CASE Fetch \/ FetchFails
    <2>1. Readable' = Readable
      BY <1>2 DEF Fetch, FetchFails, Readable
    <2> QED BY <1>2, <2>1, SameView DEF Fetch, FetchFails
  <1>3. CASE KeepLetters /\ New = {}
    <2>1. UNCHANGED <<read, named, sweep, excuse>>
      BY <1>3 DEF KeepLetters
    <2>2. \A m \in Letters : letter'[m] = letter[m] /\ extract'[m] = extract[m]
      BY <1>3 DEF KeepLetters
    <2>3. thread' = [thread EXCEPT !.handle = ~thread.redacted]
      BY <1>3 DEF KeepLetters
    <2>4. /\ thread'.redacted = thread.redacted /\ thread'.quiet = thread.quiet
          /\ thread.redacted => ~thread'.handle
      BY <2>3 DEF PrivacyTypeOK
    <2>5. Readable' = Readable /\ AtModel' = AtModel
      BY <2>2 DEF Readable, AtModel
    <2> QED BY <2>1, <2>2, <2>4, <2>5
            DEF RedactionHolds, Bare, Sweeping, Answered, HoldsNothing, AtModel
  <1>4. CASE KeepLetters /\ New # {}
    <2>1. /\ ~thread'.redacted /\ ~thread'.quiet /\ read' = read
      BY <1>4 DEF KeepLetters
    <2>2. AtModel' \subseteq AtModel
      BY <1>4 DEF KeepLetters, AtModel, NoJob
    <2> QED BY <2>1, <2>2 DEF RedactionHolds, Answered
  <1>5. CASE FallQuiet
    <2>1. /\ thread'.redacted = thread.redacted /\ thread'.handle = thread.handle /\ thread'.quiet
          /\ UNCHANGED <<letter, read, named, extract, sweep, excuse>>
          /\ \A m \in Letters : extract[m].step \notin {"waiting", "model"}
      BY <1>5 DEF FallQuiet, PrivacyTypeOK
    <2>2. Bare' <=> Bare
      BY <2>1 DEF Bare, Readable, Answered, HoldsNothing, AtModel
    <2>3. Sweeping => Sweeping'
      BY <2>1 DEF Sweeping, Readable
    <2> QED BY <2>1, <2>2, <2>3 DEF RedactionHolds, Answered, AtModel
  <1> QED BY <1>1, <1>2, <1>3, <1>4, <1>5

\* Every step keeps the invariant.
LEMMA NextPrivacy == PrivacyInv /\ [PrivacyNext]_privacyVars => PrivacyInv'
  <1> SUFFICES ASSUME PrivacyInv, [PrivacyNext]_privacyVars PROVE PrivacyInv'
    OBVIOUS
  <1>1. PrivacyTypeOK /\ RedactionHolds
    BY DEF PrivacyInv
  <1>2. CASE PrivacyNext
    <2>1. PrivacyStep
      BY <1>2 DEF PrivacyNext, PrivacyStep
    <2>2. PrivacyTypeOK'
      BY <1>1, <2>1, PrivacyTypes
    <2>3. RedactionHolds'
      BY <1>1, <2>1, LettersHold, LoadHolds, StoreHolds, SessionHolds, EraseHolds, SweepHolds
         DEF PrivacyStep
    <2> QED BY <2>2, <2>3 DEF PrivacyInv, NothingKeptOfClient, RedactionHolds, Bare, Sweeping
  <1>3. CASE UNCHANGED privacyVars
    BY <1>3 DEF privacyVars, PrivacyInv, PrivacyTypeOK, RedactionHolds, NothingKeptOfClient, Bare,
                Sweeping, Readable, Answered, AtModel, HoldsNothing
  <1> QED BY <1>2, <1>3

\* A redacted thread keeps nothing of the client, the known exceptions apart, for any
\* number of messages and questions.
THEOREM RedactedMeansGone == PrivacySpec => []NothingKeptOfClient
  <1>1. PrivacyInv => NothingKeptOfClient
    BY DEF PrivacyInv
  <1> QED BY InitPrivacy, NextPrivacy, <1>1, PTL DEF PrivacySpec

-----------------------------------------------------------------------------
\* The radar (Radar).
TabStates == [open : BOOLEAN, log : Seq(Entry), token : SavedTokens]
PlacingStates ==
  [step : {"idle", "confirm", "find", "create"}, project : Feed, token : Tokens \cup {NoToken}]
CheckingStates ==
  [step : {"idle", "asked"}, token : Tokens \cup {NoToken}, pasted : BOOLEAN]
SentBids == [project : Feed, by : {"page", "hand"}]

\* The type invariant, one variable to a line.
LEMMA RadarTypes ==
  RadarTypeOK <=>
  /\ kept \in [log : Seq(Entry), token : SavedTokens]
  /\ tab \in [Tabs -> TabStates]
  /\ placing \in [Tabs -> PlacingStates]
  /\ checking \in [Tabs -> CheckingStates]
  /\ sent \in Seq(SentBids) /\ Len(sent) <= MaxSent
  /\ transit \subseteq Feed /\ accepted \subseteq Tokens
  /\ tries \in 0..MaxTries /\ heard \subseteq 1..MaxSent /\ owners \in Tokens \cup {NoToken}
  /\ overwrote \subseteq {"log", "token"} /\ raced \subseteq Feed
  BY DEF RadarTypeOK, TabStates, PlacingStates, CheckingStates, SentBids

\* Primed variables that are typed each make the type invariant hold next.
LEMMA TypesNext ==
  ASSUME kept' \in [log : Seq(Entry), token : SavedTokens],
         tab' \in [Tabs -> TabStates],
         placing' \in [Tabs -> PlacingStates],
         checking' \in [Tabs -> CheckingStates],
         sent' \in Seq(SentBids), Len(sent') <= MaxSent,
         transit' \subseteq Feed, accepted' \subseteq Tokens,
         tries' \in 0..MaxTries, heard' \subseteq 1..MaxSent, owners' \in Tokens \cup {NoToken},
         overwrote' \subseteq {"log", "token"}, raced' \subseteq Feed
  PROVE  RadarTypeOK'
  BY DEF RadarTypeOK, TabStates, PlacingStates, CheckingStates, SentBids

\* What a tab holds at rest is typed.
LEMMA RestStates ==
  /\ AtRest \in PlacingStates /\ AtRest.step = "idle"
  /\ Unchecked \in CheckingStates /\ Unchecked.step = "idle"
  /\ Nothing \in SavedTokens /\ Nothing.token = NoToken
  /\ <<>> \in Seq(Entry) /\ <<>> \in Seq(SentBids)
  /\ Closed \in TabStates /\ ~Closed.open /\ Closed.token = Nothing
  <1>1. (CHOOSE p \in Feed : TRUE) \in Feed
    BY RadarAssumption
  <1>2. Nothing \in SavedTokens /\ Nothing.token = NoToken
    BY DEF Nothing, Saved, SavedTokens
  <1>3. <<>> \in Seq(Entry) /\ <<>> \in Seq(SentBids)
    BY EmptySeq
  <1> QED BY <1>1, <1>2, <1>3
          DEF AtRest, PlacingStates, Unchecked, CheckingStates, Closed, TabStates

\* The radar as it first loads satisfies the invariant.
LEMMA InitRadar == RadarInit => RadarInv
  <1> SUFFICES ASSUME RadarInit PROVE RadarInv
    OBVIOUS
  <1>1. PICK k \in Tokens \cup {NoToken} : kept = [log |-> <<>>, token |-> Saved(k, FALSE)]
    BY DEF RadarInit
  <1>2. kept \in [log : Seq(Entry), token : SavedTokens] /\ kept.token.token = k
    BY <1>1, RestStates DEF Saved, SavedTokens
  <1>3. RadarTypeOK
    <2>1. Len(sent) = 0
      BY DEF RadarInit
    <2>2. /\ sent \in Seq(SentBids) /\ Len(sent) <= MaxSent /\ transit = {} /\ accepted = Tokens
          /\ tries \in 0..MaxTries /\ heard = {} /\ overwrote = {} /\ raced = {}
          /\ owners = kept.token.token
      BY <2>1, RestStates, RadarAssumption DEF RadarInit
    <2>3. /\ tab \in [Tabs -> TabStates] /\ placing \in [Tabs -> PlacingStates]
          /\ checking \in [Tabs -> CheckingStates]
      BY RestStates DEF RadarInit
    <2> QED BY <1>2, <2>2, <2>3, RadarTypes
  <1>4. OneRequest /\ PageBidsOnce
    BY RestStates DEF RadarInit, OneRequest, PageBidsOnce, ByPage, SentOn, Creating
  <1>5. ChecksOwnToken
    BY RestStates DEF RadarInit, ChecksOwnToken
  <1>6. StorageIsCurrent
    BY <1>2 DEF RadarInit, StorageIsCurrent, HeardBidIsLogged, TokenIsOwners
  <1> QED BY <1>3, <1>4, <1>5, <1>6 DEF RadarInv

\* The next-state relation, an action to a disjunct.
RadarStep ==
  \/ \E t \in Tabs : OpenTab(t)
  \/ \E t \in Tabs : CloseTab(t)
  \/ \E t \in Tabs : UpdateBid(t)
  \/ \E t \in Tabs : Import(t)
  \/ \E t \in Tabs, p \in Feed : LogByHand(t, p)
  \/ \E t \in Tabs, p \in Feed : PressPlace(t, p)
  \/ \E t \in Tabs : Confirm(t)
  \/ \E t \in Tabs : FindNothing(t)
  \/ \E t \in Tabs : FindEarlier(t)
  \/ \E t \in Tabs : CreateBid(t)
  \/ \E t \in Tabs : NoAnswer(t)
  \/ \E t \in Tabs : Denied(t)
  \/ \E t \in Tabs : TokenAccepted(t)
  \/ \E t \in Tabs : TokenNotAccepted(t)
  \/ \E t \in Tabs : TokenNotChecked(t)
  \/ \E t \in Tabs, k \in Tokens, pasted \in BOOLEAN : AskWhose(t, k, pasted)
  \/ \E t \in Tabs : RemoveToken(t)
  \/ \E p \in Feed : Arrive(p)
  \/ \E p \in Feed : OwnerBids(p)
  \/ \E k \in Tokens : Revoke(k)

\* Every action is one of the steps told apart in these proofs.
LEMMA RadarSteps == RadarNext => RadarStep
  BY DEF RadarNext, RadarStep

-----------------------------------------------------------------------------
\* What the shared parts of the actions do.
LEMMA Kept ==
  ASSUME RadarTypeOK, NEW t \in Tabs, NEW log \in Seq(Entry), Keep(t, log)
  PROVE  /\ tab' \in [Tabs -> TabStates] /\ kept' \in [log : Seq(Entry), token : SavedTokens]
         /\ overwrote' \subseteq {"log", "token"}
         /\ kept'.log = log /\ kept'.token = kept.token
         /\ \A u \in Tabs : tab'[u].open = tab[u].open /\ tab'[u].token = tab[u].token
         /\ "log" \notin overwrote' => "log" \notin overwrote /\ tab[t].log = kept.log
         /\ "token" \notin overwrote' => "token" \notin overwrote
  <1>1. /\ tab' = [tab EXCEPT ![t].log = log] /\ kept' = [kept EXCEPT !.log = log]
        /\ overwrote' = IF tab[t].log = kept.log THEN overwrote ELSE overwrote \cup {"log"}
    BY DEF Keep
  <1>2. tab \in [Tabs -> TabStates] /\ kept \in [log : Seq(Entry), token : SavedTokens]
        /\ overwrote \subseteq {"log", "token"}
    BY RadarTypes
  <1>3. tab' \in [Tabs -> TabStates]
        /\ \A u \in Tabs : tab'[u].open = tab[u].open /\ tab'[u].token = tab[u].token
    BY <1>1, <1>2 DEF TabStates
  <1>4. kept' \in [log : Seq(Entry), token : SavedTokens] /\ kept'.log = log
        /\ kept'.token = kept.token
    BY <1>1, <1>2
  <1> QED BY <1>1, <1>2, <1>3, <1>4

\* Keeping a token in the browser leaves the log alone and the types as they
\* are.
LEMMA TokenKept ==
  ASSUME RadarTypeOK, NEW t \in Tabs, NEW saved \in SavedTokens, KeepToken(t, saved)
  PROVE  /\ tab' \in [Tabs -> TabStates] /\ kept' \in [log : Seq(Entry), token : SavedTokens]
         /\ kept'.log = kept.log /\ kept'.token = saved
         /\ \A u \in Tabs : tab'[u].open = tab[u].open
         /\ \A u \in Tabs \ {t} : tab'[u].token = tab[u].token
         /\ tab'[t].token = saved
  BY RadarTypes DEF KeepToken, TabStates

\* What a tab has not seen written is the log, the token, or both.
LEMMA UnseenTypes ==
  ASSUME RadarTypeOK, NEW t \in Tabs
  PROVE  /\ Unseen(t) \subseteq {"log", "token"} /\ overwrote \subseteq Unseen(t)
         /\ "log" \in Unseen(t) <=> "log" \in overwrote
         /\ "token" \notin Unseen(t) =>
              "token" \notin overwrote /\ tab[t].token.token = kept.token.token
  BY DEF RadarTypeOK, Unseen

\* Giving up a token puts a tab and its requests at rest.
LEMMA GivenUp ==
  ASSUME RadarTypeOK, NEW t \in Tabs, GiveUp(t)
  PROVE  /\ placing' \in [Tabs -> PlacingStates] /\ checking' \in [Tabs -> CheckingStates]
         /\ transit' \subseteq Feed
         /\ placing'[t].step = "idle" /\ \A u \in Tabs \ {t} : placing'[u] = placing[u]
         /\ checking'[t].step = "idle" /\ \A u \in Tabs \ {t} : checking'[u] = checking[u]
         /\ \A p \in transit' \ transit : placing[t].step = "create" /\ placing[t].project = p
         /\ transit \subseteq transit'
  <1>1. placing \in [Tabs -> PlacingStates] /\ checking \in [Tabs -> CheckingStates]
        /\ transit \subseteq Feed
    BY RadarTypes
  <1>2. placing' = [placing EXCEPT ![t] = AtRest] /\ checking' = [checking EXCEPT ![t] = Unchecked]
    BY DEF GiveUp
  <1>3. transit' = transit \/ (placing[t].step = "create" /\ transit' = transit \cup {placing[t].project})
    BY DEF GiveUp
  <1>4. placing[t].project \in Feed
    BY <1>1 DEF PlacingStates
  <1>5. placing'[t] = AtRest /\ checking'[t] = Unchecked
    BY <1>1, <1>2
  <1>6. placing' \in [Tabs -> PlacingStates] /\ checking' \in [Tabs -> CheckingStates]
    BY <1>1, <1>2, RestStates
  <1>7. /\ \A u \in Tabs \ {t} : placing'[u] = placing[u] /\ checking'[u] = checking[u]
    BY <1>1, <1>2
  <1> QED BY <1>1, <1>3, <1>4, <1>5, <1>6, <1>7, RestStates

\* An order that is over leaves its tab at rest and the others alone.
LEMMA IsOver ==
  ASSUME RadarTypeOK, NEW t \in Tabs, Over(t)
  PROVE  /\ placing' \in [Tabs -> PlacingStates]
         /\ placing'[t].step = "idle" /\ \A u \in Tabs \ {t} : placing'[u] = placing[u]
  <1>1. placing \in [Tabs -> PlacingStates] /\ placing' = [placing EXCEPT ![t] = AtRest]
    BY RadarTypes DEF Over
  <1> QED BY <1>1, RestStates

\* A check that is over leaves its tab at rest and the others alone.
LEMMA IsChecked ==
  ASSUME RadarTypeOK, NEW t \in Tabs, Checked(t)
  PROVE  /\ checking' \in [Tabs -> CheckingStates]
         /\ checking'[t].step = "idle" /\ \A u \in Tabs \ {t} : checking'[u] = checking[u]
  <1>1. checking \in [Tabs -> CheckingStates] /\ checking' = [checking EXCEPT ![t] = Unchecked]
    BY RadarTypes DEF Checked
  <1> QED BY <1>1, RestStates

\* A bid that reaches the marketplace is added after those sent before.
LEMMA Reached ==
  ASSUME RadarTypeOK, NEW p \in Feed, NEW by \in {"page", "hand"}, Reach(p, by)
  PROVE  /\ sent' \in Seq(SentBids) /\ Len(sent') = Len(sent) + 1 /\ Len(sent') \in 1..MaxSent
         /\ \A i \in DOMAIN sent : sent'[i] = sent[i]
         /\ DOMAIN sent' = DOMAIN sent \cup {Len(sent')} /\ Len(sent') \notin DOMAIN sent
         /\ sent'[Len(sent')].project = p /\ sent'[Len(sent')].by = by
  <1>1. sent \in Seq(SentBids) /\ Len(sent) < MaxSent
    BY RadarTypes DEF Reach
  <1>2. sent' = Append(sent, [project |-> p, by |-> by]) /\ [project |-> p, by |-> by] \in SentBids
    BY DEF Reach, SentBids
  <1> QED BY <1>1, <1>2, RadarAssumption

\* A log with an entry more: the entry, and all that was there.
LEMMA Prepended ==
  ASSUME NEW log \in Seq(Entry), NEW e \in Entry
  PROVE  /\ <<e>> \o log \in Seq(Entry)
         /\ \E i \in DOMAIN (<<e>> \o log) : (<<e>> \o log)[i] = e
         /\ \A j \in DOMAIN log : \E i \in DOMAIN (<<e>> \o log) : (<<e>> \o log)[i] = log[j]
  <1> DEFINE s == <<e>> \o log
  <1>1. <<e>> \in Seq(Entry) /\ Len(<<e>>) = 1 /\ <<e>>[1] = e
    OBVIOUS
  <1>2. /\ s \in Seq(Entry) /\ Len(s) = 1 + Len(log)
        /\ \A i \in 1 .. 1 + Len(log) : s[i] = IF i <= 1 THEN <<e>>[i] ELSE log[i - 1]
    BY <1>1, ConcatProperties
  <1>3. Len(log) \in Nat /\ DOMAIN log = 1..Len(log) /\ DOMAIN s = 1..(1 + Len(log))
    BY <1>2, LenProperties
  <1> HIDE DEF s
  <1>4. s[1] = e /\ 1 \in DOMAIN s
    BY <1>1, <1>2, <1>3
  <1>5. ASSUME NEW j \in DOMAIN log PROVE s[j + 1] = log[j] /\ j + 1 \in DOMAIN s
    BY <1>2, <1>3
  <1>6. \A j \in DOMAIN log : \E i \in DOMAIN s : s[i] = log[j]
    BY <1>5
  <1> QED BY <1>2, <1>4, <1>6 DEF s

\* An entry added to the log keeps the types.
LEMMA EntryAdded ==
  ASSUME RadarTypeOK, NEW t \in Tabs, NEW p \in Feed, NEW nth \in 0..MaxSent, AddEntry(t, p, nth)
  PROVE  /\ tab' \in [Tabs -> TabStates] /\ kept' \in [log : Seq(Entry), token : SavedTokens]
         /\ overwrote' \subseteq {"log", "token"}
         /\ kept'.token = kept.token
         /\ \A u \in Tabs : tab'[u].open = tab[u].open /\ tab'[u].token = tab[u].token
         /\ \E i \in DOMAIN kept'.log : kept'.log[i].bid = nth
         /\ "log" \notin overwrote' =>
              /\ "log" \notin overwrote
              /\ \A j \in DOMAIN kept.log : \E i \in DOMAIN kept'.log : kept'.log[i].bid = kept.log[j].bid
         /\ "token" \notin overwrote' => "token" \notin overwrote
  <1> DEFINE e == [project |-> p, bid |-> nth]
  <1>1. e \in Entry /\ tab[t].log \in Seq(Entry) /\ e.bid = nth
    BY DEF Entry, RadarTypeOK
  <1> HIDE DEF e
  <1> DEFINE log == <<e>> \o tab[t].log
  <1>2. /\ log \in Seq(Entry) /\ \E i \in DOMAIN log : log[i] = e
        /\ \A j \in DOMAIN tab[t].log : \E i \in DOMAIN log : log[i] = tab[t].log[j]
    BY <1>1, Prepended
  <1>3. Keep(t, log)
    BY DEF AddEntry, e
  <1> HIDE DEF log
  <1>4. /\ tab' \in [Tabs -> TabStates] /\ kept' \in [log : Seq(Entry), token : SavedTokens]
        /\ overwrote' \subseteq {"log", "token"}
        /\ kept'.log = log /\ kept'.token = kept.token
        /\ \A u \in Tabs : tab'[u].open = tab[u].open /\ tab'[u].token = tab[u].token
        /\ "log" \notin overwrote' => "log" \notin overwrote /\ tab[t].log = kept.log
        /\ "token" \notin overwrote' => "token" \notin overwrote
    BY <1>2, <1>3, Kept
  <1>5. \E i \in DOMAIN kept'.log : kept'.log[i].bid = nth
    BY <1>1, <1>2, <1>4
  <1>6. "log" \notin overwrote' => "log" \notin overwrote /\ tab[t].log = kept.log
    BY <1>4
  <1>7. kept'.log = log
    BY <1>4
  <1>8. ASSUME tab[t].log = kept.log, NEW j \in DOMAIN kept.log
        PROVE  \E i \in DOMAIN kept'.log : kept'.log[i].bid = kept.log[j].bid
    <2>1. PICK i \in DOMAIN log : log[i] = kept.log[j]
      BY <1>2, <1>8
    <2> QED BY <1>7, <2>1
  <1>9. /\ kept'.token = kept.token
        /\ \A u \in Tabs : tab'[u].open = tab[u].open /\ tab'[u].token = tab[u].token
        /\ "token" \notin overwrote' => "token" \notin overwrote
    BY <1>4
  <1>10. "log" \notin overwrote' => /\ "log" \notin overwrote
              /\ \A j \in DOMAIN kept.log : \E i \in DOMAIN kept'.log : kept'.log[i].bid = kept.log[j].bid
    BY <1>6, <1>8
  <1> QED BY <1>4, <1>5, <1>9, <1>10

-----------------------------------------------------------------------------
\* Every step of the radar keeps the types.
LEMMA StepTypes ==
  ASSUME RadarTypeOK, RadarStep
  PROVE  RadarTypeOK'
  <1>1. /\ kept \in [log : Seq(Entry), token : SavedTokens]
        /\ tab \in [Tabs -> TabStates] /\ placing \in [Tabs -> PlacingStates]
        /\ checking \in [Tabs -> CheckingStates]
        /\ sent \in Seq(SentBids) /\ Len(sent) <= MaxSent
        /\ transit \subseteq Feed /\ accepted \subseteq Tokens
        /\ tries \in 0..MaxTries /\ heard \subseteq 1..MaxSent /\ owners \in Tokens \cup {NoToken}
        /\ overwrote \subseteq {"log", "token"} /\ raced \subseteq Feed
    BY RadarTypes
  <1>2. \A t \in Tabs : /\ placing[t].project \in Feed /\ tab[t].log \in Seq(Entry)
                        /\ tab[t].token \in SavedTokens /\ checking[t].token \in Tokens \cup {NoToken}
                        /\ [tab[t].token EXCEPT !.problem = TRUE] \in SavedTokens
    <2>1. ASSUME NEW t \in Tabs
          PROVE  /\ placing[t].project \in Feed /\ tab[t].log \in Seq(Entry)
                 /\ tab[t].token \in SavedTokens /\ checking[t].token \in Tokens \cup {NoToken}
      BY <1>1 DEF PlacingStates, TabStates, CheckingStates
    <2>2. \A k \in SavedTokens : [k EXCEPT !.problem = TRUE] \in SavedTokens
      BY DEF SavedTokens
    <2> QED BY <2>1, <2>2
  <1>3. \A k \in Tokens \cup {NoToken}, p \in BOOLEAN : Saved(k, p) \in SavedTokens
    BY DEF Saved, SavedTokens
  <1>4. CASE \E t \in Tabs : OpenTab(t)
    <2>1. PICK t \in Tabs : OpenTab(t)
      BY <1>4
    <2>2. [open |-> TRUE, log |-> kept.log, token |-> kept.token] \in TabStates
      BY <1>1 DEF TabStates
    <2>3. tab' \in [Tabs -> TabStates]
      BY <1>1, <2>1, <2>2 DEF OpenTab
    <2> QED BY <1>1, <2>1, <2>3, TypesNext DEF OpenTab, siteVars, pastVars
  <1>5. CASE \E t \in Tabs : CloseTab(t)
    <2>1. PICK t \in Tabs : CloseTab(t)
      BY <1>5
    <2>2. tab' \in [Tabs -> TabStates]
      BY <1>1, <2>1, RestStates DEF CloseTab
    <2>3. /\ placing' \in [Tabs -> PlacingStates] /\ checking' \in [Tabs -> CheckingStates]
          /\ transit' \subseteq Feed
      BY <2>1, GivenUp DEF CloseTab
    <2> QED BY <1>1, <2>1, <2>2, <2>3, TypesNext DEF CloseTab, pastVars
  <1>6. CASE \E t \in Tabs : UpdateBid(t)
    <2>1. PICK t \in Tabs : UpdateBid(t)
      BY <1>6
    <2>2. /\ tab' \in [Tabs -> TabStates] /\ kept' \in [log : Seq(Entry), token : SavedTokens]
          /\ overwrote' \subseteq {"log", "token"}
      BY <1>2, <2>1, Kept DEF UpdateBid
    <2> QED BY <1>1, <2>1, <2>2, TypesNext DEF UpdateBid, siteVars
  <1>7. CASE \E t \in Tabs : Import(t)
    <2>1. PICK t \in Tabs : Import(t)
      BY <1>7
    <2>2. PICK n \in 1..Len(kept.log) :
            LET prior == SubSeq(kept.log, n + 1, Len(kept.log)) IN
              /\ kept' = [kept EXCEPT !.log = prior]
              /\ tab' = [tab EXCEPT ![t].log = prior, ![t].token = kept.token]
      BY <2>1 DEF Import
    <2> DEFINE prior == SubSeq(kept.log, n + 1, Len(kept.log))
    <2>3. prior \in Seq(Entry)
      <3>1. kept.log \in Seq(Entry) /\ Len(kept.log) \in Nat
        BY <1>1
      <3>2. \A i \in n + 1 .. Len(kept.log) : kept.log[i] \in Entry
        BY <3>1, ElementOfSeq
      <3> QED BY <3>1, <3>2, SubSeqProperties
    <2>4. kept' = [kept EXCEPT !.log = prior]
          /\ tab' = [tab EXCEPT ![t].log = prior, ![t].token = kept.token]
      BY <2>2
    <2> HIDE DEF prior
    <2>5. kept' \in [log : Seq(Entry), token : SavedTokens] /\ tab' \in [Tabs -> TabStates]
      BY <1>1, <2>3, <2>4 DEF TabStates
    <2>6. heard' \subseteq heard
      BY <2>1 DEF Import
    <2>7. /\ placing' \in [Tabs -> PlacingStates] /\ checking' \in [Tabs -> CheckingStates]
          /\ transit' \subseteq Feed
      BY <2>1, GivenUp DEF Import
    <2>8. UNCHANGED <<sent, accepted, tries, owners, overwrote, raced>>
      BY <2>1 DEF Import
    <2> QED BY <1>1, <2>5, <2>6, <2>7, <2>8, TypesNext
  <1>8. CASE \E t \in Tabs, p \in Feed : LogByHand(t, p)
    <2>1. PICK t \in Tabs, p \in Feed : LogByHand(t, p)
      BY <1>8
    <2>2. /\ tab' \in [Tabs -> TabStates] /\ kept' \in [log : Seq(Entry), token : SavedTokens]
          /\ overwrote' \subseteq {"log", "token"}
      BY <2>1, EntryAdded, RadarAssumption DEF LogByHand
    <2> QED BY <1>1, <2>1, <2>2, TypesNext DEF LogByHand, siteVars
  <1>9. CASE \E t \in Tabs, p \in Feed : PressPlace(t, p)
    <2>1. PICK t \in Tabs, p \in Feed : PressPlace(t, p)
      BY <1>9
    <2>2. placing' \in [Tabs -> PlacingStates]
      BY <1>1, <1>2, <2>1 DEF PressPlace, PlacingStates, SavedTokens
    <2> QED BY <1>1, <2>1, <2>2, TypesNext, RadarAssumption DEF PressPlace, Begin, siteVars, pastVars
  <1>10. CASE \E t \in Tabs : Confirm(t)
    <2>1. PICK t \in Tabs : Confirm(t)
      BY <1>10
    <2>2. placing' \in [Tabs -> PlacingStates]
      <3>1. CASE placing' = [placing EXCEPT ![t].step = "find"]
        BY <1>1, <3>1 DEF PlacingStates
      <3>2. CASE placing' = [placing EXCEPT ![t] = AtRest]
        BY <1>1, <3>2, RestStates
      <3> QED BY <2>1, <3>1, <3>2 DEF Confirm
    <2> QED BY <1>1, <2>1, <2>2, TypesNext DEF Confirm, siteVars, pastVars
  <1>11. CASE \E t \in Tabs : FindNothing(t)
    <2>1. PICK t \in Tabs : FindNothing(t)
      BY <1>11
    <2>2. placing' \in [Tabs -> PlacingStates] /\ raced' \subseteq Feed
      BY <1>1, <1>2, <2>1 DEF FindNothing, PlacingStates
    <2> QED BY <1>1, <2>1, <2>2, TypesNext DEF FindNothing, siteVars
  <1>12. CASE \E t \in Tabs : FindEarlier(t)
    <2>1. PICK t \in Tabs : FindEarlier(t)
      BY <1>12
    <2>2. PICK i \in SentOn(placing[t].project) :
            AddEntry(t, placing[t].project, i) /\ heard' = heard \cup {i}
      BY <2>1 DEF FindEarlier
    <2>3. i \in 1..MaxSent
      <3>1. i \in DOMAIN sent /\ DOMAIN sent = 1..Len(sent)
        BY <1>1, LenProperties DEF SentOn
      <3> QED BY <1>1, <3>1, RadarAssumption
    <2>4. /\ tab' \in [Tabs -> TabStates] /\ kept' \in [log : Seq(Entry), token : SavedTokens]
          /\ overwrote' \subseteq {"log", "token"}
      <3>1. i \in 0..MaxSent
        BY <2>3, RadarAssumption
      <3>2. placing[t].project \in Feed
        BY <1>2
      <3> QED BY <2>2, <3>1, <3>2, EntryAdded
    <2>5. placing' \in [Tabs -> PlacingStates]
      BY <2>1, IsOver DEF FindEarlier
    <2>6. UNCHANGED <<checking, siteVars, tries, owners, raced>>
      BY <2>1 DEF FindEarlier
    <2> QED BY <1>1, <2>2, <2>3, <2>4, <2>5, <2>6, TypesNext DEF siteVars
  <1>13. CASE \E t \in Tabs : CreateBid(t)
    <2>1. PICK t \in Tabs : CreateBid(t)
      BY <1>13
    <2>2. /\ Reach(placing[t].project, "page") /\ AddEntry(t, placing[t].project, Len(sent'))
          /\ heard' = heard \cup {Len(sent')} /\ Over(t)
          /\ UNCHANGED <<checking, transit, accepted, tries, owners, raced>>
      BY <2>1 DEF CreateBid
    <2>3. sent' \in Seq(SentBids) /\ Len(sent') \in 1..MaxSent
      BY <1>2, <2>2, Reached
    <2>4. /\ tab' \in [Tabs -> TabStates] /\ kept' \in [log : Seq(Entry), token : SavedTokens]
          /\ overwrote' \subseteq {"log", "token"}
      <3>1. Len(sent') \in 0..MaxSent
        BY <2>3, RadarAssumption
      <3>2. placing[t].project \in Feed
        BY <1>2
      <3> QED BY <2>2, <3>1, <3>2, EntryAdded
    <2>5. placing' \in [Tabs -> PlacingStates]
      BY <2>2, IsOver
    <2>6. Len(sent') <= MaxSent /\ heard' \subseteq 1..MaxSent
      <3>1. Len(sent') <= MaxSent
        BY <2>3, RadarAssumption
      <3>2. heard' \subseteq 1..MaxSent
        BY <1>1, <2>2, <2>3
      <3> QED BY <3>1, <3>2
    <2> QED BY <1>1, <2>2, <2>3, <2>4, <2>5, <2>6, TypesNext
  <1>14. CASE \E t \in Tabs : NoAnswer(t)
    <2>1. PICK t \in Tabs : NoAnswer(t)
      BY <1>14
    <2>2. placing' \in [Tabs -> PlacingStates]
      BY <2>1, IsOver DEF NoAnswer
    <2>3. \/ UNCHANGED <<sent, transit>>
          \/ Reach(placing[t].project, "page") /\ UNCHANGED transit
          \/ transit' = transit \cup {placing[t].project} /\ UNCHANGED sent
      BY <2>1 DEF NoAnswer
    <2>4. sent' \in Seq(SentBids) /\ Len(sent') <= MaxSent /\ transit' \subseteq Feed
      <3>1. CASE Reach(placing[t].project, "page") /\ UNCHANGED transit
        <4>1. sent' \in Seq(SentBids) /\ Len(sent') \in 1..MaxSent
          BY <1>2, <3>1, Reached
        <4> QED BY <1>1, <3>1, <4>1, RadarAssumption
      <3>2. CASE UNCHANGED sent /\ transit' \in {transit, transit \cup {placing[t].project}}
        BY <1>1, <1>2, <3>2
      <3> QED BY <2>3, <3>1, <3>2
    <2>5. UNCHANGED <<kept, tab, checking, accepted, tries, pastVars>>
      BY <2>1 DEF NoAnswer
    <2> QED BY <1>1, <2>2, <2>4, <2>5, TypesNext DEF pastVars
  <1>15. CASE \E t \in Tabs : Denied(t)
    <2>1. PICK t \in Tabs : Denied(t)
      BY <1>15
    <2>2. placing' \in [Tabs -> PlacingStates]
      BY <2>1, IsOver DEF Denied
    <2>3. /\ tab' \in [Tabs -> TabStates] /\ kept' \in [log : Seq(Entry), token : SavedTokens]
          /\ overwrote' \subseteq {"log", "token"}
      BY <1>1, <1>2, <2>1, TokenKept, UnseenTypes DEF Denied
    <2> QED BY <1>1, <2>1, <2>2, <2>3, TypesNext DEF Denied, siteVars
  <1>16. CASE \E t \in Tabs : TokenAccepted(t)
    <2>1. PICK t \in Tabs : TokenAccepted(t)
      BY <1>16
    <2>2. checking' \in [Tabs -> CheckingStates]
      BY <2>1, IsChecked DEF TokenAccepted
    <2>3. /\ KeepToken(t, Saved(checking[t].token, FALSE))
          /\ owners' \in {checking[t].token, owners} /\ overwrote' \in {overwrote, Unseen(t)}
          /\ UNCHANGED <<placing, siteVars, tries, heard, raced>>
      BY <2>1 DEF TokenAccepted
    <2>4. /\ tab' \in [Tabs -> TabStates] /\ kept' \in [log : Seq(Entry), token : SavedTokens]
      BY <1>2, <1>3, <2>3, TokenKept
    <2> QED BY <1>1, <1>2, <2>2, <2>3, <2>4, TypesNext, UnseenTypes DEF siteVars
  <1>17. CASE \E t \in Tabs : TokenNotAccepted(t)
    <2>1. PICK t \in Tabs : TokenNotAccepted(t)
      BY <1>17
    <2>2. checking' \in [Tabs -> CheckingStates]
      BY <2>1, IsChecked DEF TokenNotAccepted
    <2>3. /\ tab' \in [Tabs -> TabStates] /\ kept' \in [log : Seq(Entry), token : SavedTokens]
          /\ overwrote' \subseteq {"log", "token"}
      BY <1>1, <1>2, <2>1, TokenKept, UnseenTypes DEF TokenNotAccepted
    <2> QED BY <1>1, <2>1, <2>2, <2>3, TypesNext DEF TokenNotAccepted, siteVars
  <1>18. CASE \E t \in Tabs : TokenNotChecked(t)
    <2>1. PICK t \in Tabs : TokenNotChecked(t)
      BY <1>18
    <2>2. checking' \in [Tabs -> CheckingStates]
      BY <2>1, IsChecked DEF TokenNotChecked
    <2> QED BY <1>1, <2>1, <2>2, TypesNext DEF TokenNotChecked, siteVars, pastVars
  <1>19. CASE \E t \in Tabs, k \in Tokens, pasted \in BOOLEAN : AskWhose(t, k, pasted)
    <2>1. PICK t \in Tabs, k \in Tokens, pasted \in BOOLEAN : AskWhose(t, k, pasted)
      BY <1>19
    <2>2. checking' \in [Tabs -> CheckingStates]
      BY <1>1, <2>1 DEF AskWhose, CheckingStates
    <2> QED BY <1>1, <2>1, <2>2, TypesNext, RadarAssumption DEF AskWhose, Begin, siteVars, pastVars
  <1>20. CASE \E t \in Tabs : RemoveToken(t)
    <2>1. PICK t \in Tabs : RemoveToken(t)
      BY <1>20
    <2>2. /\ tab' \in [Tabs -> TabStates] /\ kept' \in [log : Seq(Entry), token : SavedTokens]
      BY <2>1, TokenKept, RestStates DEF RemoveToken
    <2> QED BY <1>1, <2>1, <2>2, TypesNext DEF RemoveToken, siteVars
  <1>21. CASE \E p \in Feed : Arrive(p)
    <2>1. PICK p \in Feed : Arrive(p)
      BY <1>21
    <2>2. sent' \in Seq(SentBids) /\ Len(sent') \in 1..MaxSent /\ Len(sent') <= MaxSent
      BY <2>1, Reached DEF Arrive
    <2> QED BY <1>1, <2>1, <2>2, TypesNext DEF Arrive, pastVars
  <1>22. CASE \E p \in Feed : OwnerBids(p)
    <2>1. PICK p \in Feed : OwnerBids(p)
      BY <1>22
    <2>2. sent' \in Seq(SentBids) /\ Len(sent') \in 1..MaxSent /\ Len(sent') <= MaxSent
      BY <2>1, Reached DEF OwnerBids
    <2> QED BY <1>1, <2>1, <2>2, TypesNext DEF OwnerBids, pastVars
  <1>23. CASE \E k \in Tokens : Revoke(k)
    BY <1>1, <1>23, TypesNext DEF Revoke, pastVars
  <1> QED BY <1>4, <1>5, <1>6, <1>7, <1>8, <1>9, <1>10, <1>11, <1>12, <1>13, <1>14, <1>15, <1>16,
             <1>17, <1>18, <1>19, <1>20, <1>21, <1>22, <1>23 DEF RadarStep

-----------------------------------------------------------------------------
\* Of the bids of the page and the requests for them.
LEMMA SameRequests ==
  ASSUME RadarTypeOK, OneRequest, sent' = sent, transit' = transit, raced \subseteq raced',
         raced' \subseteq Feed,
         \A u \in Tabs : placing'[u].step = "create" => placing'[u] = placing[u]
  PROVE  OneRequest'
  <1>1. \A p \in Feed : Creating(p)' \subseteq Creating(p)
    BY DEF Creating
  <1>2. \A p \in Feed : ByPage(p)' = ByPage(p)
    BY DEF ByPage, SentOn
  <1> QED BY <1>1, <1>2 DEF OneRequest

\* A project that is being sent, and whose sending ends: one of the three is left of it.
LEMMA RequestEnds ==
  ASSUME RadarTypeOK, OneRequest, NEW t \in Tabs, placing[t].step = "create",
         raced' = raced, NEW p, p = placing[t].project,
         placing'[t].step = "idle", \A u \in Tabs \ {t} : placing'[u] = placing[u],
         \A q \in Feed \ {p} : ByPage(q)' = ByPage(q) /\ (q \in transit' <=> q \in transit),
         ByPage(p)' = ByPage(p) \/ p \notin transit' \/ p \in transit,
         ByPage(p)' # ByPage(p) => transit' = transit
  PROVE  OneRequest'
  <1> SUFFICES ASSUME NEW q \in Feed \ raced
               PROVE  /\ ByPage(q)' # {} => q \notin transit' /\ Creating(q)' = {}
                      /\ q \in transit' => Creating(q)' = {}
                      /\ \A u, v \in Creating(q)' : u = v
    BY DEF OneRequest
  <1>1. Creating(q)' \subseteq Creating(q) /\ t \in Creating(p) /\ t \notin Creating(q)'
    BY DEF Creating
  <1>2. /\ ByPage(q) # {} => q \notin transit /\ Creating(q) = {}
        /\ q \in transit => Creating(q) = {}
        /\ \A u, v \in Creating(q) : u = v
    BY DEF OneRequest
  <1>3. CASE q = p
    <2>1. Creating(q)' = {} /\ ByPage(p) = {} /\ p \notin transit
      BY <1>1, <1>2, <1>3
    <2> QED BY <1>3, <2>1
  <1>4. CASE q # p
    BY <1>1, <1>2, <1>4
  <1> QED BY <1>3, <1>4

\* A bid that reaches the marketplace is counted for its project alone.
LEMMA ReachedByPage ==
  ASSUME RadarTypeOK, NEW p \in Feed, NEW by \in {"page", "hand"}, Reach(p, by)
  PROVE  /\ \A q \in Feed \ {p} : ByPage(q)' = ByPage(q)
         /\ by = "hand" => ByPage(p)' = ByPage(p)
         /\ ByPage(p)' \subseteq ByPage(p) \cup {Len(sent')}
  <1>1. /\ \A i \in DOMAIN sent : sent'[i] = sent[i]
        /\ DOMAIN sent' = DOMAIN sent \cup {Len(sent')} /\ Len(sent') \notin DOMAIN sent
        /\ sent'[Len(sent')].project = p /\ sent'[Len(sent')].by = by
    BY Reached
  <1> QED BY <1>1 DEF ByPage, SentOn

\* Every step leaves at most one request of the page for a project.
LEMMA RequestsStep ==
  ASSUME RadarTypeOK, OneRequest, RadarStep
  PROVE  OneRequest'
  <1>1. /\ placing \in [Tabs -> PlacingStates] /\ raced \subseteq Feed
        /\ \A t \in Tabs : placing[t].project \in Feed
    BY RadarTypes DEF PlacingStates
  <1>2. ASSUME UNCHANGED <<sent, transit, raced, placing>> PROVE OneRequest'
    BY <1>1, <1>2, SameRequests
  <1>3. CASE \/ \E t \in Tabs : OpenTab(t)
             \/ \E t \in Tabs : UpdateBid(t)
             \/ \E t \in Tabs, p \in Feed : LogByHand(t, p)
             \/ \E t \in Tabs : TokenAccepted(t)
             \/ \E t \in Tabs : TokenNotAccepted(t)
             \/ \E t \in Tabs : TokenNotChecked(t)
             \/ \E t \in Tabs, k \in Tokens, pasted \in BOOLEAN : AskWhose(t, k, pasted)
             \/ \E t \in Tabs : RemoveToken(t)
             \/ \E k \in Tokens : Revoke(k)
    <2>1. UNCHANGED <<sent, transit, raced, placing>>
      BY <1>3 DEF OpenTab, UpdateBid, LogByHand, TokenAccepted, TokenNotAccepted,
                  TokenNotChecked, AskWhose, RemoveToken, Revoke, siteVars, pastVars
    <2> QED BY <1>2, <2>1
  <1>4. CASE \E t \in Tabs : CloseTab(t) \/ Import(t)
    <2>1. PICK t \in Tabs : CloseTab(t) \/ Import(t)
      BY <1>4
    <2>2. GiveUp(t) /\ UNCHANGED <<sent, raced>>
      BY <2>1 DEF CloseTab, Import, pastVars
    <2>3. /\ placing'[t].step = "idle" /\ \A u \in Tabs \ {t} : placing'[u] = placing[u]
          /\ \A p \in transit' \ transit : placing[t].step = "create" /\ placing[t].project = p
          /\ transit \subseteq transit'
      BY <2>2, GivenUp
    <2>4. CASE placing[t].step = "create"
      <3>1. \A q \in Feed : ByPage(q)' = ByPage(q)
        BY <2>2 DEF ByPage, SentOn
      <3>2. PICK p \in Feed : p = placing[t].project
        BY <1>1
      <3>3. \A q \in Feed \ {p} : q \in transit' <=> q \in transit
        BY <2>3, <3>2
      <3> QED BY <2>2, <2>3, <2>4, <3>1, <3>2, <3>3, RequestEnds
    <2>5. CASE placing[t].step # "create"
      <3>1. transit' = transit
        BY <2>3, <2>5
      <3>2. \A u \in Tabs : placing'[u].step = "create" => placing'[u] = placing[u]
        BY <2>3
      <3> QED BY <1>1, <2>2, <3>1, <3>2, SameRequests
    <2> QED BY <2>4, <2>5
  <1>5. CASE \E t \in Tabs, p \in Feed : PressPlace(t, p)
    <2>1. PICK t \in Tabs, p \in Feed : PressPlace(t, p)
      BY <1>5
    <2>2. \A u \in Tabs : placing'[u].step = "create" => placing'[u] = placing[u]
      BY <1>1, <2>1 DEF PressPlace
    <2> QED BY <1>1, <2>1, <2>2, SameRequests DEF PressPlace, siteVars, pastVars
  <1>6. CASE \E t \in Tabs : Confirm(t)
    <2>1. PICK t \in Tabs : Confirm(t)
      BY <1>6
    <2>2. \A u \in Tabs : placing'[u].step = "create" => placing'[u] = placing[u]
      <3>1. CASE placing' = [placing EXCEPT ![t].step = "find"]
        BY <1>1, <3>1 DEF PlacingStates
      <3>2. CASE placing' = [placing EXCEPT ![t] = AtRest]
        BY <1>1, <3>2, RestStates
      <3> QED BY <2>1, <3>1, <3>2 DEF Confirm
    <2> QED BY <1>1, <2>1, <2>2, SameRequests DEF Confirm, siteVars, pastVars
  <1>7. CASE \E t \in Tabs : FindNothing(t)
    <2>1. PICK t \in Tabs : FindNothing(t)
      BY <1>7
    <2>2. PICK p \in Feed : p = placing[t].project
      BY <1>1
    <2>3. /\ SentOn(p) = {} /\ UNCHANGED <<sent, transit>>
          /\ placing' = [placing EXCEPT ![t].step = "create"]
          /\ raced' = (IF (\E u \in Tabs \ {t} : placing[u].step = "create" /\ placing[u].project = p)
                          \/ p \in transit THEN raced \cup {p} ELSE raced)
      BY <2>1, <2>2 DEF FindNothing, siteVars
    <2>4. \A u \in Tabs \ {t} : placing'[u] = placing[u]
      BY <1>1, <2>3
    <2>5. placing'[t].project = p
      BY <1>1, <2>2, <2>3 DEF PlacingStates
    <2> SUFFICES ASSUME NEW q \in Feed \ raced'
                 PROVE  /\ ByPage(q)' # {} => q \notin transit' /\ Creating(q)' = {}
                        /\ q \in transit' => Creating(q)' = {}
                        /\ \A u, v \in Creating(q)' : u = v
      BY DEF OneRequest
    <2>6. ByPage(q)' = ByPage(q) /\ q \notin raced
      BY <2>3 DEF ByPage, SentOn
    <2>7. CASE q # p
      <3>1. Creating(q)' \subseteq Creating(q)
        BY <2>4, <2>5, <2>7 DEF Creating
      <3> QED BY <2>3, <2>6, <3>1 DEF OneRequest
    <2>8. CASE q = p
      <3>1. Creating(q)' \subseteq {t} /\ p \notin transit
        BY <2>3, <2>4, <2>8 DEF Creating
      <3>2. ByPage(q) = {}
        BY <2>3, <2>8 DEF ByPage
      <3> QED BY <2>3, <2>6, <2>8, <3>1, <3>2
    <2> QED BY <2>7, <2>8
  <1>8. CASE \E t \in Tabs : FindEarlier(t) \/ Denied(t)
    <2>1. PICK t \in Tabs : FindEarlier(t) \/ Denied(t)
      BY <1>8
    <2>2. UNCHANGED <<sent, transit, raced>> /\ Over(t)
      BY <2>1 DEF FindEarlier, Denied, siteVars
    <2>3. \A u \in Tabs : placing'[u].step = "create" => placing'[u] = placing[u]
      BY <2>2, IsOver
    <2> QED BY <1>1, <2>2, <2>3, SameRequests
  <1>9. CASE \E t \in Tabs : CreateBid(t)
    <2>1. PICK t \in Tabs : CreateBid(t)
      BY <1>9
    <2>2. PICK p \in Feed : p = placing[t].project
      BY <1>1
    <2>3. placing[t].step = "create" /\ Reach(p, "page") /\ Over(t) /\ UNCHANGED <<transit, raced>>
      BY <2>1, <2>2 DEF CreateBid
    <2>4. \A q \in Feed \ {p} : ByPage(q)' = ByPage(q)
      BY <2>3, ReachedByPage
    <2>5. placing'[t].step = "idle" /\ \A u \in Tabs \ {t} : placing'[u] = placing[u]
      BY <2>3, IsOver
    <2> QED BY <2>2, <2>3, <2>4, <2>5, RequestEnds
  <1>10. CASE \E t \in Tabs : NoAnswer(t)
    <2>1. PICK t \in Tabs : NoAnswer(t)
      BY <1>10
    <2>2. PICK p \in Feed : p = placing[t].project
      BY <1>1
    <2>3. /\ Over(t) /\ raced' = raced
          /\ \/ UNCHANGED <<sent, transit>>
             \/ placing[t].step = "create" /\ Reach(p, "page") /\ UNCHANGED transit
             \/ placing[t].step = "create" /\ transit' = transit \cup {p} /\ UNCHANGED sent
      BY <2>1, <2>2 DEF NoAnswer, pastVars
    <2>4. placing'[t].step = "idle" /\ \A u \in Tabs \ {t} : placing'[u] = placing[u]
      BY <2>3, IsOver
    <2>5. CASE UNCHANGED <<sent, transit>>
      BY <1>1, <2>3, <2>4, <2>5, SameRequests
    <2>6. CASE placing[t].step = "create" /\ Reach(p, "page") /\ UNCHANGED transit
      <3>1. \A q \in Feed \ {p} : ByPage(q)' = ByPage(q)
        BY <2>6, ReachedByPage
      <3> QED BY <2>2, <2>3, <2>4, <2>6, <3>1, RequestEnds
    <2>7. CASE placing[t].step = "create" /\ transit' = transit \cup {p} /\ UNCHANGED sent
      <3>1. \A q \in Feed : ByPage(q)' = ByPage(q)
        BY <2>7 DEF ByPage, SentOn
      <3> QED BY <2>2, <2>3, <2>4, <2>7, <3>1, RequestEnds
    <2> QED BY <2>3, <2>5, <2>6, <2>7
  <1>11. CASE \E p \in Feed : Arrive(p)
    <2>1. PICK p \in Feed : Arrive(p)
      BY <1>11
    <2>2. /\ p \in transit /\ Reach(p, "page") /\ transit' = transit \ {p}
          /\ UNCHANGED <<placing, raced>>
      BY <2>1 DEF Arrive, pastVars
    <2>3. \A q \in Feed \ {p} : ByPage(q)' = ByPage(q)
      BY <2>2, ReachedByPage
    <2>4. \A q \in Feed : Creating(q)' = Creating(q)
      BY <2>2 DEF Creating
    <2> QED BY <2>2, <2>3, <2>4 DEF OneRequest
  <1>12. CASE \E p \in Feed : OwnerBids(p)
    <2>1. PICK p \in Feed : OwnerBids(p)
      BY <1>12
    <2>2. Reach(p, "hand") /\ UNCHANGED <<placing, raced, transit>>
      BY <2>1 DEF OwnerBids, pastVars
    <2>3. \A q \in Feed : ByPage(q)' = ByPage(q)
      BY <2>2, ReachedByPage
    <2>4. \A q \in Feed : Creating(q)' = Creating(q)
      BY <2>2 DEF Creating
    <2> QED BY <2>2, <2>3, <2>4 DEF OneRequest
  <1> QED BY <1>3, <1>4, <1>5, <1>6, <1>7, <1>8, <1>9, <1>10, <1>11, <1>12 DEF RadarStep

\* A bid of the page arrives only for a project of which it has none.
LEMMA BidsOnceStep ==
  ASSUME RadarTypeOK, OneRequest, PageBidsOnce, RadarStep, RadarTypeOK'
  PROVE  PageBidsOnce'
  <1>1. CASE UNCHANGED sent /\ raced \subseteq raced'
    BY <1>1 DEF PageBidsOnce
  <1>2. ASSUME NEW p \in Feed, NEW by \in {"page", "hand"}, Reach(p, by), raced' = raced,
               by = "page" => p \in transit \/ Creating(p) # {}
        PROVE  PageBidsOnce'
    <2>1. /\ \A i \in DOMAIN sent : sent'[i] = sent[i]
          /\ DOMAIN sent' = DOMAIN sent \cup {Len(sent')} /\ Len(sent') \notin DOMAIN sent
          /\ sent'[Len(sent')].project = p /\ sent'[Len(sent')].by = by
      BY <1>2, Reached
    <2>2. by = "page" /\ p \notin raced =>
            \A i \in DOMAIN sent : ~(sent[i].project = p /\ sent[i].by = "page")
      BY <1>2 DEF OneRequest, ByPage, SentOn
    <2> SUFFICES ASSUME NEW i \in DOMAIN sent', NEW j \in DOMAIN sent', i # j,
                        sent'[i].project = sent'[j].project, sent'[i].project \notin raced,
                        sent'[i].by = "page", sent'[j].by = "page"
                 PROVE  FALSE
      BY <1>2 DEF PageBidsOnce
    <2>3. CASE i \in DOMAIN sent /\ j \in DOMAIN sent
      BY <2>1, <2>3 DEF PageBidsOnce
    <2>4. CASE i = Len(sent')
      BY <2>1, <2>2, <2>4
    <2>5. CASE j = Len(sent')
      BY <2>1, <2>2, <2>5
    <2> QED BY <2>1, <2>3, <2>4, <2>5
  <1>3. \A t \in Tabs : placing[t].project \in Feed
    BY RadarTypes DEF PlacingStates
  <1>4. CASE \E t \in Tabs : CreateBid(t)
    <2>1. PICK t \in Tabs : CreateBid(t)
      BY <1>4
    <2>2. Creating(placing[t].project) # {}
      BY <2>1 DEF CreateBid, Creating
    <2> QED BY <1>2, <1>3, <2>1, <2>2 DEF CreateBid
  <1>5. CASE \E t \in Tabs : NoAnswer(t)
    <2>1. PICK t \in Tabs : NoAnswer(t)
      BY <1>5
    <2>2. UNCHANGED sent \/ (placing[t].step = "create" /\ Reach(placing[t].project, "page"))
      BY <2>1 DEF NoAnswer
    <2>3. placing[t].step = "create" => Creating(placing[t].project) # {}
      BY DEF Creating
    <2>4. raced' = raced
      BY <2>1 DEF NoAnswer, pastVars
    <2> QED BY <1>1, <1>2, <1>3, <2>2, <2>3, <2>4
  <1>6. CASE \E p \in Feed : Arrive(p)
    BY <1>2, <1>6 DEF Arrive, pastVars
  <1>7. CASE \E p \in Feed : OwnerBids(p)
    BY <1>2, <1>7 DEF OwnerBids, pastVars
  <1>8. CASE \E t \in Tabs : FindNothing(t)
    BY <1>1, <1>8 DEF FindNothing, siteVars
  <1> QED BY <1>1, <1>4, <1>5, <1>6, <1>7, <1>8
          DEF RadarStep, OpenTab, CloseTab, UpdateBid, Import, LogByHand, PressPlace, Confirm,
              FindEarlier, Denied, TokenAccepted, TokenNotAccepted, TokenNotChecked, AskWhose,
              RemoveToken, Revoke, siteVars, pastVars

-----------------------------------------------------------------------------
\* A write of the log keeps what was in it, or is on record as one that did not.
LEMMA HeardStep ==
  ASSUME RadarTypeOK, HeardBidIsLogged, RadarStep
  PROVE  HeardBidIsLogged'
  <1>1. /\ \A t \in Tabs : placing[t].project \in Feed /\ tab[t].log \in Seq(Entry)
        /\ heard \subseteq 1..MaxSent /\ DOMAIN sent = 1..Len(sent) /\ Len(sent) \in 0..MaxSent
    <2>1. sent \in Seq(SentBids) /\ Len(sent) <= MaxSent
      BY RadarTypes
    <2>2. DOMAIN sent = 1..Len(sent) /\ Len(sent) \in Nat
      BY <2>1, LenProperties
    <2> QED BY <2>1, <2>2, RadarTypes, RadarAssumption DEF PlacingStates, TabStates
  <1>2. ASSUME kept'.log = kept.log, heard' = heard, "log" \in overwrote => "log" \in overwrote'
        PROVE  HeardBidIsLogged'
    BY <1>2 DEF HeardBidIsLogged
  <1>3. ASSUME NEW t \in Tabs, NEW p \in Feed, NEW nth \in 0..MaxSent, AddEntry(t, p, nth),
               heard' \subseteq heard \cup {nth}
        PROVE  HeardBidIsLogged'
    <2>1. /\ \E i \in DOMAIN kept'.log : kept'.log[i].bid = nth
          /\ "log" \notin overwrote' =>
              /\ "log" \notin overwrote
              /\ \A j \in DOMAIN kept.log : \E i \in DOMAIN kept'.log : kept'.log[i].bid = kept.log[j].bid
      BY <1>3, EntryAdded
    <2> SUFFICES ASSUME "log" \notin overwrote', NEW b \in heard'
                 PROVE  \E i \in DOMAIN kept'.log : kept'.log[i].bid = b
      BY DEF HeardBidIsLogged
    <2>2. CASE b = nth
      BY <2>1, <2>2
    <2>3. CASE b \in heard
      <3>1. PICK j \in DOMAIN kept.log : kept.log[j].bid = b
        BY <2>1, <2>3 DEF HeardBidIsLogged
      <3>2. PICK i \in DOMAIN kept'.log : kept'.log[i].bid = kept.log[j].bid
        BY <2>1
      <3> QED BY <3>1, <3>2
    <2> QED BY <1>3, <2>2, <2>3
  <1>4. CASE \E t \in Tabs : UpdateBid(t)
    <2>1. PICK t \in Tabs : UpdateBid(t)
      BY <1>4
    <2>2. /\ kept'.log = tab[t].log
          /\ "log" \notin overwrote' => "log" \notin overwrote /\ tab[t].log = kept.log
      BY <1>1, <2>1, Kept DEF UpdateBid
    <2> QED BY <2>1, <2>2 DEF UpdateBid, HeardBidIsLogged
  <1>5. CASE \E t \in Tabs, p \in Feed : LogByHand(t, p)
    BY <1>3, <1>5, RadarAssumption DEF LogByHand
  <1>6. CASE \E t \in Tabs : FindEarlier(t)
    <2>1. PICK t \in Tabs : FindEarlier(t)
      BY <1>6
    <2>2. PICK i \in SentOn(placing[t].project) :
            AddEntry(t, placing[t].project, i) /\ heard' = heard \cup {i}
      BY <2>1 DEF FindEarlier
    <2>3. i \in 0..MaxSent
      <3>1. i \in 1..Len(sent)
        BY <1>1 DEF SentOn
      <3> QED BY <1>1, <3>1, RadarAssumption
    <2> QED BY <1>1, <1>3, <2>2, <2>3
  <1>7. CASE \E t \in Tabs : CreateBid(t)
    <2>1. PICK t \in Tabs : CreateBid(t)
      BY <1>7
    <2>2. /\ Reach(placing[t].project, "page") /\ AddEntry(t, placing[t].project, Len(sent'))
          /\ heard' = heard \cup {Len(sent')}
      BY <2>1 DEF CreateBid
    <2>3. Len(sent') \in 0..MaxSent
      <3>1. Len(sent') \in 1..MaxSent
        BY <1>1, <2>2, Reached
      <3> QED BY <3>1, RadarAssumption
    <2> QED BY <1>1, <1>3, <2>2, <2>3
  <1>8. CASE \E t \in Tabs : Import(t)
    BY <1>8 DEF Import, HeardBidIsLogged
  <1>9. CASE \E t \in Tabs : Denied(t) \/ TokenAccepted(t) \/ TokenNotAccepted(t) \/ RemoveToken(t)
    <2>1. PICK t \in Tabs : Denied(t) \/ TokenAccepted(t) \/ TokenNotAccepted(t) \/ RemoveToken(t)
      BY <1>9
    <2>2. heard' = heard /\ overwrote' \in {overwrote, Unseen(t)}
      BY <2>1 DEF Denied, TokenAccepted, TokenNotAccepted, RemoveToken
    <2>3. kept' = kept \/ \E saved : kept' = [kept EXCEPT !.token = saved]
      BY <2>1 DEF Denied, TokenAccepted, TokenNotAccepted, RemoveToken, KeepToken
    <2>4. kept'.log = kept.log
      BY <2>3 DEF RadarTypeOK
    <2> QED BY <1>2, <2>2, <2>4, UnseenTypes
  <1>10. CASE \/ \E t \in Tabs : OpenTab(t) \/ CloseTab(t) \/ Confirm(t) \/ FindNothing(t) \/ NoAnswer(t)
                                \/ TokenNotChecked(t)
              \/ \E t \in Tabs, p \in Feed : PressPlace(t, p)
              \/ \E t \in Tabs, k \in Tokens, pasted \in BOOLEAN : AskWhose(t, k, pasted)
              \/ \E p \in Feed : Arrive(p) \/ OwnerBids(p)
              \/ \E k \in Tokens : Revoke(k)
    <2>1. UNCHANGED <<kept, heard, overwrote>>
      BY <1>10 DEF OpenTab, CloseTab, Confirm, FindNothing, NoAnswer, TokenNotChecked, PressPlace,
                   AskWhose, Arrive, OwnerBids, Revoke, pastVars
    <2> QED BY <1>2, <2>1
  <1> QED BY <1>4, <1>5, <1>6, <1>7, <1>8, <1>9, <1>10 DEF RadarStep

\* A tab checks the token it holds, and what it writes is that one.
LEMMA TokensStep ==
  ASSUME RadarTypeOK, ChecksOwnToken, TokenIsOwners, RadarStep
  PROVE  ChecksOwnToken' /\ TokenIsOwners'
  <1> DEFINE Own(t) == /\ ~tab'[t].open => checking'[t].step = "idle"
                       /\ checking'[t].step = "asked" /\ ~checking'[t].pasted
                            => tab'[t].token.token = checking'[t].token
  <1>1. /\ tab \in [Tabs -> TabStates] /\ checking \in [Tabs -> CheckingStates]
        /\ kept \in [log : Seq(Entry), token : SavedTokens]
        /\ \A t \in Tabs : tab[t].log \in Seq(Entry) /\ placing[t].project \in Feed
                          /\ tab[t].token \in SavedTokens /\ checking[t].token \in Tokens \cup {NoToken}
    BY RadarTypes DEF TabStates, CheckingStates, PlacingStates
  <1>2. \A t \in Tabs :
          /\ ~tab[t].open => checking[t].step = "idle"
          /\ checking[t].step = "asked" /\ ~checking[t].pasted => tab[t].token.token = checking[t].token
    BY DEF ChecksOwnToken
  \* Steps that write no token.
  <1>3. ASSUME checking' = checking, kept'.token = kept.token, owners' = owners,
               "token" \notin overwrote' => "token" \notin overwrote,
               \A u \in Tabs : tab'[u].open = tab[u].open /\ tab'[u].token = tab[u].token
        PROVE  ChecksOwnToken' /\ TokenIsOwners'
    BY <1>2, <1>3 DEF ChecksOwnToken, TokenIsOwners
  \* Steps of one tab that write one.
  <1>4. ASSUME NEW t \in Tabs, NEW saved \in SavedTokens, KeepToken(t, saved),
               \/ Checked(t)
               \/ /\ checking' = checking
                  /\ checking[t].step = "idle" \/ saved.token = tab[t].token.token,
               "token" \notin overwrote' /\ ("token" \notin overwrote => kept.token.token = owners)
                 => saved.token = owners'
        PROVE  ChecksOwnToken' /\ TokenIsOwners'
    <2>1. /\ kept'.token = saved /\ tab'[t].token = saved
          /\ \A u \in Tabs : tab'[u].open = tab[u].open
          /\ \A u \in Tabs \ {t} : tab'[u].token = tab[u].token
      BY <1>4, TokenKept
    <2>2. TokenIsOwners'
      BY <1>4, <2>1 DEF TokenIsOwners
    <2>3. \A u \in Tabs \ {t} : checking'[u] = checking[u]
      BY <1>4, IsChecked
    <2>4. Own(t)
      <3>1. CASE Checked(t)
        <4>1. checking'[t].step = "idle"
          BY <3>1, IsChecked
        <4> QED BY <4>1
      <3>2. CASE checking' = checking /\ (checking[t].step = "idle" \/ saved.token = tab[t].token.token)
        BY <1>2, <2>1, <3>2
      <3> QED BY <1>4, <3>1, <3>2
    <2>5. \A u \in Tabs \ {t} : Own(u)
      BY <1>2, <2>1, <2>3
    <2> QED BY <2>2, <2>4, <2>5 DEF ChecksOwnToken
  <1>5. CASE \E t \in Tabs : OpenTab(t)
    <2>1. PICK t \in Tabs : OpenTab(t)
      BY <1>5
    <2>2. UNCHANGED <<kept, checking, owners, overwrote>> /\ ~tab[t].open
          /\ \A u \in Tabs \ {t} : tab'[u] = tab[u]
      BY <1>1, <2>1 DEF OpenTab, pastVars
    <2>3. checking[t].step = "idle"
      BY <1>2, <2>2
    <2>4. \A u \in Tabs : Own(u)
      BY <1>2, <2>2, <2>3
    <2> QED BY <2>2, <2>4 DEF ChecksOwnToken, TokenIsOwners
  <1>6. CASE \E t \in Tabs : CloseTab(t) \/ Import(t)
    <2>1. PICK t \in Tabs : CloseTab(t) \/ Import(t)
      BY <1>6
    <2>2. GiveUp(t) /\ UNCHANGED <<owners, overwrote>> /\ kept'.token = kept.token
          /\ \A u \in Tabs \ {t} : tab'[u] = tab[u]
      <3>1. CASE CloseTab(t)
        BY <1>1, <3>1 DEF CloseTab, pastVars
      <3>2. CASE Import(t)
        <4>1. PICK prior : /\ kept' = [kept EXCEPT !.log = prior]
                           /\ tab' = [tab EXCEPT ![t].log = prior, ![t].token = kept.token]
          BY <3>2 DEF Import
        <4>2. kept'.token = kept.token /\ \A u \in Tabs \ {t} : tab'[u] = tab[u]
          BY <1>1, <4>1
        <4> QED BY <3>2, <4>2 DEF Import
      <3> QED BY <2>1, <3>1, <3>2
    <2>3. checking'[t].step = "idle" /\ \A u \in Tabs \ {t} : checking'[u] = checking[u]
      BY <2>2, GivenUp
    <2>4. Own(t) /\ \A u \in Tabs \ {t} : Own(u)
      BY <1>2, <2>2, <2>3
    <2> QED BY <2>2, <2>4 DEF ChecksOwnToken, TokenIsOwners
  <1>7. CASE \E t \in Tabs : UpdateBid(t)
    <2>1. PICK t \in Tabs : UpdateBid(t)
      BY <1>7
    <2> QED BY <1>1, <1>3, <2>1, Kept DEF UpdateBid
  <1>8. ASSUME NEW t \in Tabs, NEW nth \in 0..MaxSent, NEW p \in Feed, AddEntry(t, p, nth),
               checking' = checking, owners' = owners
        PROVE  ChecksOwnToken' /\ TokenIsOwners'
    <2>1. /\ kept'.token = kept.token
          /\ \A u \in Tabs : tab'[u].open = tab[u].open /\ tab'[u].token = tab[u].token
          /\ "token" \notin overwrote' => "token" \notin overwrote
      BY <1>8, EntryAdded
    <2> QED BY <1>3, <1>8, <2>1
  <1>9. CASE \E t \in Tabs, p \in Feed : LogByHand(t, p)
    BY <1>8, <1>9, RadarAssumption DEF LogByHand
  <1>10. CASE \E t \in Tabs : FindEarlier(t)
    <2>1. PICK t \in Tabs : FindEarlier(t)
      BY <1>10
    <2>2. PICK i \in SentOn(placing[t].project) : AddEntry(t, placing[t].project, i)
      BY <2>1 DEF FindEarlier
    <2>3. i \in 0..MaxSent
      <3>1. i \in 1..Len(sent) /\ Len(sent) \in Nat /\ Len(sent) <= MaxSent
        BY RadarTypes, LenProperties DEF SentOn
      <3> QED BY <3>1, RadarAssumption
    <2> QED BY <1>1, <1>8, <2>1, <2>2, <2>3 DEF FindEarlier
  <1>11. CASE \E t \in Tabs : CreateBid(t)
    <2>1. PICK t \in Tabs : CreateBid(t)
      BY <1>11
    <2>2. Len(sent') \in 0..MaxSent
      <3>1. Len(sent') \in 1..MaxSent
        BY <1>1, <2>1, Reached DEF CreateBid
      <3> QED BY <3>1, RadarAssumption
    <2> QED BY <1>1, <1>8, <2>1, <2>2 DEF CreateBid
  <1>12. ASSUME NEW t \in Tabs, "token" \notin Unseen(t),
                "token" \notin overwrote => kept.token.token = owners
         PROVE  tab[t].token.token = owners
    BY <1>12, UnseenTypes
  <1>13. \A t \in Tabs : /\ [tab[t].token EXCEPT !.problem = TRUE] \in SavedTokens
                         /\ [tab[t].token EXCEPT !.problem = TRUE].token = tab[t].token.token
    BY <1>1 DEF SavedTokens
  <1>14. CASE \E t \in Tabs : Denied(t)
    <2>1. PICK t \in Tabs : Denied(t)
      BY <1>14
    <2>2. checking' = checking /\ owners' = owners
      BY <2>1 DEF Denied
    <2>3. CASE UNCHANGED <<kept, tab, overwrote>>
      BY <1>3, <2>2, <2>3
    <2>4. CASE KeepToken(t, [tab[t].token EXCEPT !.problem = TRUE]) /\ overwrote' = Unseen(t)
      <3> DEFINE saved == [tab[t].token EXCEPT !.problem = TRUE]
      <3>1. saved \in SavedTokens /\ saved.token = tab[t].token.token /\ KeepToken(t, saved)
        BY <1>13, <2>4
      <3> HIDE DEF saved
      <3> QED BY <1>4, <1>12, <2>2, <2>4, <3>1
    <2> QED BY <2>1, <2>3, <2>4 DEF Denied
  <1>15. CASE \E t \in Tabs : TokenNotAccepted(t)
    <2>1. PICK t \in Tabs : TokenNotAccepted(t)
      BY <1>15
    <2>2. Checked(t) /\ owners' = owners
      BY <2>1 DEF TokenNotAccepted
    <2>3. CASE UNCHANGED <<kept, tab, overwrote>>
      <3>1. checking'[t].step = "idle" /\ \A u \in Tabs \ {t} : checking'[u] = checking[u]
        BY <2>2, IsChecked
      <3>2. Own(t) /\ \A u \in Tabs \ {t} : Own(u)
        BY <1>2, <2>3, <3>1
      <3> QED BY <2>2, <2>3, <3>2 DEF ChecksOwnToken, TokenIsOwners
    <2>4. CASE KeepToken(t, [tab[t].token EXCEPT !.problem = TRUE]) /\ overwrote' = Unseen(t)
      <3> DEFINE saved == [tab[t].token EXCEPT !.problem = TRUE]
      <3>1. saved \in SavedTokens /\ saved.token = tab[t].token.token /\ KeepToken(t, saved)
        BY <1>13, <2>4
      <3> HIDE DEF saved
      <3> QED BY <1>4, <1>12, <2>2, <2>4, <3>1
    <2> QED BY <2>1, <2>3, <2>4 DEF TokenNotAccepted
  <1>16. CASE \E t \in Tabs : TokenAccepted(t)
    <2>1. PICK t \in Tabs : TokenAccepted(t)
      BY <1>16
    <2> DEFINE saved == Saved(checking[t].token, FALSE)
    <2>2. saved \in SavedTokens /\ saved.token = checking[t].token /\ KeepToken(t, saved)
      BY <1>1, <2>1 DEF TokenAccepted, Saved, SavedTokens
    <2>3. /\ Checked(t) /\ checking[t].step = "asked"
          /\ owners' = (IF checking[t].pasted THEN checking[t].token ELSE owners)
          /\ overwrote' = (IF checking[t].pasted THEN overwrote ELSE Unseen(t))
      BY <2>1 DEF TokenAccepted
    <2> HIDE DEF saved
    <2>4. CASE checking[t].pasted
      BY <1>4, <2>2, <2>3, <2>4
    <2>5. CASE ~checking[t].pasted
      <3>1. tab[t].token.token = checking[t].token
        BY <1>2, <2>3, <2>5
      <3> QED BY <1>4, <1>12, <2>2, <2>3, <2>5, <3>1
    <2> QED BY <2>4, <2>5
  <1>17. CASE \E t \in Tabs : TokenNotChecked(t)
    <2>1. PICK t \in Tabs : TokenNotChecked(t)
      BY <1>17
    <2>2. Checked(t) /\ UNCHANGED <<kept, tab, owners, overwrote>>
      BY <2>1 DEF TokenNotChecked, pastVars
    <2>3. checking'[t].step = "idle" /\ \A u \in Tabs \ {t} : checking'[u] = checking[u]
      BY <2>2, IsChecked
    <2>4. Own(t) /\ \A u \in Tabs \ {t} : Own(u)
      BY <1>2, <2>2, <2>3
    <2> QED BY <2>2, <2>4 DEF ChecksOwnToken, TokenIsOwners
  <1>18. CASE \E t \in Tabs, k \in Tokens, pasted \in BOOLEAN : AskWhose(t, k, pasted)
    <2>1. PICK t \in Tabs, k \in Tokens, pasted \in BOOLEAN : AskWhose(t, k, pasted)
      BY <1>18
    <2>2. /\ tab[t].open /\ (pasted \/ tab[t].token.token = k)
          /\ checking' = [checking EXCEPT ![t] = [step |-> "asked", token |-> k, pasted |-> pasted]]
          /\ UNCHANGED <<kept, tab, owners, overwrote>>
      BY <2>1 DEF AskWhose, pastVars
    <2>3. /\ checking'[t].token = k /\ checking'[t].pasted = pasted
          /\ \A u \in Tabs \ {t} : checking'[u] = checking[u]
      BY <1>1, <2>2
    <2>4. Own(t) /\ \A u \in Tabs \ {t} : Own(u)
      BY <1>2, <2>2, <2>3
    <2> QED BY <2>2, <2>4 DEF ChecksOwnToken, TokenIsOwners
  <1>19. CASE \E t \in Tabs : RemoveToken(t)
    <2>1. PICK t \in Tabs : RemoveToken(t)
      BY <1>19
    <2>2. /\ KeepToken(t, Nothing) /\ owners' = NoToken /\ checking' = checking
          /\ checking[t].step = "idle"
      BY <2>1 DEF RemoveToken
    <2> QED BY <1>4, <2>2, RestStates
  <1>20. CASE \/ \E t \in Tabs : Confirm(t) \/ FindNothing(t) \/ NoAnswer(t)
              \/ \E t \in Tabs, p \in Feed : PressPlace(t, p)
              \/ \E p \in Feed : Arrive(p) \/ OwnerBids(p)
              \/ \E k \in Tokens : Revoke(k)
    <2>1. UNCHANGED <<kept, tab, checking, owners, overwrote>>
      BY <1>20 DEF Confirm, FindNothing, NoAnswer, PressPlace, Arrive, OwnerBids, Revoke, pastVars
    <2> QED BY <1>3, <2>1
  <1> QED BY <1>5, <1>6, <1>7, <1>9, <1>10, <1>11, <1>14, <1>15, <1>16, <1>17, <1>18, <1>19, <1>20
          DEF RadarStep

\* Every step of the radar keeps the invariant.
LEMMA NextRadar == RadarInv /\ [RadarNext]_radarVars => RadarInv'
  <1> SUFFICES ASSUME RadarInv, [RadarNext]_radarVars PROVE RadarInv'
    OBVIOUS
  <1>1. CASE RadarNext
    <2>1. RadarStep
      BY <1>1, RadarSteps
    <2> QED BY <2>1, StepTypes, RequestsStep, BidsOnceStep, HeardStep, TokensStep
            DEF RadarInv, StorageIsCurrent
  <1>2. CASE UNCHANGED radarVars
    BY <1>2 DEF radarVars, siteVars, pastVars, RadarInv, RadarTypeOK, OneRequest, ByPage, SentOn,
                Creating, PageBidsOnce, ChecksOwnToken, StorageIsCurrent, HeardBidIsLogged, TokenIsOwners
  <1> QED BY <1>1, <1>2

\* For any number of tabs, projects and tokens the page bids once on a project, but for
\* the requests that raced.
THEOREM PageNeverBidsTwice == RadarSpec => []PageBidsOnce
  <1>1. RadarInv => PageBidsOnce
    BY DEF RadarInv
  <1> QED BY InitRadar, NextRadar, <1>1, PTL DEF RadarSpec

\* And the browser holds what the page and its owner did last.
THEOREM BrowserIsCurrent == RadarSpec => []StorageIsCurrent
  <1>1. RadarInv => StorageIsCurrent
    BY DEF RadarInv
  <1> QED BY InitRadar, NextRadar, <1>1, PTL DEF RadarSpec

-----------------------------------------------------------------------------
\* Billing (Subscription).
\* What the types say of a notice.
LEMMA NoticeFacts ==
  ASSUME SubscriptionTypeOK
  PROVE  /\ Len(notices) \in Nat /\ DOMAIN notices = 1..Len(notices)
         /\ \A n \in DOMAIN notices :
              /\ notices[n] \in Notices /\ n \in 1..MaxNotices
              /\ notices[n].sub \in Checkouts /\ notices[n].kind \in Kinds
              /\ notices[n].standing \in Standings
  <1>1. /\ notices \in Seq(Notices) /\ Len(notices) <= MaxNotices
        /\ Len(notices) \in Nat /\ DOMAIN notices = 1..Len(notices)
    BY DEF SubscriptionTypeOK
  <1>2. ASSUME NEW n \in DOMAIN notices PROVE notices[n] \in Notices
    BY <1>1
  <1>3. \A n \in Notices : n.sub \in Checkouts /\ n.kind \in Kinds /\ n.standing \in Standings
    BY DEF Notices
  <1> QED BY <1>1, <1>2, <1>3, SubscriptionAssumption

\* An idle handler, and no row, are of their types.
LEMMA IdleFacts ==
  /\ Idle \in HandlerStates /\ Idle.step = "idle"
  /\ NoRow \in Row /\ NoRow.status = "none" /\ NoRow.of = 0
  BY SubscriptionAssumption DEF Idle, HandlerStates, Signals, Row, NoRow, Statuses, Graces

\* Before the first notice the invariant holds.
LEMMA InitSubscription == SubscriptionInit => SubscriptionInv
  <1> SUFFICES ASSUME SubscriptionInit PROVE SubscriptionInv
    OBVIOUS
  <1> USE SubscriptionAssumption
  <1>1. notices = <<>> /\ DOMAIN notices = {} /\ Len(notices) = 0
    BY DEF SubscriptionInit
  <1>2. handler \in [Handlers -> HandlerStates] /\ \A h \in Handlers : handler[h].step = "idle"
    BY IdleFacts DEF SubscriptionInit
  <1>3. applied \in [1..MaxNotices -> Nat] /\ \A n \in 1..MaxNotices : applied[n] = 0
    BY DEF SubscriptionInit
  <1>4. subscription \in Row /\ subscription.status = "none"
    BY IdleFacts DEF SubscriptionInit
  <1>5. SubscriptionTypeOK
    <2>1. /\ checkout \in [Checkouts -> {"none", "open", "failed", "completed"}]
          /\ standing \in [Checkouts -> Standings]
      BY DEF SubscriptionInit, Standings
    <2>2. notices \in Seq(Notices)
      BY <1>1
    <2>3. Len(notices) <= MaxNotices /\ receipts \subseteq DOMAIN notices
      BY <1>1 DEF SubscriptionInit
    <2> QED BY <2>1, <2>2, <2>3, <1>2, <1>3, <1>4 DEF SubscriptionInit, SubscriptionTypeOK
  <1>6. ReceiptsAreExclusive
    BY <1>2, <1>3 DEF SubscriptionInit, ReceiptsAreExclusive
  <1>7. NoticesTellTheStanding /\ NoticesFollowPayments
    BY <1>1 DEF SubscriptionInit, NoticesTellTheStanding, NoticesFollowPayments, Subscribed
  <1>8. SignalsAreCurrent /\ RowsAreCurrent /\ RowFollows /\ ActiveIsPaid
    BY <1>2, <1>4 DEF SubscriptionInit, SignalsAreCurrent, RowsAreCurrent, RowFollows, ActiveIsPaid
  <1> QED BY <1>5, <1>6, <1>7, <1>8 DEF SubscriptionInv

-----------------------------------------------------------------------------
\* A provider's steps: a payment of a checkout, or news of a subscription that is live.
ProviderSteps(c) == PayCheckout(c) \/ Renew(c) \/ ChangeStanding(c)

\* What the provider sends tells the standing it moves to.
LEMMA ProviderSends ==
  ASSUME NEW c \in Checkouts, ProviderSteps(c)
  PROVE  \E kind \in Kinds, to \in {"active", "attention", "ended"} :
           /\ Send(c, kind, to)
           /\ kind = "checkout" \/ Subscribed(c)
           /\ kind # "change" => to = "active"
  BY DEF ProviderSteps, PayCheckout, Renew, ChangeStanding, Kinds

\* One more notice, of which there is no receipt yet, keeps the invariant.
LEMMA SendKeeps ==
  ASSUME SubscriptionInv, NEW c \in Checkouts, ProviderSteps(c)
  PROVE  SubscriptionInv'
  <1>1. PICK kind \in Kinds, to \in {"active", "attention", "ended"} :
          /\ Send(c, kind, to)
          /\ kind = "checkout" \/ Subscribed(c)
          /\ kind # "change" => to = "active"
    BY ProviderSends
  <1>0. PICK N \in Nat : N = Len(notices)
    BY NoticeFacts DEF SubscriptionInv
  <1> DEFINE new == [sub |-> c, kind |-> kind, standing |-> to]
  <1>2. /\ notices' = Append(notices, new) /\ N < MaxNotices
        /\ standing' = [standing EXCEPT ![c] = to]
        /\ doubled' = (doubled \/ \E d \in Checkouts \ {c} : Subscribed(d))
        /\ UNCHANGED <<provider, checkout, subscription, converted, receipts, handler,
                       applied, disorder>>
    BY <1>0, <1>1 DEF Send
  <1>3. /\ notices \in Seq(Notices) /\ receipts \subseteq 1..N
        /\ DOMAIN notices = 1..N /\ N \in Nat
        /\ standing \in [Checkouts -> Standings]
    BY <1>0, NoticeFacts DEF SubscriptionInv, SubscriptionTypeOK
  <1>4. new \in Notices /\ to \in Standings
    BY DEF Standings, Notices
  <1>5. /\ notices' \in Seq(Notices)
        /\ Len(notices') = N + 1 /\ DOMAIN notices' = 1..(N + 1)
        /\ notices'[N + 1] = new
        /\ \A k \in 1..N : notices'[k] = notices[k]
    BY <1>0, <1>2, <1>3, <1>4
  <1>6. /\ notices'[N + 1].sub = c /\ notices'[N + 1].kind = kind
        /\ notices'[N + 1].standing = to
    BY <1>5
  <1>7. /\ N + 1 \notin receipts /\ N + 1 \in 1..(N + 1)
        /\ \A k \in 1..(N + 1) : k \in 1..N \/ k = N + 1
        /\ \A k \in 1..N : k \in 1..(N + 1) /\ k < N + 1 /\ k \in Nat
    BY <1>3
  <1>8. /\ standing' \in [Checkouts -> Standings] /\ standing'[c] = to
        /\ \A d \in Checkouts : d # c => standing'[d] = standing[d]
    BY <1>2, <1>3, <1>4
  <1> HIDE DEF new
  <1>9. IsLast(N + 1)'
    <2> SUFFICES ASSUME NEW m \in 1..(N + 1), m > N + 1 PROVE FALSE
      BY <1>5 DEF IsLast
    <2> QED BY <1>3
  <1>10. \A n \in 1..N : notices[n].sub = c => ~IsLast(n)'
    BY <1>5, <1>6, <1>7 DEF IsLast
  <1>11. \A n \in 1..N : notices[n].sub # c => (IsLast(n)' <=> IsLast(n))
    BY <1>3, <1>5, <1>6, <1>7 DEF IsLast
  <1>12. Untold(c)'
    BY <1>2, <1>5, <1>6, <1>7, <1>9 DEF Untold
  <1>13. \A d \in Checkouts : d # c /\ Untold(d) => Untold(d)'
    BY <1>2, <1>3, <1>5, <1>7, <1>11 DEF Untold
  <1>14. SubscriptionTypeOK'
    <2>1. doubled' \in BOOLEAN
      BY <1>2, Zenon DEF SubscriptionInv, SubscriptionTypeOK
    <2>2. receipts' \subseteq DOMAIN notices' /\ Len(notices') <= MaxNotices
      BY <1>2, <1>3, <1>5, <1>7, SubscriptionAssumption
    <2>3. \A h \in Handlers : handler[h].step # "idle" => handler[h].notice \in DOMAIN notices'
      BY <1>3, <1>5, <1>7 DEF SubscriptionInv, SubscriptionTypeOK
    <2>4. handler' \in [Handlers -> HandlerStates]
      BY <1>2 DEF SubscriptionInv, SubscriptionTypeOK, HandlerStates
    <2> QED BY <2>1, <2>2, <2>3, <2>4, <1>2, <1>5, <1>8 DEF SubscriptionInv, SubscriptionTypeOK
  <1>15. ReceiptsAreExclusive'
    BY <1>2 DEF SubscriptionInv, ReceiptsAreExclusive
  <1>16. NoticesTellTheStanding'
    <2>1. ASSUME NEW d \in Checkouts
          PROVE  \/ standing'[d] = "none" /\ \A n \in DOMAIN notices' : notices'[n].sub # d
                 \/ \E n \in DOMAIN notices' :
                      notices'[n].sub = d /\ IsLast(n)' /\ notices'[n].standing = standing'[d]
      <3>1. CASE d = c
        BY <3>1, <1>5, <1>6, <1>7, <1>8, <1>9
      <3>2. CASE d # c
        <4>1. CASE standing[d] = "none" /\ \A n \in DOMAIN notices : notices[n].sub # d
          BY <4>1, <3>2, <1>3, <1>5, <1>6, <1>7, <1>8
        <4>2. CASE \E n \in DOMAIN notices :
                     notices[n].sub = d /\ IsLast(n) /\ notices[n].standing = standing[d]
          BY <4>2, <3>2, <1>3, <1>5, <1>7, <1>8, <1>11
        <4> QED BY <4>1, <4>2 DEF SubscriptionInv, NoticesTellTheStanding
      <3> QED BY <3>1, <3>2
    <2>2. ASSUME NEW n \in DOMAIN notices'
          PROVE  /\ notices'[n].standing # "none"
                 /\ notices'[n].kind # "change" => notices'[n].standing = "active"
      BY <1>1, <1>3, <1>5, <1>6, <1>7 DEF SubscriptionInv, NoticesTellTheStanding
    <2>3. ASSUME ~doubled', NEW d \in Checkouts, Subscribed(d)'
          PROVE  d = notices'[Len(notices')].sub
      BY <2>3, <1>2, <1>5, <1>6, <1>8 DEF Subscribed
    <2> QED BY <2>1, <2>2, <2>3 DEF NoticesTellTheStanding
  <1>17. NoticesFollowPayments'
    <2> SUFFICES ASSUME NEW m \in 1..(N + 1)
                 PROVE  \E n \in 1..m :
                          /\ notices'[n].kind = "checkout"
                          /\ \A k \in (n + 1)..m : notices'[k].kind # "checkout"
                          /\ ~doubled' => notices'[n].sub = notices'[m].sub
      BY <1>5 DEF NoticesFollowPayments
    <2>1. ~doubled' => ~doubled
      BY <1>2
    <2>2. CASE m \in 1..N
      <3>1. PICK n \in 1..m :
              /\ notices[n].kind = "checkout"
              /\ \A k \in (n + 1)..m : notices[k].kind # "checkout"
              /\ ~doubled => notices[n].sub = notices[m].sub
        BY <2>2, <1>3 DEF SubscriptionInv, NoticesFollowPayments
      <3>2. n \in 1..N /\ \A k \in (n + 1)..m : k \in 1..N
        BY <2>2, <1>3
      <3> QED BY <3>1, <3>2, <2>1, <2>2, <1>5
    <2>3. CASE m = N + 1 /\ kind = "checkout"
      BY <2>3, <1>3, <1>6, <1>7
    <2>4. CASE m = N + 1 /\ kind # "checkout"
      <3>1. Subscribed(c)
        BY <2>4, <1>1
      <3>2. N \in 1..N
        <4>1. PICK n \in 1..N : TRUE
          BY <3>1, <1>3 DEF SubscriptionInv, NoticesTellTheStanding, Subscribed
        <4> QED BY <4>1, <1>3
      <3>3. PICK n \in 1..N :
              /\ notices[n].kind = "checkout"
              /\ \A k \in (n + 1)..N : notices[k].kind # "checkout"
              /\ ~doubled => notices[n].sub = notices[N].sub
        BY <3>2, <1>3 DEF SubscriptionInv, NoticesFollowPayments
      <3>4. ~doubled => notices[N].sub = c
        BY <1>0, <3>1 DEF SubscriptionInv, NoticesTellTheStanding
      <3>5. ASSUME NEW k \in (n + 1)..m PROVE notices'[k].kind # "checkout"
        <4>1. k \in (n + 1)..N \/ k = N + 1
          BY <2>4, <1>3
        <4>2. k \in (n + 1)..N => k \in 1..N
          BY <1>3
        <4> QED BY <4>1, <4>2, <3>3, <2>4, <1>5, <1>6
      <3> QED BY <3>3, <3>4, <3>5, <2>1, <2>4, <1>3, <1>5, <1>6, <1>7
    <2> QED BY <2>2, <2>3, <2>4, <1>7
  <1>18. SignalsAreCurrent'
    <2>0. \A h \in Handlers : handler[h].step # "idle" => handler[h].notice \in 1..N
      BY <1>3 DEF SubscriptionInv, SubscriptionTypeOK
    <2>1. ASSUME NEW h \in Handlers, handler[h].step \in {"settle", "apply"},
                 NEW k \in 1..N, k = handler[h].notice
          PROVE  /\ handler[h].signal = "activate" <=> notices'[k].kind = "checkout"
                 /\ \/ handler[h].signal = Meaning(k)'
                    \/ ~IsLast(k)' /\ (disorder \/ Untold(notices[k].sub)')
      <3>1. notices'[k] = notices[k] /\ notices[k].sub \in Checkouts
        BY <1>3, <1>5, NoticeFacts DEF SubscriptionInv
      <3>2. /\ handler[h].signal = "activate" <=> notices[k].kind = "checkout"
            /\ handler[h].signal = Meaning(k) \/ (~IsLast(k) /\ (disorder \/ Untold(notices[k].sub)))
        BY <2>1 DEF SubscriptionInv, SignalsAreCurrent
      <3>3. PICK d \in Checkouts : d = notices[k].sub
        BY <3>1
      <3>4. CASE d = c
        <4>1. ~IsLast(k)' /\ Untold(d)'
          BY <3>3, <3>4, <1>10, <1>12
        <4> QED BY <4>1, <3>1, <3>2, <3>3
      <3>5. CASE d # c
        <4>1. Meaning(k)' = Meaning(k)
          BY <3>1, <3>3, <3>5, <1>2, <1>8 DEF Meaning
        <4>2. (IsLast(k)' <=> IsLast(k)) /\ (Untold(d) => Untold(d)')
          BY <3>3, <3>5, <1>11, <1>13
        <4> QED BY <4>1, <4>2, <3>1, <3>2, <3>3
      <3> QED BY <3>4, <3>5
    <2> QED BY <2>0, <2>1, <1>2, <1>5 DEF SignalsAreCurrent
  <1>19. RowsAreCurrent'
    BY <1>2, <1>3, <1>5 DEF SubscriptionInv, RowsAreCurrent
  <1>20. RowFollows'
    <2>1. ASSUME ~disorder, NEW n \in receipts, \A m \in receipts : m <= n,
                 NEW d \in Checkouts, d = notices[n].sub, Matches(subscription, d), ~Untold(d)'
          PROVE  Reflects(d)'
      <3>1. d # c /\ ~Untold(d)
        BY <2>1, <1>12, <1>13
      <3>2. Reflects(d)
        BY <2>1, <3>1 DEF SubscriptionInv, RowFollows
      <3> QED BY <3>1, <3>2, <1>2, <1>8 DEF Reflects
    <2>2. \A n \in receipts : notices'[n] = notices[n] /\ notices[n].sub \in Checkouts
      BY <1>3, <1>5, NoticeFacts DEF SubscriptionInv
    <2>3. \A d \in Checkouts : Matches(subscription, d)' <=> Matches(subscription, d)
      BY <1>2 DEF Matches
    <2> QED BY <2>1, <2>2, <2>3, <1>2 DEF RowFollows
  <1>21. ActiveIsPaid'
    <2> SUFFICES ASSUME ~disorder, subscription.status = "active"
                 PROVE  \E d \in Checkouts :
                          Matches(subscription, d) /\ (standing'[d] = "active" \/ Untold(d)')
      BY <1>2 DEF ActiveIsPaid, Matches
    <2>1. PICK d \in Checkouts : Matches(subscription, d) /\ (standing[d] = "active" \/ Untold(d))
      BY DEF SubscriptionInv, ActiveIsPaid
    <2> QED BY <2>1, <1>8, <1>12, <1>13
  <1> QED BY <1>14, <1>15, <1>16, <1>17, <1>18, <1>19, <1>20, <1>21 DEF SubscriptionInv

-----------------------------------------------------------------------------
\* What the invariant says besides the handlers, of which a step that leaves the
\* notices, the standings, the receipts and the row alone keeps all.
Rest == /\ NoticesTellTheStanding /\ NoticesFollowPayments /\ RowFollows /\ ActiveIsPaid

LEMMA RestStays ==
  ASSUME SubscriptionInv, UNCHANGED <<providerVars, subscription, receipts, disorder>>
  PROVE  Rest'
  BY DEF SubscriptionInv, Rest, providerVars, NoticesTellTheStanding, NoticesFollowPayments,
     RowFollows, ActiveIsPaid, IsLast, Untold, Subscribed, Matches, Reflects

\* The checkout, and a handler that starts over, touch no notice and no row.
LEMMA AsideKeeps ==
  ASSUME SubscriptionInv,
         \/ \E c \in Checkouts : StartCheckout(c)
         \/ \E h \in Handlers : HandlerFails(h) \/ \E n \in DOMAIN notices : Deliver(h, n)
  PROVE  SubscriptionInv'
  <1> DEFINE same == UNCHANGED <<providerVars, subscription, converted, receipts, applied, disorder>>
  <1>1. ASSUME NEW c \in Checkouts, StartCheckout(c) PROVE SubscriptionInv'
    <2>1. /\ UNCHANGED <<providerVars, subscription, converted, receipts, handler, applied, disorder>>
          /\ \E status \in {"open", "failed"} : checkout' = [checkout EXCEPT ![c] = status]
      BY <1>1 DEF StartCheckout
    <2>2. checkout' \in [Checkouts -> {"none", "open", "failed", "completed"}]
      BY <2>1 DEF SubscriptionInv, SubscriptionTypeOK
    <2>3. SubscriptionTypeOK' /\ ReceiptsAreExclusive'
      BY <2>1, <2>2 DEF SubscriptionInv, SubscriptionTypeOK, ReceiptsAreExclusive, providerVars,
                        HandlerStates
    <2>4. SignalsAreCurrent' /\ RowsAreCurrent'
      BY <2>1 DEF SubscriptionInv, SignalsAreCurrent, RowsAreCurrent, providerVars, Meaning, IsLast,
                  Untold
    <2>5. Rest'
      BY <2>1, RestStays
    <2> QED BY <2>3, <2>4, <2>5 DEF SubscriptionInv, Rest
  <1>2. ASSUME NEW h \in Handlers, NEW to \in HandlerStates,
               handler' = [handler EXCEPT ![h] = to], to.step \in {"idle", "read"},
               to.step = "read" => to.notice \in DOMAIN notices, same, UNCHANGED checkout
        PROVE  SubscriptionInv'
    <2>1. handler \in [Handlers -> HandlerStates]
      BY DEF SubscriptionInv, SubscriptionTypeOK
    <2>2. /\ handler' \in [Handlers -> HandlerStates]
          /\ \A o \in Handlers : o = h \/ handler'[o] = handler[o]
          /\ handler'[h].step \notin {"settle", "apply"}
          /\ handler'[h].step # "idle" => handler'[h].notice \in DOMAIN notices
      BY <2>1, <1>2
    <2>3. SubscriptionTypeOK'
      BY <2>2, <1>2 DEF SubscriptionInv, SubscriptionTypeOK, HandlerStates, providerVars
    <2>4. ReceiptsAreExclusive'
      BY <2>2, <1>2 DEF SubscriptionInv, ReceiptsAreExclusive
    <2>5. SignalsAreCurrent' /\ RowsAreCurrent'
      BY <2>2, <1>2 DEF SubscriptionInv, SignalsAreCurrent, RowsAreCurrent, providerVars, Meaning,
                        IsLast, Untold
    <2>6. Rest'
      BY <1>2, RestStays
    <2> QED BY <2>3, <2>4, <2>5, <2>6 DEF SubscriptionInv, Rest
  <1>3. ASSUME NEW h \in Handlers, HandlerFails(h) PROVE SubscriptionInv'
    BY <1>2, <1>3, IdleFacts DEF HandlerFails
  <1>4. ASSUME NEW h \in Handlers, NEW n \in DOMAIN notices, Deliver(h, n) PROVE SubscriptionInv'
    <2> DEFINE to == [Idle EXCEPT !.step = "read", !.notice = n]
    <2>1. n \in 0..MaxNotices
      BY SubscriptionAssumption, NoticeFacts DEF SubscriptionInv
    <2>2. to \in HandlerStates /\ to.step = "read" /\ to.notice = n
      BY <2>1, IdleFacts DEF HandlerStates
    <2> HIDE DEF to
    <2>3. handler' = [handler EXCEPT ![h] = to] /\ same /\ UNCHANGED checkout
      BY <1>4 DEF Deliver, to
    <2> QED BY <1>2, <2>2, <2>3
  <1> QED BY <1>1, <1>3, <1>4

\* What a notice means is current when it is read.
LEMMA ReadMeaningKeeps ==
  ASSUME SubscriptionInv, NEW h \in Handlers, ReadMeaning(h)
  PROVE  SubscriptionInv'
  <1> DEFINE n == handler[h].notice
  <1>1. handler \in [Handlers -> HandlerStates] /\ n \in DOMAIN notices
    BY DEF SubscriptionInv, SubscriptionTypeOK, ReadMeaning
  <1>2. notices[n].kind \in Kinds
    BY <1>1, NoticeFacts DEF SubscriptionInv
  <1>3. Meaning(n) \in Signals /\ (Meaning(n) = "activate" <=> notices[n].kind = "checkout")
    BY <1>2 DEF Meaning, SignalOf, Signals, Kinds
  <1>4. /\ handler' \in [Handlers -> HandlerStates]
        /\ \A o \in Handlers : o = h \/ handler'[o] = handler[o]
        /\ handler'[h].step = "settle" /\ handler'[h].notice = n /\ handler'[h].signal = Meaning(n)
    BY <1>1, <1>3 DEF ReadMeaning, HandlerStates
  <1>5. UNCHANGED <<providerVars, checkout, subscription, converted, receipts, applied, disorder>>
    BY DEF ReadMeaning
  <1>6. SubscriptionTypeOK'
    BY <1>1, <1>4, <1>5 DEF SubscriptionInv, SubscriptionTypeOK, HandlerStates, providerVars
  <1>7. ReceiptsAreExclusive' /\ RowsAreCurrent'
    BY <1>4, <1>5 DEF SubscriptionInv, ReceiptsAreExclusive, RowsAreCurrent, providerVars
  <1>8. SignalsAreCurrent'
    BY <1>3, <1>4, <1>5 DEF SubscriptionInv, SignalsAreCurrent, providerVars, Meaning, IsLast, Untold
  <1>9. Rest'
    BY <1>5, RestStays
  <1> QED BY <1>6, <1>7, <1>8, <1>9 DEF SubscriptionInv, Rest

\* The receipt is taken once, and the row read is the row there is.
LEMMA ReceiptKeeps ==
  ASSUME SubscriptionInv, NEW h \in Handlers, TakeReceipt(h)
  PROVE  SubscriptionInv'
  <1> DEFINE n == handler[h].notice
             to == [handler[h] EXCEPT !.step = "apply", !.row = subscription]
  <1>1. handler \in [Handlers -> HandlerStates] /\ subscription \in Row
    BY DEF SubscriptionInv, SubscriptionTypeOK
  <1>2. CASE n \in receipts
    <2>1. HandlerFails(h)
      BY <1>2 DEF TakeReceipt, HandlerFails
    <2> QED BY <2>1, AsideKeeps
  <1>3. CASE n \notin receipts
    <2>1. handler' = [handler EXCEPT ![h] = to]
      BY <1>3 DEF TakeReceipt
    <2>2. to \in HandlerStates
      BY <1>1 DEF HandlerStates
    <2>3. to.step = "apply" /\ to.notice = n /\ to.signal = handler[h].signal /\ to.row = subscription
      BY <1>1 DEF HandlerStates
    <2> HIDE DEF to
    <2>4. /\ handler' \in [Handlers -> HandlerStates]
          /\ \A o \in Handlers : o = h \/ handler'[o] = handler[o]
          /\ handler'[h] = to
      BY <1>1, <2>1, <2>2
    <2>5. UNCHANGED <<providerVars, checkout, subscription, converted, receipts, applied, disorder>>
      BY DEF TakeReceipt
    <2>6. handler[h].step = "settle" /\ \A o \in Handlers \ {h} :
            ~(handler[o].step = "apply" /\ handler[o].notice = n)
      BY DEF TakeReceipt
    <2>7. SubscriptionTypeOK'
      BY <2>3, <2>4, <2>5, <2>6 DEF SubscriptionInv, SubscriptionTypeOK, HandlerStates, providerVars
    <2>8. ReceiptsAreExclusive'
      BY <2>3, <2>4, <2>5, <2>6, <1>3 DEF SubscriptionInv, ReceiptsAreExclusive
    <2>9. SignalsAreCurrent'
      BY <2>3, <2>4, <2>5, <2>6 DEF SubscriptionInv, SignalsAreCurrent, providerVars, Meaning,
                                    IsLast, Untold
    <2>10. RowsAreCurrent'
      BY <2>3, <2>4, <2>5 DEF SubscriptionInv, RowsAreCurrent, providerVars
    <2>11. Rest'
      BY <2>5, RestStays
    <2> QED BY <2>7, <2>8, <2>9, <2>10, <2>11 DEF SubscriptionInv, Rest
  <1> QED BY <1>2, <1>3

-----------------------------------------------------------------------------
\* What a signal makes of a row.
LEMMA NextStateFacts ==
  ASSUME NEW row \in Row, NEW s \in Signals, NEW grace \in {"none", "running"}
  PROVE  /\ NextState(row, s, grace) \in Row
         /\ NextState(row, s, grace).status = "active" <=> s \in {"activate", "paid"}
         /\ NextState(row, s, grace).status = "cancelled" <=> s = "ended"
         /\ NextState(row, s, grace).status = "past_due" <=> s = "payment_failed"
  BY DEF NextState, Row, Signals, Statuses, Graces

\* What a notice of a standing means.
LEMMA SignalFacts ==
  ASSUME NEW k \in Kinds, NEW st \in Standings,
         k # "change" => st = "active"
  PROVE  /\ SignalOf(k, st) \in {"activate", "paid"} <=> st = "active"
         /\ SignalOf(k, st) = "payment_failed" <=> st = "attention"
         /\ st = "ended" => SignalOf(k, st) = "ended"
  BY DEF SignalOf, Kinds, Standings, Signals

\* What a transaction does with the row: that of the checkout paid, else the one
\* the notice found.
LEMMA ApplyRow ==
  ASSUME SubscriptionInv, NEW h \in Handlers, Apply(h),
         NEW c \in Checkouts, c = notices[handler[h].notice].sub
  PROVE  LET s == handler[h].signal
             moves == s = "activate" \/ Matches(handler[h].row, c) IN
         /\ subscription' \in Row
         /\ ~moves => subscription' = subscription
         /\ moves => /\ subscription'.of = IF s = "activate" THEN c ELSE subscription.of
                     /\ subscription'.status = "active" <=> s \in {"activate", "paid"}
                     /\ subscription'.status = "cancelled" <=> s = "ended"
                     /\ subscription'.status = "past_due" <=> s = "payment_failed"
  <1> DEFINE s == handler[h].signal
             row == handler[h].row
             of == IF s = "activate" THEN c ELSE subscription.of
  <1>1. s \in Signals /\ row \in Row /\ subscription \in Row
    BY DEF SubscriptionInv, SubscriptionTypeOK, HandlerStates
  <1>2. CASE ~(s = "activate" \/ Matches(row, c))
    BY <1>1, <1>2 DEF Apply
  <1>3. CASE s = "activate" \/ Matches(row, c)
    <2>1. PICK grace \in {"none", "running"} :
            subscription' = [NextState(row, s, grace) EXCEPT !.of = of]
      BY <1>3 DEF Apply
    <2>2. of \in 0..MaxCheckouts
      BY <1>1, SubscriptionAssumption DEF Row, Checkouts
    <2> DEFINE new == NextState(row, s, grace)
    <2>3. /\ new \in Row
          /\ new.status = "active" <=> s \in {"activate", "paid"}
          /\ new.status = "cancelled" <=> s = "ended"
          /\ new.status = "past_due" <=> s = "payment_failed"
      BY <1>1, NextStateFacts
    <2> HIDE DEF new
    <2>4. /\ [new EXCEPT !.of = of] \in Row
          /\ [new EXCEPT !.of = of].status = new.status
          /\ [new EXCEPT !.of = of].of = of
      <3> HIDE DEF of
      <3> QED BY <2>2, <2>3 DEF Row
    <2> QED BY <2>1, <2>3, <2>4, <1>3 DEF new
  <1> QED BY <1>2, <1>3

\* A transaction keeps the types and the receipts, and tells the provider nothing.
LEMMA ApplyReceipts ==
  ASSUME SubscriptionInv, NEW h \in Handlers, Apply(h)
  PROVE  /\ SubscriptionTypeOK' /\ ReceiptsAreExclusive'
         /\ NoticesTellTheStanding' /\ NoticesFollowPayments'
         /\ \A o \in Handlers : o = h \/ handler'[o] = handler[o]
         /\ handler'[h].step = "idle"
  <1> DEFINE n == handler[h].notice
  <1>1. handler \in [Handlers -> HandlerStates] /\ n \in DOMAIN notices /\ n \in 1..MaxNotices
    BY NoticeFacts DEF SubscriptionInv, SubscriptionTypeOK, Apply
  <1>2. PICK c \in Checkouts : c = notices[n].sub
    BY <1>1, NoticeFacts DEF SubscriptionInv
  <1>3. /\ handler' \in [Handlers -> HandlerStates]
        /\ \A o \in Handlers : o = h \/ handler'[o] = handler[o]
        /\ handler'[h] = Idle
    BY <1>1, IdleFacts DEF Apply
  <1>4. subscription' \in Row
    BY <1>2, ApplyRow
  <1>5. /\ receipts' = receipts \cup {n}
        /\ applied' = [applied EXCEPT ![n] = @ + 1]
        /\ applied \in [1..MaxNotices -> Nat]
        /\ UNCHANGED providerVars
    BY DEF Apply, SubscriptionInv, SubscriptionTypeOK
  <1>6. /\ checkout' \in [Checkouts -> {"none", "open", "failed", "completed"}]
        /\ converted' \in {0, 1}
    BY <1>2 DEF Apply, SubscriptionInv, SubscriptionTypeOK
  <1>7. disorder' \in BOOLEAN
    BY Zenon DEF Apply
  <1>8. SubscriptionTypeOK'
    BY <1>1, <1>3, <1>4, <1>5, <1>6, <1>7, IdleFacts
    DEF SubscriptionInv, SubscriptionTypeOK, providerVars
  <1>9. ReceiptsAreExclusive'
    <2>1. handler[h].step = "apply" /\ n \notin receipts /\ applied[n] = 0
      BY <1>1 DEF Apply, SubscriptionInv, ReceiptsAreExclusive
    <2>2. \A m \in 1..MaxNotices : applied'[m] = IF m \in receipts' THEN 1 ELSE 0
      BY <2>1, <1>1, <1>5 DEF SubscriptionInv, ReceiptsAreExclusive
    <2>3. \A o \in Handlers : handler'[o].step = "apply" => o # h /\ handler[o].notice # n
      BY <2>1, <1>3, IdleFacts DEF SubscriptionInv, ReceiptsAreExclusive
    <2> QED BY <2>2, <2>3, <1>3, <1>5 DEF SubscriptionInv, ReceiptsAreExclusive
  <1>10. NoticesTellTheStanding' /\ NoticesFollowPayments'
    BY <1>5 DEF SubscriptionInv, NoticesTellTheStanding, NoticesFollowPayments, providerVars, IsLast,
                Subscribed
  <1> QED BY <1>3, <1>8, <1>9, <1>10, IdleFacts

\* What is known when a transaction that found nothing out of order commits: no
\* other request is about, and the row read is of the checkout the row is of.
LEMMA ApplyInOrder ==
  ASSUME SubscriptionInv, NEW h \in Handlers, Apply(h), ~disorder',
         NEW n \in DOMAIN notices, n = handler[h].notice,
         NEW c \in Checkouts, c = notices[n].sub
  PROVE  /\ ~disorder /\ n \notin receipts /\ receipts' = receipts \cup {n}
         /\ UNCHANGED providerVars
         /\ handler[h].row.of = subscription.of
         /\ \A o \in Handlers : handler'[o].step = "idle"
         /\ handler[h].signal = "activate" <=> notices[n].kind = "checkout"
         /\ handler[h].signal = Meaning(n) \/ (~IsLast(n) /\ Untold(c))
         /\ handler[h].signal = "activate" \/ Matches(handler[h].row, c) =>
              \A m \in receipts : m > n =>
                provider[c] = "paystack" /\ notices[n].kind = "change" /\ notices[m].sub = c
  <1>1. /\ handler[h].step = "apply" /\ receipts' = receipts \cup {n} /\ UNCHANGED providerVars
        /\ ~disorder /\ \A o \in Handlers \ {h} : handler[o].step = "idle"
    BY DEF Apply
  <1>2. n \notin receipts
    BY <1>1 DEF SubscriptionInv, ReceiptsAreExclusive
  <1>3. handler[h].row.of = subscription.of
    BY <1>1 DEF SubscriptionInv, RowsAreCurrent
  <1>4. \A o \in Handlers : handler'[o].step = "idle"
    BY <1>1, ApplyReceipts
  <1>5. /\ handler[h].signal = "activate" <=> notices[n].kind = "checkout"
        /\ handler[h].signal = Meaning(n) \/ (~IsLast(n) /\ Untold(c))
    BY <1>1 DEF SubscriptionInv, SignalsAreCurrent
  <1>6. provider[c] # "stripe" => provider[c] = "paystack"
    BY DEF SubscriptionInv, SubscriptionTypeOK, Providers
  <1>7. ASSUME handler[h].signal = "activate" \/ Matches(handler[h].row, c),
               NEW m \in receipts, m > n
        PROVE  provider[c] = "paystack" /\ notices[n].kind = "change" /\ notices[m].sub = c
    BY <1>6, <1>7 DEF Apply
  <1> QED BY <1>1, <1>2, <1>3, <1>4, <1>5, <1>7

\* A subscription the last news of which has come is as that says, and one
\* without news of it is not there.
LEMMA LastNews ==
  ASSUME SubscriptionInv, NEW n \in DOMAIN notices, NEW c \in Checkouts, c = notices[n].sub
  PROVE  \E last \in DOMAIN notices :
           /\ notices[last].sub = c /\ IsLast(last) /\ n <= last
           /\ standing[c] = notices[last].standing
           /\ notices[last].kind # "change" => standing[c] = "active"
  <1>1. PICK last \in DOMAIN notices :
          notices[last].sub = c /\ IsLast(last) /\ notices[last].standing = standing[c]
    BY DEF SubscriptionInv, NoticesTellTheStanding
  <1>2. n <= last
    <2>1. ~(n > last)
      BY <1>1 DEF IsLast
    <2>2. n \in Int /\ last \in Int
      BY NoticeFacts DEF SubscriptionInv
    <2> QED BY <2>1, <2>2
  <1>3. notices[last].kind # "change" => standing[c] = "active"
    BY <1>1 DEF SubscriptionInv, NoticesTellTheStanding
  <1> QED BY <1>1, <1>2, <1>3

\* Applied in order, a notice that finds the row says what the provider sees of its
\* subscription, unless news of that is still to come.
LEMMA ApplyIsCurrent ==
  ASSUME SubscriptionInv, NEW h \in Handlers, Apply(h), ~disorder',
         NEW n \in DOMAIN notices, n = handler[h].notice,
         NEW c \in Checkouts, c = notices[n].sub, ~Untold(c)',
         handler[h].signal = "activate" \/ Matches(handler[h].row, c)
  PROVE  /\ handler[h].signal \in {"activate", "paid"} <=> standing[c] = "active"
         /\ handler[h].signal = "payment_failed" <=> standing[c] = "attention"
         /\ standing[c] = "ended" => handler[h].signal = "ended"
  <1> DEFINE s == handler[h].signal
  <1>1. /\ n \notin receipts /\ receipts' = receipts \cup {n} /\ UNCHANGED providerVars
        /\ s = Meaning(n) \/ (~IsLast(n) /\ Untold(c))
        /\ \A m \in receipts : m > n =>
             provider[c] = "paystack" /\ notices[n].kind = "change" /\ notices[m].sub = c
    BY ApplyInOrder
  <1>2. PICK last \in DOMAIN notices :
          /\ notices[last].sub = c /\ IsLast(last) /\ n <= last
          /\ standing[c] = notices[last].standing
          /\ notices[last].kind # "change" => standing[c] = "active"
    BY LastNews
  <1>3. IsLast(last)' /\ DOMAIN notices' = DOMAIN notices /\ notices'[last].sub = c
    BY <1>1, <1>2 DEF IsLast, providerVars
  <1>4. last = n \/ last \in receipts
    BY <1>1, <1>2, <1>3 DEF Untold
  <1>5. ~Untold(c) \/ IsLast(n)
    <2> SUFFICES ASSUME NEW m \in DOMAIN notices \ receipts, notices[m].sub = c, IsLast(m)
                 PROVE  IsLast(n)
      BY DEF Untold
    <2>1. IsLast(m)' /\ notices'[m].sub = c /\ m \in DOMAIN notices'
      BY <1>1 DEF IsLast, providerVars
    <2>2. m \in receipts'
      BY <2>1 DEF Untold
    <2> QED BY <2>2, <1>1
  <1>6. s = Meaning(n)
    BY <1>1, <1>5
  <1>7. /\ notices[n].kind \in Kinds /\ notices[n].standing \in Standings
        /\ standing[c] \in Standings /\ n \in Int /\ last \in Int
    BY NoticeFacts DEF SubscriptionInv, SubscriptionTypeOK
  <1>8. s = SignalOf(notices[n].kind, standing[c])
    <2>1. CASE provider[c] = "paystack"
      BY <2>1, <1>6 DEF Meaning
    <2>2. CASE provider[c] # "paystack"
      <3>1. last = n
        BY <2>2, <1>1, <1>2, <1>4, <1>7
      <3> QED BY <3>1, <2>2, <1>2, <1>6 DEF Meaning
    <2> QED BY <2>1, <2>2
  <1>9. notices[n].kind # "change" => standing[c] = "active"
    <2>1. notices[n].kind # "change" => last = n
      BY <1>1, <1>2, <1>4, <1>7
    <2> QED BY <2>1, <1>2
  <1> QED BY <1>7, <1>8, <1>9, SignalFacts

\* Applied in order, the row stays that of the last payment applied.
LEMMA ApplyRowsAreCurrent ==
  ASSUME SubscriptionInv, NEW h \in Handlers, Apply(h)
  PROVE  RowsAreCurrent'
  <1> SUFFICES ASSUME ~disorder' PROVE RowsAreCurrent'
    BY DEF RowsAreCurrent
  <1>1. PICK n \in DOMAIN notices : n = handler[h].notice
    BY DEF SubscriptionInv, SubscriptionTypeOK, Apply
  <1>2. PICK c \in Checkouts : c = notices[n].sub
    BY NoticeFacts DEF SubscriptionInv
  <1> DEFINE s == handler[h].signal
             moves == s = "activate" \/ Matches(handler[h].row, c)
  <1>3. /\ ~disorder /\ receipts' = receipts \cup {n} /\ UNCHANGED providerVars
        /\ \A o \in Handlers : handler'[o].step = "idle"
        /\ s = "activate" <=> notices[n].kind = "checkout"
        /\ moves => \A m \in receipts : m > n => notices[n].kind = "change"
    BY <1>1, <1>2, ApplyInOrder
  <1>4. /\ s = "activate" => subscription'.of = c
        /\ s # "activate" => subscription'.of = subscription.of
    BY <1>1, <1>2, ApplyRow
  <1>5. \A k \in receipts' : k \in Int
    BY <1>3, NoticeFacts DEF SubscriptionInv, SubscriptionTypeOK
  <1>6. ASSUME NEW k \in receipts', notices[k].kind = "checkout",
               \A m \in receipts' : m > k => notices[m].kind # "checkout"
        PROVE  subscription'.of = notices[k].sub
    <2>1. CASE s = "activate"
      <3>1. notices[n].kind = "checkout" /\ \A m \in receipts : ~(m > n)
        BY <2>1, <1>3
      <3>2. k = n
        BY <3>1, <1>3, <1>5, <1>6
      <3> QED BY <3>2, <2>1, <1>2, <1>4
    <2>2. CASE s # "activate"
      <3>1. k \in receipts
        BY <2>2, <1>3, <1>6
      <3>2. \A m \in receipts : m > k => notices[m].kind # "checkout"
        BY <1>3, <1>6
      <3>3. subscription.of = notices[k].sub
        BY <3>1, <3>2, <1>3, <1>6 DEF SubscriptionInv, RowsAreCurrent
      <3> QED BY <3>3, <2>2, <1>4
    <2> QED BY <2>1, <2>2
  <1> QED BY <1>3, <1>6 DEF RowsAreCurrent, providerVars

\* Applied in order, the last notice to come brings the row it finds to where the
\* provider sees its subscription; one that finds no row leaves it as it is.
LEMMA ApplyFollows ==
  ASSUME SubscriptionInv, NEW h \in Handlers, Apply(h)
  PROVE  RowFollows' /\ ActiveIsPaid'
  <1> SUFFICES ASSUME ~disorder' PROVE RowFollows' /\ ActiveIsPaid'
    BY DEF RowFollows, ActiveIsPaid
  <1>1. PICK n \in DOMAIN notices : n = handler[h].notice
    BY DEF SubscriptionInv, SubscriptionTypeOK, Apply
  <1>2. PICK c \in Checkouts : c = notices[n].sub
    BY NoticeFacts DEF SubscriptionInv
  <1> DEFINE s == handler[h].signal
             moves == s = "activate" \/ Matches(handler[h].row, c)
  <1>3. /\ ~disorder /\ n \notin receipts /\ receipts' = receipts \cup {n} /\ UNCHANGED providerVars
        /\ handler[h].row.of = subscription.of
        /\ moves => \A m \in receipts : m > n => notices[m].sub = c
    BY <1>1, <1>2, ApplyInOrder
  <1>4. /\ \A k \in receipts' : k \in DOMAIN notices /\ k \in Int /\ notices[k].sub \in Checkouts
        /\ n \in Int
    BY <1>3, NoticeFacts DEF SubscriptionInv, SubscriptionTypeOK
  <1>5. /\ \A d \in Checkouts : Matches(subscription, d) <=> Matches(handler[h].row, d)
        /\ ~moves => subscription' = subscription
    BY <1>1, <1>2, <1>3, ApplyRow DEF Matches
  <1>6. \A d \in Checkouts : d # c /\ Untold(d) => Untold(d)'
    BY <1>2, <1>3 DEF Untold, IsLast, providerVars
  <1>7. CASE ~moves
    <2>1. \A d \in Checkouts : Matches(subscription, d) => d # c
      BY <1>5, <1>7
    <2>2. \A d \in Checkouts : Matches(subscription, d)' <=> Matches(subscription, d)
      BY <1>3, <1>5, <1>7 DEF Matches, providerVars
    <2>3. RowFollows'
      <3>1. ASSUME NEW k \in receipts', \A m \in receipts' : m <= k,
                   NEW d \in Checkouts, d = notices[k].sub, Matches(subscription, d), ~Untold(d)'
            PROVE  Reflects(d)'
        <4>1. d # c /\ ~Untold(d) /\ k \in receipts
          BY <3>1, <2>1, <1>2, <1>3, <1>6
        <4>2. Reflects(d)
          BY <4>1, <3>1, <1>3 DEF SubscriptionInv, RowFollows
        <4> QED BY <4>2, <1>3, <1>5, <1>7 DEF Reflects, providerVars
      <3> QED BY <3>1, <2>2, <1>3, <1>4 DEF RowFollows, providerVars
    <2>4. ActiveIsPaid'
      <3> SUFFICES ASSUME subscription.status = "active"
                   PROVE  \E d \in Checkouts :
                            Matches(subscription, d)' /\ (standing[d] = "active" \/ Untold(d)')
        BY <1>3, <1>5, <1>7 DEF ActiveIsPaid, providerVars
      <3>1. PICK d \in Checkouts : Matches(subscription, d) /\ (standing[d] = "active" \/ Untold(d))
        BY <1>3 DEF SubscriptionInv, ActiveIsPaid
      <3> QED BY <3>1, <2>1, <2>2, <1>6
    <2> QED BY <2>3, <2>4
  <1>8. CASE moves
    <2>1. /\ subscription'.of = IF s = "activate" THEN c ELSE subscription.of
          /\ subscription'.status = "active" <=> s \in {"activate", "paid"}
          /\ subscription'.status = "cancelled" <=> s = "ended"
          /\ subscription'.status = "past_due" <=> s = "payment_failed"
      BY <1>1, <1>2, <1>8, ApplyRow
    <2>2. Reflects(c)' \/ Untold(c)'
      <3> SUFFICES ASSUME ~Untold(c)' PROVE Reflects(c)'
        OBVIOUS
      <3>1. /\ s \in {"activate", "paid"} <=> standing[c] = "active"
            /\ s = "payment_failed" <=> standing[c] = "attention"
            /\ standing[c] = "ended" => s = "ended"
        BY <1>1, <1>2, <1>8, ApplyIsCurrent
      <3> QED BY <3>1, <2>1, <1>3 DEF Reflects, providerVars
    <2>3. RowFollows'
      <3>1. ASSUME NEW k \in receipts', \A m \in receipts' : m <= k PROVE notices[k].sub = c
        <4>1. k = n \/ (k \in receipts /\ k > n)
          BY <3>1, <1>3, <1>4
        <4> QED BY <4>1, <1>2, <1>3, <1>8
      <3> QED BY <3>1, <2>2, <1>3 DEF RowFollows, providerVars
    <2>4. ActiveIsPaid'
      <3>1. Matches(subscription, c)'
        <4>1. CASE s = "activate"
          <5>1. c # 0
            BY SubscriptionAssumption DEF Checkouts
          <5> QED BY <5>1, <4>1, <2>1, <1>3 DEF Matches, providerVars
        <4>2. CASE s # "activate"
          BY <4>2, <2>1, <1>3, <1>5, <1>8 DEF Matches, providerVars
        <4> QED BY <4>1, <4>2
      <3>2. subscription'.status = "active" => standing'[c] = "active" \/ Untold(c)'
        BY <2>2 DEF Reflects
      <3> QED BY <3>1, <3>2 DEF ActiveIsPaid
    <2> QED BY <2>3, <2>4
  <1> QED BY <1>7, <1>8

\* Applying a notice keeps the invariant, whichever came before it.
LEMMA ApplyKeeps ==
  ASSUME SubscriptionInv, NEW h \in Handlers, Apply(h)
  PROVE  SubscriptionInv'
  <1>1. /\ SubscriptionTypeOK' /\ ReceiptsAreExclusive'
        /\ NoticesTellTheStanding' /\ NoticesFollowPayments'
        /\ \A o \in Handlers : o = h \/ handler'[o] = handler[o]
        /\ handler'[h].step = "idle"
    BY ApplyReceipts
  <1>2. RowsAreCurrent' /\ RowFollows' /\ ActiveIsPaid'
    BY ApplyRowsAreCurrent, ApplyFollows
  <1>3. UNCHANGED providerVars /\ \A o \in Handlers : o # h /\ handler[o].step # "idle" => disorder'
    BY DEF Apply
  <1>4. SignalsAreCurrent'
    <2>1. ASSUME NEW o \in Handlers, handler'[o].step \in {"settle", "apply"}
          PROVE  /\ handler'[o] = handler[o] /\ handler[o].step \in {"settle", "apply"}
                 /\ disorder'
      BY <2>1, <1>1, <1>3
    <2> QED BY <2>1, <1>3
        DEF SubscriptionInv, SignalsAreCurrent, Meaning, IsLast, providerVars
  <1> QED BY <1>1, <1>2, <1>4 DEF SubscriptionInv

\* Time takes a subscription in trouble to its end, and no other.
LEMMA TimeKeeps ==
  ASSUME SubscriptionInv, GraceRunsOut \/ Sweep
  PROVE  SubscriptionInv'
  <1>1. /\ UNCHANGED <<providerVars, checkout, converted, receipts, handler, applied, disorder>>
        /\ subscription \in Row
    BY DEF GraceRunsOut, Sweep, SubscriptionInv, SubscriptionTypeOK
  <1>2. /\ subscription' \in Row /\ subscription'.of = subscription.of
        /\ \/ subscription'.status = subscription.status
           \/ subscription.status = "past_due" /\ subscription'.status = "cancelled"
    BY <1>1 DEF GraceRunsOut, Sweep, Row, Statuses, Graces
  <1>3. SubscriptionTypeOK' /\ ReceiptsAreExclusive'
    BY <1>1, <1>2 DEF SubscriptionInv, SubscriptionTypeOK, ReceiptsAreExclusive, HandlerStates,
                      providerVars
  <1>4. NoticesTellTheStanding' /\ NoticesFollowPayments' /\ SignalsAreCurrent' /\ RowsAreCurrent'
    BY <1>1, <1>2 DEF SubscriptionInv, NoticesTellTheStanding, NoticesFollowPayments,
       SignalsAreCurrent, RowsAreCurrent, Meaning, IsLast, Untold, Subscribed, providerVars
  <1>5. RowFollows' /\ ActiveIsPaid'
    BY <1>1, <1>2 DEF SubscriptionInv, RowFollows, ActiveIsPaid, Reflects, Matches, IsLast, Untold,
                      providerVars
  <1> QED BY <1>3, <1>4, <1>5 DEF SubscriptionInv

-----------------------------------------------------------------------------
\* Every notice, delivery and step of a handler keeps the invariant.
LEMMA NextSubscription == SubscriptionInv /\ [SubscriptionNext]_subscriptionVars => SubscriptionInv'
  <1> SUFFICES ASSUME SubscriptionInv, [SubscriptionNext]_subscriptionVars PROVE SubscriptionInv'
    OBVIOUS
  <1>1. CASE UNCHANGED subscriptionVars
    BY <1>1 DEF subscriptionVars, providerVars, SubscriptionInv, SubscriptionTypeOK, HandlerStates,
       ReceiptsAreExclusive, NoticesTellTheStanding, NoticesFollowPayments, SignalsAreCurrent,
       RowsAreCurrent, RowFollows, ActiveIsPaid, Meaning, IsLast, Untold, Subscribed, Matches, Reflects
  <1>2. ASSUME NEW c \in Checkouts, ProviderSteps(c) PROVE SubscriptionInv'
    BY <1>2, SendKeeps
  <1> QED BY <1>1, <1>2, AsideKeeps, ReadMeaningKeeps, ReceiptKeeps, ApplyKeeps, TimeKeeps
       DEF SubscriptionNext, ProviderSteps

\* The inductive invariant of billing holds of every reachable state.
THEOREM SubscriptionInvariance == SubscriptionSpec => []SubscriptionInv
  BY InitSubscription, NextSubscription, PTL DEF SubscriptionSpec

\* Every variable keeps its type.
THEOREM SubscriptionTypeCorrect == SubscriptionSpec => []SubscriptionTypeOK
  BY SubscriptionInvariance, PTL DEF SubscriptionInv

\* A notice is applied once, and what is receipted was applied, for any number of
\* deliveries and handlers (db/billing.ts recordWebhookReceipt).
THEOREM AppliedOnce == SubscriptionSpec => []NoticeAppliedOnce
  <1>1. SubscriptionInv => NoticeAppliedOnce
    <2> SUFFICES ASSUME SubscriptionInv, NEW n \in DOMAIN notices
                 PROVE  applied[n] <= 1 /\ (n \in receipts <=> applied[n] = 1)
      BY DEF NoticeAppliedOnce
    <2>1. n \in 1..MaxNotices
      BY NoticeFacts DEF SubscriptionInv
    <2> QED BY <2>1 DEF SubscriptionInv, ReceiptsAreExclusive
  <1> QED BY SubscriptionInvariance, <1>1, PTL

\* With every notice handled, an active plan has an active subscription behind it,
\* for any number of checkouts paid and of notices; and the plan is as the provider
\* sees the one subscription there is, as long as no two were live at once
\* (routes/billing.ts paystackEvent, stripeEvent, settle).
THEOREM Mirrors == SubscriptionSpec => []MirrorsProvider
  <1>1. SubscriptionInv => MirrorsProvider
    <2> SUFFICES ASSUME SubscriptionInv, Settled PROVE MirrorsProvider
      BY DEF MirrorsProvider
    <2>1. ~disorder /\ receipts = DOMAIN notices /\ \A c \in Checkouts : ~Untold(c)
      BY DEF Settled, Untold
    <2>2. subscription.status = "active" => \E c \in Checkouts : standing[c] = "active"
      BY <2>1 DEF SubscriptionInv, ActiveIsPaid
    <2>3. PICK N \in Nat : N = Len(notices) /\ DOMAIN notices = 1..N
      BY NoticeFacts DEF SubscriptionInv
    <2>4. CASE N = 0
      <3>1. \A c \in Checkouts : standing[c] = "none"
        BY <2>3, <2>4 DEF SubscriptionInv, NoticesTellTheStanding
      <3> QED BY <3>1, <2>2 DEF MirrorsProvider
    <2>5. CASE N # 0 /\ ~doubled
      <3>1. PICK n \in 1..N :
              /\ notices[n].kind = "checkout"
              /\ \A k \in (n + 1)..N : notices[k].kind # "checkout"
              /\ notices[n].sub = notices[N].sub
        <4>1. N \in DOMAIN notices
          BY <2>3, <2>5
        <4>2. NoticesFollowPayments
          BY DEF SubscriptionInv
        <4> QED BY <4>1, <4>2, <2>5 DEF NoticesFollowPayments
      <3>2. PICK c \in Checkouts : c = notices[N].sub
        BY <2>3, <2>5, NoticeFacts DEF SubscriptionInv
      <3>3. \A m \in 1..N : m > n => m \in (n + 1)..N
        OBVIOUS
      <3>4. subscription.of = c
        BY <3>1, <3>2, <3>3, <2>1, <2>3 DEF SubscriptionInv, RowsAreCurrent
      <3>5. Matches(subscription, c)
        BY <3>4, SubscriptionAssumption DEF Matches, Checkouts
      <3>6. N \in receipts /\ \A m \in receipts : m <= N
        BY <2>1, <2>3, <2>5
      <3>7. Reflects(c)
        BY <3>2, <3>5, <3>6, <2>1 DEF SubscriptionInv, RowFollows
      <3>8. standing[c] \in Standings \ {"none"}
        <4>1. standing[c] # "none"
          BY <3>2, <3>6, <2>1, LastNews DEF SubscriptionInv, NoticesTellTheStanding
        <4> QED BY <4>1 DEF SubscriptionInv, SubscriptionTypeOK
      <3>9. \A d \in Checkouts : Subscribed(d) => d = c
        BY <3>2, <2>3, <2>5 DEF SubscriptionInv, NoticesTellTheStanding
      <3>10. (\A d \in Checkouts : ~Subscribed(d)) => standing[c] = "ended"
        BY <3>8 DEF Subscribed, Standings
      <3> QED BY <3>7, <3>9, <3>10, <2>2 DEF MirrorsProvider, Reflects, Subscribed, PlanHolds
    <2>6. CASE doubled
      BY <2>2, <2>6 DEF MirrorsProvider
    <2> QED BY <2>4, <2>5, <2>6
  <1> QED BY SubscriptionInvariance, <1>1, PTL

=============================================================================
