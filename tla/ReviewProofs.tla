---------------------------- MODULE ReviewProofs ----------------------------
(***************************************************************************)
(* Whoever waits on the page for the plan and for the confirmation has the *)
(* transactions built that were reviewed, for any accounts, visits,        *)
(* requests under way and reloads.                                         *)
(***************************************************************************)
EXTENDS ReviewSafety, TLAPS

\* What the steps keep of the form of the state.
Shape ==
    /\ DOMAIN store = {"source", "account", "asset", "claim", "plan", "phase"}
    /\ DOMAIN proceeds = 1 .. MaxVisits

\* A plan is asked for, and a confirmation is under way, only on the page that began it.
Waiting ==
    /\ \A n \in 1 .. MaxVisits : proceeds[n].pc # "idle" => page = "analyze" /\ n = visits
    /\ confirming => page = "review"

\* From the confirmation on the store's plan is the one that was shown.
Agreed == confirming \/ page = "execute" => consented = store.plan.hash

Reviewed == Shape /\ (Waits => Waiting /\ Agreed /\ BuiltAsReviewed)

-----------------------------------------------------------------------------
(***************************************************************************)
(* The steps that are the same to every page.                              *)
(***************************************************************************)

\* A step that changes neither the page nor the plan, nor what is under way on it.
LEMMA QuietKeeps ==
    ASSUME Reviewed, UNCHANGED <<page, visits, proceeds, confirming, consented, built>>,
           DOMAIN store' = DOMAIN store, store'.plan = store.plan
    PROVE  Reviewed'
BY DEF Reviewed, Shape, Waiting, Agreed, BuiltAsReviewed

\* Where no plan is asked for on the analyze page, nothing is under way on any visit.
LEMMA NothingProceeds ==
    ASSUME Reviewed, Waits, page # "analyze" PROVE \A n \in 1 .. MaxVisits : proceeds[n].pc = "idle"
BY DEF Reviewed, Waiting

\* A page is opened where nothing is under way.
LEMMA OpensKeeps ==
    ASSUME Reviewed, NEW a, NEW s, NEW rs, Opens(a, s, rs), DOMAIN s = DOMAIN store,
           Waits => ~confirming' /\ (\A n \in 1 .. MaxVisits : proceeds'[n].pc = "idle"),
           DOMAIN proceeds' = DOMAIN proceeds, built' = built, built = Nothing
    PROVE  Reviewed'
<1>1. page' = "analyze"
  BY DEF Opens
<1>2. DOMAIN store' = DOMAIN s
  BY Zenon DEF Opens
<1>3. QED
  BY <1>1, <1>2 DEF Reviewed, Shape, Waiting, Agreed, BuiltAsReviewed

-----------------------------------------------------------------------------
(***************************************************************************)
(* The account, its plan, and the answers.                                 *)
(***************************************************************************)

LEMMA AccountKeeps == ASSUME Reviewed, NEW a \in Accounts, AccountChanges(a) PROVE Reviewed'
BY QuietKeeps DEF AccountChanges

LEMMA RefreshKeeps == ASSUME Reviewed, Refresh PROVE Reviewed'
BY QuietKeeps DEF Refresh

LEMMA ReadServedKeeps == ASSUME Reviewed, NEW r \in asked, ReadServed(r) PROVE Reviewed'
BY QuietKeeps DEF ReadServed

LEMMA ReadLandsKeeps == ASSUME Reviewed, NEW r \in asked, ReadLands(r) PROVE Reviewed'
<1>1. DOMAIN store' = DOMAIN store
  BY Zenon DEF ReadLands, SetAccount
<1>2. store'.plan = store.plan
  BY <1>1 DEF ReadLands, SetAccount, Reviewed, Shape
<1>3. QED
  BY <1>1, <1>2, QuietKeeps DEF ReadLands

LEMMA PlanLandsKeeps ==
    ASSUME Reviewed, NEW r \in asked, NEW blocked \in BOOLEAN, PlanLands(r, blocked) PROVE Reviewed'
<1>1. DOMAIN store' = DOMAIN store
  BY Zenon DEF PlanLands, Reconciled, Defaulted
<1>2. store'.plan = store.plan
  BY <1>1 DEF PlanLands, Reconciled, Defaulted, Reviewed, Shape
<1>3. QED
  BY <1>1, <1>2, QuietKeeps DEF PlanLands

LEMMA RequestFailsKeeps == ASSUME Reviewed, NEW r \in asked, RequestFails(r) PROVE Reviewed'
BY QuietKeeps DEF RequestFails

LEMMA AnswersKeep ==
    ASSUME Reviewed, NEW answer, AnswerAsset(answer) \/ AnswerClaim(answer) PROVE Reviewed'
<1>1. DOMAIN store' = DOMAIN store
  BY Zenon DEF AnswerAsset, AnswerClaim
<1>2. store'.plan = store.plan
  BY <1>1 DEF AnswerAsset, AnswerClaim, Reviewed, Shape
<1>3. QED
  BY <1>1, <1>2, QuietKeeps DEF AnswerAsset, AnswerClaim

-----------------------------------------------------------------------------
(***************************************************************************)
(* The plan that is asked for, and its confirmation.                       *)
(***************************************************************************)

LEMMA ProceedKeeps == ASSUME Reviewed, Proceed PROVE Reviewed'
BY DEF Proceed, CanProceed, Cards, Reviewed, Shape, Waiting, Agreed, BuiltAsReviewed

\* The handler goes on, on the page that began it.
LEMMA DestinationCheckedKeeps ==
    ASSUME Reviewed, NEW n \in 1 .. MaxVisits, DestinationChecked(n) PROVE Reviewed'
<1>1. DOMAIN store' = DOMAIN store
  BY Zenon DEF DestinationChecked
<1>2. store'.plan = store.plan
  BY <1>1 DEF DestinationChecked, Reviewed, Shape
<1>3. /\ UNCHANGED <<page, visits, confirming, consented, built>>
      /\ proceeds[n].pc # "idle"
      /\ DOMAIN proceeds' = DOMAIN proceeds
      /\ \A k \in 1 .. MaxVisits : k # n => proceeds'[k] = proceeds[k]
  BY DEF DestinationChecked, Reviewed, Shape
<1>4. QED
  BY <1>1, <1>2, <1>3 DEF Reviewed, Shape, Waiting, Agreed, BuiltAsReviewed

\* The handler ends, and the page stays.
LEMMA ProceedEndsKeeps ==
    ASSUME Reviewed, NEW n \in 1 .. MaxVisits, FinalPlanUnanswered(n) \/ ProceedFails(n)
    PROVE  Reviewed'
<1>1. /\ UNCHANGED <<page, store, visits, confirming, consented, built>>
      /\ proceeds' = [proceeds EXCEPT ![n] = NotProceeding]
  BY DEF FinalPlanUnanswered, ProceedFails
<1>2. QED
  BY <1>1 DEF NotProceeding, Reviewed, Shape, Waiting, Agreed, BuiltAsReviewed

\* The plan is set while nothing is confirmed: the handler ran on the analyze page, and ends.
LEMMA FinalPlanLandsKeeps ==
    ASSUME Reviewed, NEW n \in 1 .. MaxVisits, FinalPlanLands(n), built = Nothing PROVE Reviewed'
<1>1. /\ page' = "review"
      /\ UNCHANGED <<visits, confirming, consented, built>>
      /\ proceeds[n].pc # "idle"
      /\ proceeds' = [proceeds EXCEPT ![n] = NotProceeding]
  BY DEF FinalPlanLands
<1>2. DOMAIN store' = DOMAIN store
  BY Zenon DEF FinalPlanLands
<1>3. Waits => ~confirming
  BY <1>1 DEF Reviewed, Waiting
<1>4. Waits => \A k \in 1 .. MaxVisits : proceeds'[k].pc = "idle"
  BY <1>1 DEF NotProceeding, Reviewed, Shape, Waiting
<1>5. QED
  BY <1>1, <1>2, <1>3, <1>4 DEF Reviewed, Shape, Waiting, Agreed, BuiltAsReviewed

LEMMA PressConfirmKeeps == ASSUME Reviewed, PressConfirm, built = Nothing PROVE Reviewed'
BY DEF PressConfirm, Reviewed, Shape, Waiting, Agreed, BuiltAsReviewed

LEMMA ConfirmHeldKeeps == ASSUME Reviewed, ConfirmHeld, built = Nothing PROVE Reviewed'
BY DEF ConfirmHeld, Reviewed, Shape, Waiting, Agreed, BuiltAsReviewed

LEMMA ConfirmedKeeps == ASSUME Reviewed, Confirmed, built = Nothing PROVE Reviewed'
<1>1. DOMAIN store' = DOMAIN store
  BY Zenon DEF Confirmed
<1>2. store'.plan = store.plan
  BY <1>1 DEF Confirmed, Reviewed, Shape
<1>3. QED
  BY <1>1, <1>2 DEF Confirmed, Reviewed, Shape, Waiting, Agreed, BuiltAsReviewed

\* What is built is what is sent, and the API compared that with the plan that was confirmed.
LEMMA BuildKeeps == ASSUME Reviewed, BuildFirst, built = Nothing PROVE Reviewed'
BY DEF BuildFirst, Accepts, Reviewed, Shape, Waiting, Agreed, BuiltAsReviewed

LEMMA BuildAsksKeeps == ASSUME Reviewed, BuildAsks PROVE Reviewed'
<1>1. DOMAIN store' = DOMAIN store
  BY Zenon DEF BuildAsks
<1>2. store'.plan = store.plan
  BY <1>1 DEF BuildAsks, Reviewed, Shape
<1>3. QED
  BY <1>1, <1>2, QuietKeeps DEF BuildAsks

-----------------------------------------------------------------------------
(***************************************************************************)
(* The pages.                                                              *)
(***************************************************************************)

LEMMA OpenAccountKeeps ==
    ASSUME Reviewed, NEW a \in Accounts, OpenAccount(a), built = Nothing PROVE Reviewed'
<1>1. PICK phase : Opens(a, [store EXCEPT !.phase = phase], asked)
  BY DEF OpenAccount
<1>2. page = "entry" /\ UNCHANGED <<proceeds, confirming, built>>
  BY DEF OpenAccount
<1>3. Waits => ~confirming
  BY <1>2 DEF Reviewed, Waiting
<1>4. Waits => \A n \in 1 .. MaxVisits : proceeds'[n].pc = "idle"
  BY <1>2, NothingProceeds
<1>5. QED
  BY <1>1, <1>2, <1>3, <1>4, OpensKeeps

LEMMA BackToAnalyzeKeeps == ASSUME Reviewed, BackToAnalyze, built = Nothing PROVE Reviewed'
<1>1. /\ page = "review" /\ UNCHANGED <<proceeds, confirming, built>>
      /\ Waits => ~confirming
      /\ Opens(store.source, [store EXCEPT !.phase = "PREFLIGHT_COMPLETE"], asked)
  BY DEF BackToAnalyze, Stays
<1>2. Waits => \A n \in 1 .. MaxVisits : proceeds'[n].pc = "idle"
  BY <1>1, NothingProceeds
<1>3. QED
  BY <1>1, <1>2, OpensKeeps

LEMMA BuildRefusedKeeps == ASSUME Reviewed, BuildRefused, built = Nothing PROVE Reviewed'
<1>1. /\ page = "execute" /\ UNCHANGED <<proceeds, confirming, built>>
      /\ Opens(store.source, [store EXCEPT !.plan = Nothing, !.phase = "IDLE"], asked)
  BY DEF BuildRefused
<1>2. Waits => ~confirming
  BY <1>1 DEF Reviewed, Waiting
<1>3. Waits => \A n \in 1 .. MaxVisits : proceeds'[n].pc = "idle"
  BY <1>1, NothingProceeds
<1>4. DOMAIN [store EXCEPT !.plan = Nothing, !.phase = "IDLE"] = DOMAIN store
  BY Zenon
<1>5. QED
  BY <1>1, <1>2, <1>3, <1>4, OpensKeeps

\* A page is left only when nothing is under way on it.
LEMMA LeaveKeeps ==
    ASSUME Reviewed, NEW from \in {"analyze", "review"}, NEW to \in {"entry", "review"}, Leave(from, to)
    PROVE  Reviewed'
<1>1. /\ page = from /\ page' = to
      /\ UNCHANGED <<store, visits, proceeds, confirming, consented, built>>
      /\ Waits => ~confirming /\ (page = "analyze" => proceeds[visits].pc = "idle")
  BY DEF Leave, Stays
<1>2. Waits => \A n \in 1 .. MaxVisits : proceeds[n].pc = "idle"
  BY <1>1 DEF Reviewed, Waiting
<1>3. QED
  BY <1>1, <1>2 DEF Reviewed, Shape, Waiting, Agreed, BuiltAsReviewed

LEMMA LeaveCloseKeeps == ASSUME Reviewed, LeaveClose, built = Nothing PROVE Reviewed'
<1>1. DOMAIN store' = {"source", "account", "asset", "claim", "plan", "phase"}
  BY DEF LeaveClose, EmptyStore
<1>2. QED
  BY <1>1, NothingProceeds DEF LeaveClose, Reviewed, Shape, Waiting, Agreed, BuiltAsReviewed

LEMMA TabReloadsKeeps == ASSUME Reviewed, TabReloads, built = Nothing PROVE Reviewed'
<1>1. /\ ~confirming' /\ built' = built
      /\ DOMAIN proceeds' = DOMAIN proceeds
      /\ \A n \in 1 .. MaxVisits : proceeds'[n].pc = "idle"
  BY DEF TabReloads, NotProceeding, Reviewed, Shape
<1>2. DOMAIN EmptyStore = DOMAIN store
  BY DEF EmptyStore, Reviewed, Shape
<1>3. CASE page' = "entry" /\ store' = EmptyStore
  BY <1>1, <1>2, <1>3 DEF Reviewed, Shape, Waiting, Agreed, BuiltAsReviewed
<1>4. CASE \E a : Opens(a, EmptyStore, {})
  BY <1>1, <1>2, <1>4, OpensKeeps
<1>5. QED
  BY <1>3, <1>4 DEF TabReloads

-----------------------------------------------------------------------------
LEMMA ReviewedInit == ASSUME ReviewInit PROVE Reviewed
<1>1. DOMAIN store = {"source", "account", "asset", "claim", "plan", "phase"}
  BY DEF ReviewInit, EmptyStore
<1>2. QED
  BY <1>1 DEF ReviewInit, NotProceeding, Reviewed, Shape, Waiting, Agreed, BuiltAsReviewed

LEMMA ReviewedKept == ASSUME Reviewed, [ReviewNext]_reviewVars PROVE Reviewed'
<1>1. CASE UNCHANGED reviewVars
  BY <1>1, QuietKeeps DEF reviewVars
<1>2. CASE ReviewNext
  <2>1. built = Nothing
    BY <1>2 DEF ReviewNext
  <2>2. CASE \E a \in Accounts : AccountChanges(a)
    BY <2>2, AccountKeeps
  <2>3. CASE RequestSteps
    BY <2>3, RefreshKeeps, ReadServedKeeps, ReadLandsKeeps, PlanLandsKeeps, RequestFailsKeeps
       DEF RequestSteps
  <2>4. CASE Answering
    BY <2>4, AnswersKeep DEF Answering
  <2>5. CASE Planning
    BY <2>1, <2>5, ProceedKeeps, DestinationCheckedKeeps, ProceedEndsKeeps, FinalPlanLandsKeeps
       DEF Planning
  <2>6. CASE PageSteps
    BY <2>1, <2>6, OpenAccountKeeps, LeaveKeeps, BackToAnalyzeKeeps, LeaveCloseKeeps, TabReloadsKeeps
       DEF PageSteps
  <2>7. CASE Confirming
    BY <2>1, <2>7, PressConfirmKeeps, ConfirmHeldKeeps, ConfirmedKeeps, BuildKeeps, BuildAsksKeeps,
       BuildRefusedKeeps DEF Confirming
  <2>8. QED
    BY <1>2, <2>2, <2>3, <2>4, <2>5, <2>6, <2>7 DEF ReviewNext
<1>3. QED
  BY <1>1, <1>2

\* Whoever waits on the page while a plan or a confirmation is under way has what was
\* reviewed built, whatever else the tab, the account and the requests do.
THEOREM BuiltIsReviewed == ReviewSpec => [](Waits => BuiltAsReviewed)
<1>1. Reviewed => (Waits => BuiltAsReviewed)
  BY DEF Reviewed
<1>2. QED
  BY <1>1, ReviewedInit, ReviewedKept, PTL DEF ReviewSpec

-----------------------------------------------------------------------------
(***************************************************************************)
(* The choices are dropped at the consent, and not written after it.       *)
(***************************************************************************)

\* Before the phase of a consent there is a consent, and the page that carries it out.
Forgotten ==
    /\ page = "execute" => store.phase \in AfterConsent
    /\ NothingKeptAfterConsent

\* Nothing is kept of a store whose phase is past the consent.
LEMMA KeepsForgotten ==
    ASSUME NEW a, NEW before, store'.phase \in AfterConsent PROVE Kept(store', a, before) = before
BY DEF Kept, Keepable

\* A step that leaves the phase alone, and does not go on to the execute page.
LEMMA SamePhaseForgets ==
    ASSUME Forgotten, store'.phase = store.phase, page' = "execute" => page = "execute",
           kept' = kept \/ KeepsChoices
    PROVE  Forgotten'
BY KeepsForgotten DEF Forgotten, NothingKeptAfterConsent, KeepsChoices

\* A step back to a phase before the consent.
LEMMA EarlierPhaseForgets ==
    ASSUME store'.phase \notin AfterConsent, page' # "execute" PROVE Forgotten'
BY DEF Forgotten, NothingKeptAfterConsent

LEMMA OpensForgets ==
    ASSUME Forgotten, NEW a, NEW s, NEW rs, Opens(a, s, rs), DOMAIN s = DOMAIN store, Shape,
           s.phase = store.phase \/ s.phase \notin AfterConsent
    PROVE  Forgotten'
<1>1. page' = "analyze" /\ KeepsChoices
  BY DEF Opens
<1>2. store'.phase = s.phase
  BY DEF Opens, Shape
<1>3. QED
  BY <1>1, <1>2, SamePhaseForgets, EarlierPhaseForgets

LEMMA RequestStepsForget == ASSUME Reviewed, Forgotten, RequestSteps PROVE Forgotten'
<1>1. CASE Refresh \/ \E r \in asked : ReadServed(r) \/ RequestFails(r)
  BY <1>1, SamePhaseForgets DEF Refresh, ReadServed, RequestFails
<1>2. ASSUME NEW r \in asked, ReadLands(r) PROVE Forgotten'
  <2>1. store'.phase = store.phase
    BY <1>2 DEF ReadLands, SetAccount, Reviewed, Shape
  <2>2. QED
    BY <1>2, <2>1, SamePhaseForgets DEF ReadLands
<1>3. ASSUME NEW r \in asked, NEW blocked \in BOOLEAN, PlanLands(r, blocked) PROVE Forgotten'
  <2>1. store'.phase = store.phase
    BY <1>3 DEF PlanLands, Reconciled, Defaulted, Reviewed, Shape
  <2>2. QED
    BY <1>3, <2>1, SamePhaseForgets DEF PlanLands
<1>4. QED
  BY <1>1, <1>2, <1>3 DEF RequestSteps

LEMMA AnsweringForgets == ASSUME Reviewed, Forgotten, Answering PROVE Forgotten'
<1> SUFFICES ASSUME NEW answer, AnswerAsset(answer) \/ AnswerClaim(answer) PROVE Forgotten'
  BY DEF Answering
<1>1. store'.phase = store.phase
  BY DEF AnswerAsset, AnswerClaim, Reviewed, Shape
<1>2. QED
  BY <1>1, SamePhaseForgets DEF AnswerAsset, AnswerClaim

LEMMA PlanningForgets == ASSUME Reviewed, Forgotten, Planning PROVE Forgotten'
<1>1. CASE Proceed
  BY <1>1, SamePhaseForgets DEF Proceed
<1>2. ASSUME NEW n \in 1 .. MaxVisits, DestinationChecked(n) PROVE Forgotten'
  <2>1. store'.phase = store.phase
    BY <1>2 DEF DestinationChecked, Reviewed, Shape
  <2>2. QED
    BY <1>2, <2>1, SamePhaseForgets DEF DestinationChecked
<1>3. ASSUME NEW n \in 1 .. MaxVisits, FinalPlanUnanswered(n) \/ ProceedFails(n) PROVE Forgotten'
  BY <1>3, SamePhaseForgets DEF FinalPlanUnanswered, ProceedFails
<1>4. ASSUME NEW n \in 1 .. MaxVisits, FinalPlanLands(n) PROVE Forgotten'
  <2>1. store'.phase = "PREFLIGHT_COMPLETE" /\ page' = "review"
    BY <1>4 DEF FinalPlanLands, Reviewed, Shape
  <2>2. QED
    BY <2>1, EarlierPhaseForgets DEF AfterConsent
<1>5. QED
  BY <1>1, <1>2, <1>3, <1>4 DEF Planning

LEMMA PageStepsForget == ASSUME Reviewed, Forgotten, PageSteps PROVE Forgotten'
<1>1. ASSUME NEW a \in Accounts, OpenAccount(a) PROVE Forgotten'
  <2>1. PICK phase \in {"ANALYZING", store.phase} : Opens(a, [store EXCEPT !.phase = phase], asked)
    BY <1>1 DEF OpenAccount
  <2>2. QED
    BY <2>1, OpensForgets DEF AfterConsent, Reviewed, Shape
<1>2. ASSUME NEW from, NEW to \in {"entry", "review"}, Leave(from, to) PROVE Forgotten'
  BY <1>2, SamePhaseForgets DEF Leave
<1>3. CASE BackToAnalyze
  BY <1>3, OpensForgets DEF BackToAnalyze, AfterConsent, Reviewed, Shape
<1>4. CASE LeaveClose
  BY <1>4, EarlierPhaseForgets DEF LeaveClose, EmptyStore, AfterConsent
<1>5. CASE TabReloads
  <2>1. EmptyStore.phase = "IDLE" /\ DOMAIN EmptyStore = DOMAIN store
    BY DEF EmptyStore, Reviewed, Shape
  <2>2. CASE page' = "entry" /\ store' = EmptyStore
    BY <2>1, <2>2, EarlierPhaseForgets DEF AfterConsent
  <2>3. CASE \E a : Opens(a, EmptyStore, {})
    BY <2>1, <2>3, OpensForgets DEF AfterConsent, Reviewed
  <2>4. QED
    BY <1>5, <2>2, <2>3 DEF TabReloads
<1>6. QED
  BY <1>1, <1>2, <1>3, <1>4, <1>5 DEF PageSteps

LEMMA ConfirmingForgets == ASSUME Reviewed, Forgotten, Confirming PROVE Forgotten'
<1>1. CASE PressConfirm \/ ConfirmHeld \/ BuildFirst
  BY <1>1, SamePhaseForgets DEF PressConfirm, ConfirmHeld, BuildFirst
<1>2. CASE Confirmed
  <2>1. store'.phase = "STEP_EXECUTING" /\ kept' = Kept(store', KeptFor(store, page, view.acc), Nothing)
    BY <1>2 DEF Confirmed, Reviewed, Shape
  <2>2. QED
    BY <2>1, KeepsForgotten DEF AfterConsent, Forgotten, NothingKeptAfterConsent
<1>3. CASE BuildAsks
  <2>1. store'.phase = "STEP_FAILED" /\ page = "execute" /\ KeepsChoices
    BY <1>3 DEF BuildAsks, Reviewed, Shape
  <2>2. QED
    BY <2>1, KeepsForgotten DEF AfterConsent, Forgotten, NothingKeptAfterConsent, KeepsChoices
<1>4. CASE BuildRefused
  <2>1. DOMAIN [store EXCEPT !.plan = Nothing, !.phase = "IDLE"] = DOMAIN store
    BY Zenon
  <2>2. [store EXCEPT !.plan = Nothing, !.phase = "IDLE"].phase = "IDLE"
    BY DEF Reviewed, Shape
  <2>3. QED
    BY <1>4, <2>1, <2>2, OpensForgets DEF BuildRefused, AfterConsent, Reviewed
<1>5. QED
  BY <1>1, <1>2, <1>3, <1>4 DEF Confirming

LEMMA ForgottenInit == ASSUME ReviewInit PROVE Forgotten
BY DEF ReviewInit, EmptyStore, AfterConsent, Forgotten, NothingKeptAfterConsent

LEMMA ForgottenKept == ASSUME Reviewed, Forgotten, [ReviewNext]_reviewVars PROVE Forgotten'
<1>1. CASE UNCHANGED reviewVars \/ \E a \in Accounts : AccountChanges(a)
  BY <1>1, SamePhaseForgets DEF reviewVars, AccountChanges
<1>2. QED
  BY <1>1, RequestStepsForget, AnsweringForgets, PlanningForgets, PageStepsForget, ConfirmingForgets
     DEF ReviewNext

\* The choices a tab keeps do not outlive the consent, whether or not the person waits, and
\* whatever comes back late.
THEOREM NothingKept == ReviewSpec => []NothingKeptAfterConsent
<1>1. Reviewed /\ Forgotten => NothingKeptAfterConsent
  BY DEF Forgotten
<1>2. QED
  BY <1>1, ReviewedInit, ReviewedKept, ForgottenInit, ForgottenKept, PTL DEF ReviewSpec
-----------------------------------------------------------------------------
(***************************************************************************)
(* The plan on screen is the one for the answers on screen, or the page    *)
(* says that another is on its way, or that it failed.                     *)
(***************************************************************************)

RequestFields == {"visit", "acc", "claim", "newest", "reading", "read"}

\* Every request is of a visit there has been, and nothing is under way on one to come.
Visited ==
    /\ DOMAIN view = DOMAIN NoView
    /\ visits \in 0 .. MaxVisits
    /\ \A r \in asked : DOMAIN r = RequestFields /\ r.visit \in 0 .. visits
    /\ \A n \in 1 .. MaxVisits :
          /\ DOMAIN proceeds[n] = DOMAIN NotProceeding
          /\ n > visits => proceeds[n].pc = "idle"

\* What is kept, asked for or confirmed is about an account.
Named ==
    /\ store.source \in Accounts \cup {Nothing}
    /\ confirming \/ page = "execute" => store.source # Nothing
    /\ confirming => page # "execute"
    /\ kept # Nothing => kept.acc \in Accounts
    /\ \A n \in 1 .. MaxVisits : proceeds[n].pc # "idle" => proceeds[n].acc \in Accounts

\* The newest request of the page on screen is for the answers `planned` says.
Asking ==
    page = "analyze" =>
        \A r \in asked : r.visit = visits /\ r.newest => r.claim = view.planned[view.acc]

\* The answers are those the plan was asked for, except one that was dropped before the
\* page had its account; and so is the plan.
OnScreenFits ==
    IF page = "analyze"
       THEN /\ visits # 0 /\ view.acc \in Accounts
            /\ proceeds[visits].pc # "idle" => proceeds[visits].acc = view.acc
            /\ store.claim[view.acc] \in {"none", view.planned[view.acc]}
            /\ view.plan.shown /\ ~view.busy /\ ~view.failed =>
                  view.plan.claim = view.planned[view.acc]
       ELSE ~view.loaded

Tracked == Shape /\ Visited /\ Named /\ Asking /\ OnScreenFits

LEMMA KeptForAccount ==
    ASSUME NEW s, NEW p, NEW a, s.source \in Accounts \cup {Nothing}, p = "analyze" => a \in Accounts
    PROVE  KeptFor(s, p, a) \in Accounts \cup {Nothing}
BY DEF KeptFor, ShowsReview

LEMMA KeptOfAccount ==
    ASSUME NEW s, NEW a \in Accounts \cup {Nothing}, NEW before,
           before # Nothing => before.acc \in Accounts
    PROVE  Kept(s, a, before) # Nothing => Kept(s, a, before).acc \in Accounts
BY DEF Kept, Snapshot

\* What is kept after any change of the store.
LEMMA KeepsNamed ==
    ASSUME KeepsChoices, kept # Nothing => kept.acc \in Accounts,
           store'.source \in Accounts \cup {Nothing}, page' = "analyze" => view'.acc \in Accounts
    PROVE  kept' # Nothing => kept'.acc \in Accounts
<1>1. KeptFor(store', page', view'.acc) \in Accounts \cup {Nothing}
  BY KeptForAccount
<1>2. PICK a \in Accounts \cup {Nothing} : a = KeptFor(store', page', view'.acc)
  BY <1>1
<1>3. kept' = Kept(store', a, kept)
  BY <1>2 DEF KeepsChoices
<1>4. QED
  BY <1>3, KeptOfAccount

\* The requests after one more: those of other visits, overtaken ones, and the one.
LEMMA RequestsAfter ==
    ASSUME NEW rs, \A r \in rs : DOMAIN r = RequestFields,
           NEW n, NEW a, NEW kind, NEW claims, NEW q \in WithRequest(rs, n, a, kind, claims)
    PROVE  /\ DOMAIN q = RequestFields
           /\ \/ q \in rs /\ q.visit # n
              \/ q.visit = n /\ ~q.newest
              \/ q.visit = n /\ q.claim = claims[a]
<1>1. CASE q \in rs /\ q.visit # n
  BY <1>1
<1>2. CASE q = Request(n, a, kind, claims)
  BY <1>2 DEF Request, RequestFields
<1>3. ASSUME NEW r \in rs, r.visit = n,
             q = [r EXCEPT !.newest = FALSE, !.reading = @ /\ kind = "replan"]
      PROVE  DOMAIN q = RequestFields /\ q.visit = n /\ ~q.newest
  <2>1. DOMAIN r = RequestFields
    OBVIOUS
  <2>2. QED
    BY <1>3, <2>1 DEF RequestFields
<1>4. QED
  BY <1>1, <1>2, <1>3 DEF WithRequest

\* A page is opened: its answers are the store's, and its one request is for them.
LEMMA OpensTracks ==
    ASSUME Tracked, NEW a \in Accounts, NEW s, NEW rs \in SUBSET asked, Opens(a, s, rs),
           DOMAIN s = DOMAIN store, s.source \in Accounts \cup {Nothing},
           confirming' => s.source # Nothing,
           proceeds' = proceeds \/ proceeds' = [n \in 1 .. MaxVisits |-> NotProceeding]
    PROVE  Tracked'
<1> DEFINE claims == IF kept # Nothing /\ kept.acc = a /\ HoldsNoDecisions(s, a)
                        THEN kept.claim ELSE s.claim
           new == Request(visits + 1, a, "reload", claims)
<1>1. /\ page' = "analyze" /\ visits' = visits + 1 /\ visits < MaxVisits
      /\ view' = [NoView EXCEPT !.acc = a, !.planned = claims, !.busy = TRUE]
      /\ asked' = rs \cup {new}
      /\ KeepsChoices
  BY DEF Opens
<1>2. PICK source \in {s.source, a} : store' = [s EXCEPT !.claim = claims, !.source = source]
  BY DEF Opens
<1>3. /\ store'.claim = claims /\ store'.source = source
      /\ DOMAIN store' = DOMAIN store
  BY <1>2 DEF Tracked, Shape
<1>4. /\ DOMAIN new = RequestFields /\ new.visit = visits + 1 /\ new.claim = claims[a]
  BY DEF Request, RequestFields
<1>5. /\ DOMAIN view' = DOMAIN NoView /\ view'.acc = a /\ view'.planned = claims
      /\ ~view'.plan.shown
  BY <1>1 DEF NoView, NoPlan
<1> HIDE DEF new, claims
<1>6. visits' \in 1 .. MaxVisits /\ visits \in 0 .. MaxVisits
  BY <1>1, ReviewAssumption DEF Tracked, Visited
<1>7. \A r \in asked' : DOMAIN r = RequestFields /\ r.visit \in 0 .. visits'
                        /\ (r.visit = visits' => r.claim = claims[a])
  BY <1>1, <1>4, <1>6 DEF Tracked, Visited
<1>8. /\ DOMAIN proceeds' = 1 .. MaxVisits
      /\ \A n \in 1 .. MaxVisits :
            /\ DOMAIN proceeds'[n] = DOMAIN NotProceeding
            /\ n > visits => proceeds'[n].pc = "idle"
            /\ proceeds'[n].pc # "idle" => proceeds'[n].acc \in Accounts
  <2>1. CASE proceeds' = proceeds
    BY <2>1 DEF Tracked, Visited, Named, Shape
  <2>2. CASE proceeds' = [n \in 1 .. MaxVisits |-> NotProceeding]
    <3>1. NotProceeding.pc = "idle"
      BY DEF NotProceeding
    <3>2. QED
      BY <2>2, <3>1
  <2>3. QED
    BY <2>1, <2>2
<1>9. Visited'
  BY <1>1, <1>5, <1>6, <1>7, <1>8 DEF Visited
<1>10. kept' # Nothing => kept'.acc \in Accounts
  BY <1>1, <1>3, <1>5, KeepsNamed DEF Tracked, Named
<1>11. Named'
  BY <1>1, <1>2, <1>3, <1>8, <1>10, ReviewAssumption DEF Named
<1>12. Asking'
  BY <1>5, <1>7 DEF Asking
<1>13. OnScreenFits'
  BY <1>1, <1>3, <1>5, <1>6, <1>8 DEF OnScreenFits
<1>14. Shape'
  BY <1>3, <1>8 DEF Tracked, Shape
<1>15. QED
  BY <1>9, <1>11, <1>12, <1>13, <1>14 DEF Tracked

\* A step that leaves the page, its answers and its requests alone.
LEMMA QuietTracks ==
    ASSUME Tracked, Reviewed', UNCHANGED <<page, view, visits, asked, proceeds>>,
           confirming' => confirming \/ (page # "execute" /\ store.source # Nothing),
           store'.source = store.source, store'.claim = store.claim, kept' = kept \/ KeepsChoices
    PROVE  Tracked'
<1>1. kept' # Nothing => kept'.acc \in Accounts
  BY KeepsNamed DEF Tracked, Named, OnScreenFits
<1>2. Named'
  BY <1>1 DEF Tracked, Named
<1>3. QED
  BY <1>2 DEF Tracked, Visited, Asking, OnScreenFits, Reviewed

\* The page is left for another.
LEMMA LeftTracks ==
    ASSUME Tracked, Reviewed', page' # "analyze", UNCHANGED <<visits, asked>>, view' = NoView,
           \/ proceeds' = proceeds
           \/ \E n \in 1 .. MaxVisits : proceeds' = [proceeds EXCEPT ![n] = NotProceeding],
           store'.source \in Accounts \cup {Nothing},
           page' = "execute" => store'.source # Nothing,
           confirming' => page' # "execute" /\ store'.source # Nothing,
           kept' # Nothing => kept'.acc \in Accounts
    PROVE  Tracked'
<1>1. \A n \in 1 .. MaxVisits :
          /\ DOMAIN proceeds'[n] = DOMAIN NotProceeding
          /\ n > visits => proceeds'[n].pc = "idle"
          /\ proceeds'[n].pc # "idle" => proceeds'[n].acc \in Accounts
  <2>1. NotProceeding.pc = "idle"
    BY DEF NotProceeding
  <2>2. QED
    BY <2>1 DEF Tracked, Visited, Named, Shape
<1>2. ~view'.loaded
  BY DEF NoView
<1>3. QED
  BY <1>1, <1>2 DEF Tracked, Visited, Named, Asking, OnScreenFits, Reviewed

LEMMA RefreshTracks == ASSUME Tracked, Reviewed', Refresh PROVE Tracked'
<1>1. page = "analyze" /\ UNCHANGED <<page, store, kept, visits, proceeds, confirming>>
  BY DEF Refresh
<1>2. /\ asked' = WithRequest(asked, visits, view.acc, "reload", store.claim)
      /\ view' = [view EXCEPT !.planned = store.claim, !.busy = TRUE, !.failed = FALSE]
  BY <1>1 DEF Refresh, Refreshes, OnScreen
<1>3. /\ DOMAIN view' = DOMAIN NoView /\ view'.acc = view.acc /\ view'.planned = store.claim
      /\ view'.busy
  BY <1>2 DEF Tracked, Visited, NoView
<1>4. \A r \in asked' : /\ DOMAIN r = RequestFields /\ r.visit \in 0 .. visits
                        /\ r.visit = visits /\ r.newest => r.claim = store.claim[view.acc]
  BY <1>2, RequestsAfter DEF Tracked, Visited
<1>5. QED
  BY <1>1, <1>3, <1>4 DEF Tracked, Visited, Named, Asking, OnScreenFits, Reviewed

\* The answers become others: a plan is asked for where the page has its account, and where
\* it has not, nothing but a dropped answer may differ.
LEMMA AnswersTrack ==
    ASSUME Tracked, Reviewed', NEW v, NEW rs, AnswersBecome(store'.claim, v, rs),
           UNCHANGED <<page, visits, proceeds, confirming>>, store'.source = store.source,
           KeepsChoices, DOMAIN v = DOMAIN view,
           v.acc = view.acc /\ v.planned = view.planned /\ v.plan = view.plan
              /\ v.loaded = view.loaded /\ v.busy = view.busy /\ v.failed = view.failed,
           \A r \in rs : /\ DOMAIN r = RequestFields /\ r.visit \in 0 .. visits
                         /\ page = "analyze" /\ r.visit = visits /\ r.newest =>
                               r.claim = view.planned[view.acc],
           page = "analyze" =>
              \/ store'.claim[view.acc] \in {"none", store.claim[view.acc]}
              \/ view.loaded /\ v.known # Unread
    PROVE  Tracked'
<1>1. kept' # Nothing => kept'.acc \in Accounts
  <2>1. view'.acc = view.acc
    BY DEF AnswersBecome, Tracked, Visited, NoView
  <2>2. QED
    BY <2>1, KeepsNamed DEF Tracked, Named, OnScreenFits
<1>2. CASE store'.claim # store.claim /\ Replans(v, store'.claim)
  <2>1. /\ page = "analyze"
        /\ view' = [v EXCEPT !.planned = store'.claim, !.busy = TRUE, !.failed = FALSE]
        /\ asked' = WithRequest(rs, visits, view.acc, "replan", store'.claim)
    BY <1>2 DEF AnswersBecome, Replans, Tracked, OnScreenFits
  <2>2. /\ DOMAIN view' = DOMAIN NoView /\ view'.acc = view.acc /\ view'.planned = store'.claim
        /\ view'.busy
    BY <2>1 DEF Tracked, Visited, NoView
  <2>3. \A r \in asked' : /\ DOMAIN r = RequestFields /\ r.visit \in 0 .. visits
                          /\ r.visit = visits /\ r.newest => r.claim = store'.claim[view.acc]
    BY <2>1, RequestsAfter DEF Tracked, Visited
  <2>4. QED
    BY <1>1, <2>1, <2>2, <2>3 DEF Tracked, Visited, Named, Asking, OnScreenFits, Reviewed
<1>3. CASE ~(store'.claim # store.claim /\ Replans(v, store'.claim))
  <2>1. view' = v /\ asked' = rs
    BY <1>3 DEF AnswersBecome
  <2>2. page = "analyze" => store'.claim[view.acc] \in {"none", view.planned[view.acc]}
    BY <1>3 DEF Replans, Tracked, OnScreenFits
  <2>3. QED
    BY <1>1, <2>1, <2>2 DEF Tracked, Visited, Named, Asking, OnScreenFits, Reviewed
<1>4. QED
  BY <1>2, <1>3

LEMMA AnsweringTracks == ASSUME Tracked, Reviewed, Reviewed', Answering PROVE Tracked'
<1>1. ASSUME NEW answer, AnswerAsset(answer) PROVE Tracked'
  <2>1. store'.source = store.source /\ store'.claim = store.claim
    BY <1>1 DEF AnswerAsset, Reviewed, Shape
  <2>2. QED
    BY <1>1, <2>1, QuietTracks DEF AnswerAsset
<1>2. ASSUME NEW answer, AnswerClaim(answer) PROVE Tracked'
  <2>1. store'.source = store.source
    BY <1>2 DEF AnswerClaim, Reviewed, Shape
  <2>2. view.loaded /\ view.known # Unread
    BY <1>2 DEF AnswerClaim, Cards
  <2>3. QED
    BY <1>2, <2>1, <2>2, AnswersTrack DEF AnswerClaim, Tracked, Visited, Asking
<1>3. QED
  BY <1>1, <1>2 DEF Answering

LEMMA ReadServedTracks == ASSUME Tracked, Reviewed', NEW r \in asked, ReadServed(r) PROVE Tracked'
<1> DEFINE served == [r EXCEPT !.read = version[r.acc]]
<1>1. /\ UNCHANGED <<page, store, kept, view, visits, proceeds, confirming>>
      /\ asked' = (asked \ {r}) \cup {served}
  BY DEF ReadServed
<1>2. DOMAIN r = RequestFields
  BY DEF Tracked, Visited
<1>3. /\ DOMAIN served = RequestFields /\ served.visit = r.visit /\ served.newest = r.newest
      /\ served.claim = r.claim
  BY <1>2 DEF RequestFields
<1> HIDE DEF served
<1>4. QED
  BY <1>1, <1>3 DEF Tracked, Visited, Named, Asking, OnScreenFits, Reviewed

\* What a reading that lands leaves of the answers: those about what it saw.
LEMMA ReadLandsTracks ==
    ASSUME Tracked, Reviewed, Reviewed', NEW r \in asked, ReadLands(r) PROVE Tracked'
<1> DEFINE planned == {[q EXCEPT !.read = Shown] : q \in {q \in {r} : q.newest}}
           v == IF page = "analyze" /\ visits = r.visit THEN [view EXCEPT !.known = r.read] ELSE view
<1>1. /\ UNCHANGED <<page, visits, proceeds, confirming>>
      /\ AnswersBecome(store'.claim, v, (asked \ {r}) \cup planned)
      /\ KeepsChoices
  BY DEF ReadLands
<1>2. store'.source = store.source /\ store'.claim = HeldClaims(store, r)
  BY DEF ReadLands, SetAccount, Reviewed, Shape
<1>3. \A a \in Accounts : store'.claim[a] \in {"none", store.claim[a]}
  BY <1>2 DEF HeldClaims
<1>4. /\ DOMAIN v = DOMAIN view
      /\ v.acc = view.acc /\ v.planned = view.planned /\ v.plan = view.plan
      /\ v.loaded = view.loaded /\ v.busy = view.busy /\ v.failed = view.failed
  BY DEF Tracked, Visited, NoView
<1>5. \A q \in (asked \ {r}) \cup planned :
          \E p \in asked : /\ DOMAIN q = RequestFields
                           /\ q.visit = p.visit /\ q.newest = p.newest /\ q.claim = p.claim
  <2>1. DOMAIN r = RequestFields
    BY DEF Tracked, Visited
  <2>2. \A q \in planned : /\ DOMAIN q = RequestFields
                           /\ q.visit = r.visit /\ q.newest = r.newest /\ q.claim = r.claim
    BY <2>1 DEF RequestFields
  <2>3. QED
    BY <2>2 DEF Tracked, Visited
<1> HIDE DEF planned, v
<1>6. \A q \in (asked \ {r}) \cup planned :
          /\ DOMAIN q = RequestFields /\ q.visit \in 0 .. visits
          /\ page = "analyze" /\ q.visit = visits /\ q.newest => q.claim = view.planned[view.acc]
  BY <1>5 DEF Tracked, Visited, Asking
<1>7. page = "analyze" => store'.claim[view.acc] \in {"none", store.claim[view.acc]}
  BY <1>3 DEF Tracked, OnScreenFits
<1>8. QED
  BY <1>1, <1>2, <1>4, <1>6, <1>7, AnswersTrack

LEMMA PlanLandsTracks ==
    ASSUME Tracked, Reviewed, Reviewed', NEW r \in asked, NEW blocked \in BOOLEAN,
           PlanLands(r, blocked)
    PROVE  Tracked'
<1> DEFINE plan == [shown |-> TRUE, holds |-> Holds(version[r.acc]), claim |-> r.claim,
                    blocked |-> blocked]
<1>1. /\ UNCHANGED <<page, visits, proceeds, confirming>> /\ asked' = asked \ {r} /\ r.newest
      /\ KeepsChoices
  BY DEF PlanLands
<1>2. store'.source = store.source /\ store'.claim = store.claim
  BY DEF PlanLands, Reconciled, Defaulted, Reviewed, Shape
<1>3. CASE page = "analyze" /\ visits = r.visit
  <2>1. view' = [view EXCEPT !.plan = plan, !.loaded = TRUE, !.busy = FALSE]
    BY <1>3 DEF PlanLands
  <2>2. /\ DOMAIN view' = DOMAIN NoView /\ view'.acc = view.acc /\ view'.planned = view.planned
        /\ view'.plan.claim = r.claim
    BY <2>1 DEF Tracked, Visited, NoView
  <2>3. r.claim = view.planned[view.acc]
    BY <1>1, <1>3 DEF Tracked, Asking
  <2>4. kept' # Nothing => kept'.acc \in Accounts
    BY <1>1, <1>2, <2>2, KeepsNamed DEF Tracked, Named, OnScreenFits
  <2>5. QED
    BY <1>1, <1>2, <1>3, <2>2, <2>3, <2>4
       DEF Tracked, Visited, Named, Asking, OnScreenFits, Reviewed
<1>4. CASE ~(page = "analyze" /\ visits = r.visit)
  <2>1. view' = view
    BY <1>4 DEF PlanLands
  <2>2. kept' # Nothing => kept'.acc \in Accounts
    BY <1>1, <1>2, <2>1, KeepsNamed DEF Tracked, Named, OnScreenFits
  <2>3. QED
    BY <1>1, <1>2, <2>1, <2>2 DEF Tracked, Visited, Named, Asking, OnScreenFits, Reviewed
<1>5. QED
  BY <1>3, <1>4

LEMMA RequestFailsTracks ==
    ASSUME Tracked, Reviewed', NEW r \in asked, RequestFails(r) PROVE Tracked'
<1>1. /\ UNCHANGED <<page, store, kept, visits, proceeds, confirming>> /\ asked' = asked \ {r}
  BY DEF RequestFails
<1>2. CASE view' = view
  BY <1>1, <1>2 DEF Tracked, Visited, Named, Asking, OnScreenFits, Reviewed
<1>3. CASE /\ page = "analyze"
           /\ view' = [view EXCEPT !.loaded = TRUE, !.busy = FALSE, !.failed = TRUE]
  <2>1. /\ DOMAIN view' = DOMAIN NoView /\ view'.acc = view.acc /\ view'.planned = view.planned
        /\ view'.failed
    BY <1>3 DEF Tracked, Visited, NoView
  <2>2. QED
    BY <1>1, <1>3, <2>1 DEF Tracked, Visited, Named, Asking, OnScreenFits, Reviewed
<1>4. QED
  BY <1>2, <1>3 DEF RequestFails

LEMMA PlanningTracks == ASSUME Tracked, Reviewed', Planning PROVE Tracked'
<1>1. CASE Proceed
  <2>1. /\ UNCHANGED <<page, store, kept, view, visits, asked, confirming>> /\ page = "analyze"
        /\ proceeds' = [proceeds EXCEPT ![visits] =
                           [NotProceeding EXCEPT !.pc = "checking", !.acc = view.acc]]
    BY <1>1 DEF Proceed, CanProceed, Cards
  <2>2. visits \in 1 .. MaxVisits /\ view.acc \in Accounts
    BY <2>1, ReviewAssumption DEF Tracked, Visited, OnScreenFits
  <2>3. /\ DOMAIN proceeds'[visits] = DOMAIN NotProceeding /\ proceeds'[visits].acc = view.acc
        /\ \A n \in 1 .. MaxVisits : n # visits => proceeds'[n] = proceeds[n]
    BY <2>1, <2>2 DEF NotProceeding, Tracked, Shape
  <2>4. \A n \in 1 .. MaxVisits :
            /\ DOMAIN proceeds'[n] = DOMAIN NotProceeding
            /\ n > visits => proceeds'[n].pc = "idle"
            /\ proceeds'[n].pc # "idle" => proceeds'[n].acc \in Accounts
    BY <2>2, <2>3 DEF Tracked, Visited, Named
  <2>5. QED
    BY <2>1, <2>3, <2>4 DEF Tracked, Visited, Named, Asking, OnScreenFits, Reviewed
<1>2. ASSUME NEW n \in 1 .. MaxVisits, DestinationChecked(n) PROVE Tracked'
  <2>1. /\ UNCHANGED <<page, view, visits, asked, confirming>> /\ KeepsChoices
        /\ proceeds[n].pc # "idle" /\ proceeds[n].acc \in Accounts
    BY <1>2 DEF DestinationChecked, Tracked, Named
  <2>2. store'.source = proceeds[n].acc /\ store'.claim = store.claim
    BY <1>2 DEF DestinationChecked, Tracked, Shape
  <2>3. /\ DOMAIN proceeds'[n] = DOMAIN NotProceeding /\ proceeds'[n].acc = proceeds[n].acc
        /\ \A k \in 1 .. MaxVisits : k # n => proceeds'[k] = proceeds[k]
    BY <1>2 DEF DestinationChecked, NotProceeding, Tracked, Shape, Visited
  <2>4. kept' # Nothing => kept'.acc \in Accounts
    BY <2>1, <2>2, KeepsNamed DEF Tracked, Named, OnScreenFits
  <2>5. \A k \in 1 .. MaxVisits :
            /\ DOMAIN proceeds'[k] = DOMAIN NotProceeding
            /\ k > visits => proceeds'[k].pc = "idle"
            /\ proceeds'[k].pc # "idle" => proceeds'[k].acc \in Accounts
    BY <2>1, <2>3 DEF Tracked, Visited, Named
  <2>6. page = "analyze" => (proceeds'[visits].pc # "idle" => proceeds'[visits].acc = view.acc)
    BY <2>1, <2>3, ReviewAssumption DEF Tracked, Visited, OnScreenFits
  <2>7. proceeds[n].acc # Nothing
    BY <2>1, ReviewAssumption
  <2>8. QED
    BY <2>1, <2>2, <2>4, <2>5, <2>6, <2>7
       DEF Tracked, Visited, Named, Asking, OnScreenFits, Reviewed
<1>3. ASSUME NEW n \in 1 .. MaxVisits, proceeds' = [proceeds EXCEPT ![n] = NotProceeding]
      PROVE  \A k \in 1 .. MaxVisits :
                 /\ DOMAIN proceeds'[k] = DOMAIN NotProceeding
                 /\ k > visits => proceeds'[k].pc = "idle"
                 /\ proceeds'[k].pc # "idle" => proceeds'[k] = proceeds[k]
  BY <1>3 DEF NotProceeding, Tracked, Visited, Shape
<1>4. page = "analyze" => visits \in 1 .. MaxVisits
  BY ReviewAssumption DEF Tracked, Visited, OnScreenFits
<1>5. ASSUME NEW n \in 1 .. MaxVisits, ProceedFails(n) PROVE Tracked'
  <2>1. /\ UNCHANGED <<page, store, kept, view, visits, asked, confirming>>
        /\ proceeds' = [proceeds EXCEPT ![n] = NotProceeding]
    BY <1>5 DEF ProceedFails
  <2>2. \A k \in 1 .. MaxVisits :
            /\ DOMAIN proceeds'[k] = DOMAIN NotProceeding
            /\ k > visits => proceeds'[k].pc = "idle"
            /\ proceeds'[k].pc # "idle" => proceeds'[k] = proceeds[k]
    BY <1>3, <2>1
  <2>3. Named'
    BY <2>1, <2>2 DEF Tracked, Named
  <2>4. OnScreenFits'
    BY <1>4, <2>1, <2>2 DEF Tracked, OnScreenFits
  <2>5. QED
    BY <2>1, <2>2, <2>3, <2>4 DEF Tracked, Visited, Asking, Reviewed
<1>6. ASSUME NEW n \in 1 .. MaxVisits, FinalPlanUnanswered(n) PROVE Tracked'
  <2>1. /\ UNCHANGED <<page, store, kept, visits, confirming>>
        /\ proceeds[n].pc # "idle"
        /\ asked' = WithRequest(asked, n, proceeds[n].acc, "reload", store.claim)
        /\ proceeds' = [proceeds EXCEPT ![n] = NotProceeding]
    BY <1>6 DEF FinalPlanUnanswered, Refreshes
  <2>2. \A r \in asked' : /\ DOMAIN r = RequestFields /\ r.visit \in 0 .. visits
                          /\ \/ r \in asked /\ r.visit # n
                             \/ r.visit = n /\ (r.newest => r.claim = store.claim[proceeds[n].acc])
    BY <2>1, RequestsAfter DEF Tracked, Visited
  <2>3. CASE page = "analyze" /\ visits = n
    <3>1. view' = [view EXCEPT !.planned = store.claim, !.busy = TRUE, !.failed = FALSE]
      BY <1>6, <2>1, <2>3 DEF FinalPlanUnanswered, Refreshes, OnScreen
    <3>2. /\ DOMAIN view' = DOMAIN NoView /\ view'.acc = view.acc /\ view'.planned = store.claim
          /\ view'.busy
      BY <3>1 DEF Tracked, Visited, NoView
    <3>3. proceeds[n].acc = view.acc
      BY <2>1, <2>3 DEF Tracked, OnScreenFits
    <3>4. proceeds'[n].pc = "idle"
      BY <2>1 DEF NotProceeding, Tracked, Shape
    <3>5. QED
      BY <1>3, <2>1, <2>2, <2>3, <3>2, <3>3, <3>4
         DEF Tracked, Visited, Named, Asking, OnScreenFits, Reviewed
  <2>4. CASE ~(page = "analyze" /\ visits = n)
    <3>1. view' = view
      BY <1>6, <2>1, <2>4 DEF FinalPlanUnanswered, Refreshes, OnScreen
    <3>2. QED
      <4>1. \A k \in 1 .. MaxVisits :
                /\ DOMAIN proceeds'[k] = DOMAIN NotProceeding
                /\ k > visits => proceeds'[k].pc = "idle"
                /\ proceeds'[k].pc # "idle" => proceeds'[k] = proceeds[k]
        BY <1>3, <2>1
      <4>2. Named'
        BY <2>1, <3>1, <4>1 DEF Tracked, Named
      <4>3. OnScreenFits'
        BY <1>4, <2>1, <3>1, <4>1 DEF Tracked, OnScreenFits
      <4>4. Asking'
        BY <2>1, <2>2, <2>4, <3>1 DEF Tracked, Asking
      <4>5. QED
        BY <2>1, <2>2, <3>1, <4>1, <4>2, <4>3, <4>4 DEF Tracked, Visited, Reviewed
  <2>5. QED
    BY <2>3, <2>4
<1>7. ASSUME NEW n \in 1 .. MaxVisits, FinalPlanLands(n) PROVE Tracked'
  <2>1. /\ page' = "review" /\ view' = NoView /\ UNCHANGED <<visits, asked, confirming>>
        /\ KeepsChoices /\ proceeds' = [proceeds EXCEPT ![n] = NotProceeding]
    BY <1>7 DEF FinalPlanLands
  <2>2. store'.source = store.source
    BY <1>7 DEF FinalPlanLands, Tracked, Shape
  <2>3. kept' # Nothing => kept'.acc \in Accounts
    BY <2>1, <2>2, KeepsNamed DEF Tracked, Named
  <2>4. QED
    BY <2>1, <2>2, <2>3, LeftTracks DEF Tracked, Named
<1>8. QED
  BY <1>1, <1>2, <1>5, <1>6, <1>7 DEF Planning

LEMMA PageStepsTrack == ASSUME Tracked, Reviewed', PageSteps PROVE Tracked'
<1>1. ASSUME NEW a \in Accounts, OpenAccount(a) PROVE Tracked'
  <2>1. PICK phase \in {"ANALYZING", store.phase} : Opens(a, [store EXCEPT !.phase = phase], asked)
    BY <1>1 DEF OpenAccount
  <2>2. /\ DOMAIN [store EXCEPT !.phase = phase] = DOMAIN store
        /\ [store EXCEPT !.phase = phase].source = store.source
    BY DEF Tracked, Shape
  <2>3. proceeds' = proceeds /\ (confirming' => store.source # Nothing)
    BY <1>1 DEF OpenAccount, Tracked, Named
  <2>4. QED
    BY <2>1, <2>2, <2>3, OpensTracks DEF Tracked, Named
<1>2. ASSUME NEW from, NEW to \in {"entry", "review"}, Leave(from, to) PROVE Tracked'
  <2>1. /\ page' = to /\ view' = NoView /\ KeepsChoices
        /\ UNCHANGED <<store, visits, asked, proceeds, confirming>>
    BY <1>2 DEF Leave
  <2>2. kept' # Nothing => kept'.acc \in Accounts
    BY <2>1, KeepsNamed DEF Tracked, Named
  <2>3. QED
    BY <2>1, <2>2, LeftTracks DEF Tracked, Named
<1>3. CASE BackToAnalyze
  <2>1. /\ Opens(store.source, [store EXCEPT !.phase = "PREFLIGHT_COMPLETE"], asked)
        /\ store.source # Nothing /\ UNCHANGED <<proceeds, confirming>>
    BY <1>3 DEF BackToAnalyze, ShowsReview
  <2>2. /\ DOMAIN [store EXCEPT !.phase = "PREFLIGHT_COMPLETE"] = DOMAIN store
        /\ [store EXCEPT !.phase = "PREFLIGHT_COMPLETE"].source = store.source
    BY DEF Tracked, Shape
  <2>3. store.source \in Accounts
    BY <2>1 DEF Tracked, Named
  <2>4. QED
    BY <2>1, <2>2, <2>3, OpensTracks
<1>4. CASE LeaveClose
  <2>1. /\ page = "execute" /\ page' = "entry" /\ store' = EmptyStore /\ kept' = Nothing
        /\ UNCHANGED <<view, visits, asked, proceeds, confirming>>
    BY <1>4 DEF LeaveClose
  <2>2. store'.source = Nothing /\ ~confirming
    BY <2>1 DEF EmptyStore, Tracked, Named
  <2>3. QED
    BY <2>1, <2>2 DEF Tracked, Visited, Named, Asking, OnScreenFits, Reviewed
<1>5. CASE TabReloads
  <2>1. /\ EmptyStore.source = Nothing /\ DOMAIN EmptyStore = DOMAIN store
        /\ ~confirming' /\ proceeds' = [n \in 1 .. MaxVisits |-> NotProceeding]
    BY <1>5 DEF EmptyStore, TabReloads, Tracked, Shape
  <2>2. ASSUME NEW a \in Accounts, Opens(a, EmptyStore, {}) PROVE Tracked'
    BY <2>1, <2>2, OpensTracks
  <2>3. CASE /\ page' = "entry" /\ store' = EmptyStore /\ view' = NoView /\ asked' = {}
             /\ UNCHANGED <<kept, visits>>
    <3>1. ~NoView.loaded /\ NotProceeding.pc = "idle"
      BY DEF NoView, NotProceeding
    <3>2. QED
      BY <2>1, <2>3, <3>1 DEF Tracked, Visited, Named, Asking, OnScreenFits, Reviewed
  <2>4. CASE page = "analyze"
    <3>1. view.acc \in Accounts /\ view.acc # Nothing
      BY <2>4, ReviewAssumption DEF Tracked, OnScreenFits
    <3>2. QED
      BY <1>5, <2>2, <2>4, <3>1 DEF TabReloads
  <2>5. CASE page = "review" /\ kept # Nothing
    <3>1. kept.acc \in Accounts /\ kept.acc # Nothing
      BY <2>5, ReviewAssumption DEF Tracked, Named
    <3>2. QED
      BY <1>5, <2>2, <2>5, <3>1 DEF TabReloads
  <2>6. CASE page # "analyze" /\ ~(page = "review" /\ kept # Nothing)
    BY <1>5, <2>3, <2>6 DEF TabReloads
  <2>7. QED
    BY <2>4, <2>5, <2>6
<1>6. QED
  BY <1>1, <1>2, <1>3, <1>4, <1>5 DEF PageSteps

LEMMA ConfirmingTracks == ASSUME Tracked, Reviewed', Confirming PROVE Tracked'
<1>1. CASE PressConfirm
  BY <1>1, QuietTracks DEF PressConfirm, ShowsReview
<1>2. CASE ConfirmHeld \/ BuildFirst
  BY <1>2, QuietTracks DEF ConfirmHeld, BuildFirst
<1>3. CASE Confirmed
  <2>1. /\ confirming /\ ~confirming' /\ page' = "execute" /\ view' = NoView
        /\ UNCHANGED <<visits, asked, proceeds>>
        /\ kept' = Kept(store', KeptFor(store, page, view.acc), Nothing)
    BY <1>3 DEF Confirmed
  <2>2. store'.source = store.source /\ store.source # Nothing
    BY <1>3, <2>1 DEF Confirmed, Tracked, Shape, Named
  <2>3. KeptFor(store, page, view.acc) \in Accounts \cup {Nothing}
    BY KeptForAccount DEF Tracked, Named, OnScreenFits
  <2>4. kept' # Nothing => kept'.acc \in Accounts
    BY <2>1, <2>3, KeptOfAccount
  <2>5. QED
    BY <2>1, <2>2, <2>4, LeftTracks DEF Tracked, Named
<1>4. CASE BuildAsks
  <2>1. store'.source = store.source /\ store'.claim = store.claim
    BY <1>4 DEF BuildAsks, Tracked, Shape
  <2>2. QED
    BY <1>4, <2>1, QuietTracks DEF BuildAsks
<1>5. CASE BuildRefused
  <2>1. /\ Opens(store.source, [store EXCEPT !.plan = Nothing, !.phase = "IDLE"], asked)
        /\ page = "execute" /\ UNCHANGED <<proceeds, confirming>>
    BY <1>5 DEF BuildRefused
  <2>2. /\ DOMAIN [store EXCEPT !.plan = Nothing, !.phase = "IDLE"] = DOMAIN store
        /\ [store EXCEPT !.plan = Nothing, !.phase = "IDLE"].source = store.source
    BY DEF Tracked, Shape
  <2>3. store.source \in Accounts /\ store.source # Nothing
    BY <2>1 DEF Tracked, Named
  <2>4. QED
    BY <2>1, <2>2, <2>3, OpensTracks
<1>6. QED
  BY <1>1, <1>2, <1>3, <1>4, <1>5 DEF Confirming

LEMMA TrackedInit == ASSUME ReviewInit PROVE Tracked
<1>1. /\ DOMAIN store = {"source", "account", "asset", "claim", "plan", "phase"}
      /\ store.source = Nothing
  BY DEF ReviewInit, EmptyStore
<1>2. ~view.loaded /\ NotProceeding.pc = "idle"
  BY DEF ReviewInit, NoView, NotProceeding
<1>3. /\ page = "entry" /\ view = NoView /\ visits = 0 /\ asked = {} /\ kept = Nothing
      /\ ~confirming /\ proceeds = [n \in 1 .. MaxVisits |-> NotProceeding]
  BY DEF ReviewInit
<1>4. visits \in 0 .. MaxVisits
  BY <1>3, ReviewAssumption
<1>5. QED
  BY <1>1, <1>2, <1>3, <1>4 DEF Tracked, Shape, Visited, Named, Asking, OnScreenFits

LEMMA TrackedKept ==
    ASSUME Tracked, Reviewed, Reviewed', [ReviewNext]_reviewVars PROVE Tracked'
<1>1. CASE UNCHANGED reviewVars \/ \E a \in Accounts : AccountChanges(a)
  BY <1>1, QuietTracks DEF reviewVars, AccountChanges
<1>2. CASE RequestSteps
  BY <1>2, RefreshTracks, ReadServedTracks, ReadLandsTracks, PlanLandsTracks, RequestFailsTracks
     DEF RequestSteps
<1>3. QED
  BY <1>1, <1>2, AnsweringTracks, PlanningTracks, PageStepsTrack, ConfirmingTracks DEF ReviewNext

\* The plan that can be gone on with is the one for the answers on screen, whether or not the
\* person waits, however many requests are under way and in whatever order they come back.
THEOREM ProceedsOnCurrentPlan == ReviewSpec => []ProceedsOnItsPlan
<1>1. Tracked => ProceedsOnItsPlan
  BY DEF Tracked, OnScreenFits, ProceedsOnItsPlan, CanProceed, Cards, ClaimsResolved
<1>2. QED
  BY <1>1, ReviewedInit, ReviewedKept, TrackedInit, TrackedKept, PTL DEF ReviewSpec

=============================================================================
