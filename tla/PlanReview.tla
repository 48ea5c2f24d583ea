----------------------------- MODULE PlanReview -----------------------------
(***************************************************************************)
(* The close before its first transaction, in one tab: the entry, analyze, *)
(* review and execute pages, the store they share, and the choices the tab *)
(* keeps in its session storage.                                           *)
(*                                                                         *)
(* Every visit of the analyze page is an instance of its own.  What it     *)
(* asked for goes on when it is left, and what comes back late acts on the *)
(* store all the same, unless the instance itself has asked again since.   *)
(*                                                                         *)
(* An account holds one asset that has a route to XLM.  Others may send it *)
(* more of that, and a claimable balance it cannot claim, which needs an   *)
(* answer; its own transactions move its sequence number and its balance.  *)
(***************************************************************************)
EXTENDS Integers, FiniteSets

CONSTANTS
    Accounts,
    LastSequence,  \* bound: own transactions of each account, made elsewhere
    MaxVisits,     \* bound: visits of the analyze page
    MaxAsked,      \* bound: requests of the page under way
    MaxReloads,    \* bound: times the tab is reloaded
    Waits,         \* whether the person waits for the plan, and for the confirm, on the page
    Nothing

ASSUME ReviewAssumption ==
    /\ LastSequence \in Nat /\ MaxVisits \in Nat /\ MaxAsked \in Nat /\ MaxReloads \in Nat
    /\ Waits \in BOOLEAN /\ Nothing \notin Accounts

VARIABLES
    version,    \* each account, on the ledger: its sequence and what it holds
    page,
    store,      \* useDemolishStore
    kept,       \* the snapshot in the tab's session storage
    view,       \* the state of the analyze page on screen
    visits,     \* the number of its instance
    restoring,  \* each visit's pendingRestore
    asked,      \* requests of the visits, under way
    proceeds,   \* each visit's handleProceed
    confirming, \* whether handleConfirm is under way
    consented,  \* observed: the plan the review showed when that began
    built,      \* observed: what the first transactions were built from
    reloads

reviewVars ==
    <<version, page, store, kept, view, visits, restoring, asked, proceeds, confirming,
      consented, built, reloads>>

AssetAnswer == {"none", "convert", "issuer"}
ClaimAnswer == {"none", "forfeit"}
Unread == -1
Shown == -2

\* An account on the ledger.
Sequence(v) == v \div 2
Holds(v) == v % 2 = 1

\* What a plan is hashed over: the account, its sequence number and every answer sent, but
\* nothing of what the account holds.
HashOf(a, v, asset, claims) ==
    [acc |-> a, sequence |-> Sequence(v), asset |-> asset, claims |-> claims]

\* The answers the API still wants of an account.
Missing(v, asset, claim) == asset = "none" \/ (Holds(v) /\ claim = "none")

EmptyStore ==
    [source |-> Nothing, account |-> [acc |-> Nothing, version |-> Unread],
     asset |-> [a \in Accounts |-> "none"], claim |-> [a \in Accounts |-> "none"],
     plan |-> Nothing, phase |-> "IDLE"]

NoPlan == [shown |-> FALSE, holds |-> FALSE, claim |-> "none", blocked |-> FALSE]

NoView ==
    [acc |-> Nothing, known |-> Unread, plan |-> NoPlan, planned |-> EmptyStore.claim,
     loaded |-> FALSE, busy |-> FALSE, failed |-> FALSE]

NotProceeding == [pc |-> "idle", acc |-> Nothing, asset |-> "none", claims |-> EmptyStore.claim]

ReviewInit ==
    /\ version = [a \in Accounts |-> 0]
    /\ page = "entry" /\ store = EmptyStore /\ kept = Nothing
    /\ view = NoView /\ visits = 0
    /\ restoring = [n \in 1 .. MaxVisits |-> Nothing]
    /\ asked = {} /\ proceeds = [n \in 1 .. MaxVisits |-> NotProceeding]
    /\ confirming = FALSE /\ consented = Nothing /\ built = Nothing /\ reloads = 0

-----------------------------------------------------------------------------
(***************************************************************************)
(* The choices the tab keeps.                                              *)
(***************************************************************************)

AfterConsent == {"STEP_EXECUTING", "STEP_FAILED"}

\* Mutant of Keepable: the journey is not asked for.
KeepableAlways(s, a) == s.source \in {Nothing, a}

\* keepable: none outlives the consent given on the review.
Keepable(s, a) == s.source \in {Nothing, a} /\ s.phase \notin AfterConsent

\* snapshotOf: the asset's answer goes with what the asset looked like, and before the
\* account is read both are what was kept before.
Snapshot(s, a, before) ==
    LET old == IF before # Nothing /\ before.acc = a
                  THEN before ELSE [asset |-> "none", seen |-> Unread]
    IN [acc |-> a, claim |-> s.claim,
        asset |-> IF s.account.acc = a THEN s.asset[a] ELSE old.asset,
        seen |-> IF s.account.acc = a THEN s.account.version ELSE old.seen]

\* The review shows a close that still waits for its confirmation.
ShowsReview(s) == s.source # Nothing /\ s.plan # Nothing /\ s.phase = "PREFLIGHT_COMPLETE"

\* useKeepDecisions: the account whose choices the page p keeps, as it shows the store s.
KeptFor(s, p, a) ==
    CASE p = "analyze" -> a
      [] p = "review" /\ ShowsReview(s) -> s.source
      [] OTHER -> Nothing

\* Every change of the store is kept.
Kept(s, a, before) == IF a # Nothing /\ Keepable(s, a) THEN Snapshot(s, a, before) ELSE before

KeepsChoices == kept' = Kept(store', KeptFor(store', page', view'.acc), kept)

HoldsNoDecisions(s, a) ==
    /\ s.source \in {Nothing, a}
    /\ \A b \in Accounts : s.asset[b] = "none" /\ s.claim[b] = "none"

-----------------------------------------------------------------------------
(***************************************************************************)
(* Reading the account and its plan.                                       *)
(***************************************************************************)

Request(n, a, kind, claims) ==
    [visit |-> n, acc |-> a, claim |-> claims[a], newest |-> TRUE, reading |-> kind = "reload",
     read |-> IF kind = "reload" THEN Unread ELSE Shown]

\* Mutant of WithRequest: what was asked before may still be shown.
WithRequestUnguarded(rs, n, a, kind, claims) == rs \cup {Request(n, a, kind, claims)}

\* ++fetchSeq, and for a reload ++accountSeq: only the newest of a visit is shown.  A
\* request that nothing would be shown of is not followed any longer.
WithRequest(rs, n, a, kind, claims) ==
    LET overtaken == {[r EXCEPT !.newest = FALSE,
                                !.reading = @ /\ kind = "replan"] : r \in {q \in rs : q.visit = n}}
    IN {r \in rs : r.visit # n} \cup {r \in overtaken : r.reading /\ r.read # Shown}
         \cup {Request(n, a, kind, claims)}

\* A change of the answers that ask for another plan, once the account is on screen.
Replans(v, claims) == v.loaded /\ v.known # Unread /\ claims # v.planned

\* The answers become `claims`, with the rest of the page and its requests v and rs.
AnswersBecome(claims, v, rs) ==
    IF claims # store.claim /\ Replans(v, claims)
       THEN /\ view' = [v EXCEPT !.planned = claims, !.busy = TRUE, !.failed = FALSE]
            /\ asked' = WithRequest(rs, visits, v.acc, "replan", claims)
       ELSE view' = v /\ asked' = rs

OnScreen(n) == page' = "analyze" /\ visits = n

\* The page opens on an account: the choices kept for it go back into a store that holds
\* none, and everything is asked for.
Opens(a, s, rs) ==
    LET restores == kept # Nothing /\ kept.acc = a /\ HoldsNoDecisions(s, a)
        claims == IF restores THEN kept.claim ELSE s.claim
    IN
    /\ visits < MaxVisits
    /\ visits' = visits + 1 /\ page' = "analyze"
    /\ \E source \in {s.source} \cup {b \in {a} : restores} :
          store' = [s EXCEPT !.claim = claims, !.source = source]
    /\ restoring' = [restoring EXCEPT ![visits + 1] = IF restores THEN kept ELSE Nothing]
    /\ view' = [NoView EXCEPT !.acc = a, !.planned = claims, !.busy = TRUE]
    /\ asked' = rs \cup {Request(visits + 1, a, "reload", claims)}
    /\ KeepsChoices

\* The refresh of visit n's page: its account and its plan.
Refreshes(n, a) ==
    /\ asked' = WithRequest(asked, n, a, "reload", store'.claim)
    /\ view' = IF OnScreen(n)
                  THEN [view EXCEPT !.planned = store'.claim, !.busy = TRUE, !.failed = FALSE]
                  ELSE view

\* Room for what an answer or a refresh asks for.
Room == Cardinality(asked) < MaxAsked

Refresh ==
    /\ page = "analyze" /\ ~view.busy /\ Room
    /\ UNCHANGED <<page, store>>
    /\ Refreshes(visits, view.acc)
    /\ UNCHANGED <<version, kept, visits, restoring, proceeds, confirming, consented, built,
                   reloads>>

\* The API reads the account, for the answer to the one request and to the other.
ReadServed(r) ==
    /\ r.read = Unread
    /\ asked' = (asked \ {r}) \cup {[r EXCEPT !.read = version[r.acc]]}
    /\ UNCHANGED <<version, page, store, kept, view, visits, restoring, proceeds, confirming,
                   consented, built, reloads>>

\* restoreAssetDecisions: an answer goes back only for an asset that looks as it did.
RestoredAsset(s, r) ==
    LET back == restoring[r.visit] IN
    IF back # Nothing /\ back.acc = r.acc /\ back.asset # "none" /\ back.seen = r.read
       THEN back.asset ELSE s.asset[r.acc]

\* pruneDispositions and pruneClaimableSelections: only the answers about what the account
\* holds stay.
HeldAsset(s, r) == [a \in Accounts |-> IF a = r.acc THEN s.asset[a] ELSE "none"]
HeldClaims(s, r) == [a \in Accounts |-> IF a = r.acc /\ Holds(r.read) THEN s.claim[a] ELSE "none"]

SetAccount(s, r) ==
    [s EXCEPT !.account = [acc |-> r.acc, version |-> r.read],
              !.asset = HeldAsset(s, r), !.claim = HeldClaims(s, r)]

\* applyAccount, with what was restored for it.
ReadLands(r) ==
    LET planned == {[q EXCEPT !.read = Shown] : q \in {q \in {r} : q.newest}}
        v == IF page = "analyze" /\ visits = r.visit THEN [view EXCEPT !.known = r.read] ELSE view
    IN
    /\ r.read >= 0
    /\ UNCHANGED page
    /\ store' = [SetAccount(store, r) EXCEPT !.asset[r.acc] = RestoredAsset(store, r)]
    /\ restoring' = [restoring EXCEPT ![r.visit] = Nothing]
    /\ AnswersBecome(store'.claim, v, (asked \ {r}) \cup planned)
    /\ KeepsChoices
    /\ UNCHANGED <<version, visits, proceeds, confirming, consented, built, reloads>>

\* A plan whose routes could not be looked up classifies no asset: it is blocked, and the
\* answers that return one to its issuer go.
Reconciled(s, blocked) ==
    [s EXCEPT !.asset = [a \in Accounts |-> IF blocked /\ @[a] = "issuer" THEN "none" ELSE @[a]]]

\* The default a shown plan leaves: a convertible asset nobody answered is converted.
Defaulted(s, a) == [s EXCEPT !.asset[a] = IF @ = "none" THEN "convert" ELSE @]

\* showPlan.  pruneClaimSelectionsToOffered drops the answers to a balance the plan lists and no
\* longer offers them for; the balance here takes "forfeit" whenever it is listed, and the answers
\* to one that is not listed stay.
PlanLands(r, blocked) ==
    LET here == page = "analyze" /\ visits = r.visit
        looked == Reconciled(store, blocked)
        plan == [shown |-> TRUE, holds |-> Holds(version[r.acc]), claim |-> r.claim,
                 blocked |-> blocked]
    IN
    /\ r.newest /\ r.read = Shown
    /\ asked' = asked \ {r}
    /\ UNCHANGED page
    /\ store' = IF here /\ ~blocked THEN Defaulted(looked, r.acc) ELSE looked
    /\ view' = IF here THEN [view EXCEPT !.plan = plan, !.loaded = TRUE, !.busy = FALSE] ELSE view
    /\ KeepsChoices
    /\ UNCHANGED <<version, visits, restoring, proceeds, confirming, consented, built, reloads>>

\* The account could not be read, or the plan not be made.
RequestFails(r) ==
    /\ asked' = asked \ {r}
    /\ view' = IF r.newest /\ page = "analyze" /\ visits = r.visit
                  THEN [view EXCEPT !.loaded = TRUE, !.busy = FALSE, !.failed = TRUE] ELSE view
    /\ UNCHANGED <<version, page, store, kept, visits, restoring, proceeds, confirming, consented,
                   built, reloads>>

-----------------------------------------------------------------------------
(***************************************************************************)
(* Answering, and asking for the plan to review.                           *)
(***************************************************************************)

\* The cards are there: the page has its account and a plan that classifies the assets.
Cards == page = "analyze" /\ view.loaded /\ view.known # Unread /\ view.plan.shown

AnswerAsset(answer) ==
    /\ Cards /\ ~view.plan.blocked /\ answer # "none"
    /\ store' = [store EXCEPT !.asset[view.acc] = answer]
    /\ UNCHANGED <<page, view>> /\ KeepsChoices
    /\ UNCHANGED <<version, visits, restoring, asked, proceeds, confirming, consented, built,
                   reloads>>

AnswerClaim(answer) ==
    /\ Cards /\ view.plan.holds /\ answer # "none" /\ Room
    /\ store' = [store EXCEPT !.claim[view.acc] = answer]
    /\ UNCHANGED page
    /\ AnswersBecome(store'.claim, view, asked)
    /\ KeepsChoices
    /\ UNCHANGED <<version, visits, restoring, proceeds, confirming, consented, built, reloads>>

ClaimsResolved == view.plan.holds => store.claim[view.acc] # "none"

\* proceedReasons: no plan on its way, no blocker, and an answer to every card.
CanProceed == Cards /\ ~view.busy /\ ~view.plan.blocked /\ ClaimsResolved

Proceed ==
    /\ CanProceed /\ proceeds[visits].pc = "idle"
    /\ proceeds' = [proceeds EXCEPT ![visits] =
                       [NotProceeding EXCEPT !.pc = "checking", !.acc = view.acc]]
    /\ UNCHANGED <<version, page, store, kept, view, visits, restoring, asked, confirming,
                   consented, built, reloads>>

\* The destination is one to close into: the answers are those the store holds by now.
DestinationChecked(n) ==
    LET p == proceeds[n] IN
    /\ p.pc = "checking"
    /\ store' = [store EXCEPT !.source = p.acc]
    /\ proceeds' = [proceeds EXCEPT ![n] = [p EXCEPT !.pc = "asked", !.asset = store.asset[p.acc],
                                                     !.claims = store.claim]]
    /\ UNCHANGED <<page, view>> /\ KeepsChoices
    /\ UNCHANGED <<version, visits, restoring, asked, confirming, consented, built, reloads>>

\* deriveStatus: a plan that blocks says so, whatever it still asks, and a balance that cannot
\* be claimed blocks, given up or not.
NeedsDecisions(p) ==
    ~Holds(version[p.acc]) /\ Missing(version[p.acc], p.asset, p.claims[p.acc])

\* Something new needs an answer: the cards are asked for again.
FinalPlanUnanswered(n) ==
    /\ proceeds[n].pc = "asked" /\ NeedsDecisions(proceeds[n]) /\ Room
    /\ proceeds' = [proceeds EXCEPT ![n] = NotProceeding]
    /\ UNCHANGED <<page, store>>
    /\ Refreshes(n, proceeds[n].acc)
    /\ UNCHANGED <<version, kept, visits, restoring, confirming, consented, built, reloads>>

\* setPlan, and goToReview: wherever the tab is by now.
FinalPlanLands(n) ==
    LET p == proceeds[n]
        v == version[p.acc]
    IN
    /\ p.pc = "asked" /\ ~NeedsDecisions(p)
    /\ store' = [store EXCEPT
          !.plan = [hash |-> HashOf(p.acc, v, p.asset, p.claims),
                    open |-> Missing(v, p.asset, p.claims[p.acc])],
          !.phase = "PREFLIGHT_COMPLETE"]
    /\ page' = "review" /\ view' = NoView
    /\ proceeds' = [proceeds EXCEPT ![n] = NotProceeding]
    /\ KeepsChoices
    /\ UNCHANGED <<version, visits, restoring, asked, confirming, consented, built, reloads>>

\* A destination refused or not read, a blocker, or no plan.
ProceedFails(n) ==
    /\ proceeds[n].pc # "idle"
    /\ proceeds' = [proceeds EXCEPT ![n] = NotProceeding]
    /\ UNCHANGED <<version, page, store, kept, view, visits, restoring, asked, confirming,
                   consented, built, reloads>>

-----------------------------------------------------------------------------
(***************************************************************************)
(* The pages.                                                              *)
(***************************************************************************)

\* handleAnalyze of the entry page, or the page opened again from the tab's history.
OpenAccount(a) ==
    /\ page = "entry"
    /\ \E phase \in {"ANALYZING", store.phase} : Opens(a, [store EXCEPT !.phase = phase], asked)
    /\ UNCHANGED <<version, proceeds, confirming, consented, built, reloads>>

Stays == Waits /\ (confirming \/ (page = "analyze" /\ proceeds[visits].pc # "idle"))

Leave(from, to) ==
    /\ page = from /\ ~Stays
    /\ to = "review" => ShowsReview(store)
    /\ page' = to /\ view' = NoView
    /\ UNCHANGED store /\ KeepsChoices
    /\ UNCHANGED <<version, visits, restoring, asked, proceeds, confirming, consented, built,
                   reloads>>

\* goBackToAnalyze.
BackToAnalyze ==
    /\ page = "review" /\ ShowsReview(store) /\ ~Stays
    /\ Opens(store.source, [store EXCEPT !.phase = "PREFLIGHT_COMPLETE"], asked)
    /\ UNCHANGED <<version, proceeds, confirming, consented, built, reloads>>

\* handleConfirm: what is unresolved is read, and the close is saved.
PressConfirm ==
    /\ page = "review" /\ ShowsReview(store) /\ ~confirming
    /\ confirming' = TRUE /\ consented' = store.plan.hash
    /\ UNCHANGED <<version, page, store, kept, view, visits, restoring, asked, proceeds, built,
                   reloads>>

ConfirmHeld ==
    /\ confirming
    /\ confirming' = FALSE /\ consented' = Nothing
    /\ UNCHANGED <<version, page, store, kept, view, visits, restoring, asked, proceeds, built,
                   reloads>>

\* The choices are forgotten, and then the phase changes under the page that keeps them.
Confirmed ==
    /\ confirming
    /\ confirming' = FALSE
    /\ store' = [store EXCEPT !.phase = "STEP_EXECUTING"]
    /\ kept' = Kept(store', KeptFor(store, page, view.acc), Nothing)
    /\ page' = "execute" /\ view' = NoView
    /\ UNCHANGED <<version, visits, restoring, asked, proceeds, consented, built, reloads>>

\* The first transactions are asked for with the answers the store holds.
Sent == HashOf(store.source, version[store.source], store.asset[store.source], store.claim)

Unanswered ==
    Missing(version[store.source], store.asset[store.source], store.claim[store.source])

\* Mutant of Accepts: the account is compared, and not the answers.
AcceptsAccount(sent, hash) == sent.acc = hash.acc /\ sent.sequence = hash.sequence

\* The API hashes again, and compares.
Accepts(sent, hash) == sent = hash

BuildFirst ==
    /\ page = "execute" /\ Accepts(Sent, store.plan.hash) /\ ~Unanswered
    /\ built' = Sent
    /\ UNCHANGED <<version, page, store, kept, view, visits, restoring, asked, proceeds,
                   confirming, consented, reloads>>

\* What the answers leave open ends the run as failed.
BuildAsks ==
    /\ page = "execute" /\ Accepts(Sent, store.plan.hash) /\ Unanswered
    /\ store' = [store EXCEPT !.phase = "STEP_FAILED"]
    /\ UNCHANGED <<page, view>> /\ KeepsChoices
    /\ UNCHANGED <<version, visits, restoring, asked, proceeds, confirming, consented, built,
                   reloads>>

\* discardPlan: only a fresh plan goes on.
BuildRefused ==
    /\ page = "execute" /\ ~Accepts(Sent, store.plan.hash)
    /\ Opens(store.source, [store EXCEPT !.plan = Nothing, !.phase = "IDLE"], asked)
    /\ consented' = Nothing
    /\ UNCHANGED <<version, proceeds, confirming, built, reloads>>

\* LeaveGuard, once the person said yes: the store is reset.
LeaveClose ==
    /\ page = "execute"
    /\ page' = "entry" /\ store' = EmptyStore /\ kept' = Nothing /\ consented' = Nothing
    /\ UNCHANGED <<version, view, visits, restoring, asked, proceeds, confirming, built, reloads>>

\* The tab loads again: its memory is gone, and the page finds the account it was about in
\* its own address, or in what the tab keeps.
TabReloads ==
    LET a == CASE page = "analyze" -> view.acc
               [] page = "review" /\ kept # Nothing -> kept.acc
               [] OTHER -> Nothing
    IN
    /\ reloads < MaxReloads /\ reloads' = reloads + 1
    /\ IF a # Nothing
          THEN Opens(a, EmptyStore, {})
          ELSE /\ page' = "entry" /\ store' = EmptyStore /\ view' = NoView /\ asked' = {}
               /\ UNCHANGED <<kept, visits, restoring>>
    /\ proceeds' = [n \in 1 .. MaxVisits |-> NotProceeding]
    /\ confirming' = FALSE /\ consented' = Nothing
    /\ UNCHANGED <<version, built>>

\* Others send it more, or it spends elsewhere.
AccountChanges(a) ==
    /\ \/ ~Holds(version[a]) /\ version' = [version EXCEPT ![a] = @ + 1]
       \/ Sequence(version[a]) < LastSequence /\ version' = [version EXCEPT ![a] = @ + 2]
    /\ UNCHANGED <<page, store, kept, view, visits, restoring, asked, proceeds, confirming,
                   consented, built, reloads>>

RequestSteps ==
    \/ Refresh
    \/ \E r \in asked : 
          \/ ReadServed(r) \/ ReadLands(r) \/ RequestFails(r)
          \/ \E blocked \in BOOLEAN : PlanLands(r, blocked)

Answering ==
    \/ \E answer \in AssetAnswer : AnswerAsset(answer)
    \/ \E answer \in ClaimAnswer : AnswerClaim(answer)

Planning ==
    \/ Proceed
    \/ \E n \in 1 .. MaxVisits :
          \/ DestinationChecked(n) \/ FinalPlanUnanswered(n) \/ FinalPlanLands(n) \/ ProceedFails(n)

PageSteps ==
    \/ \E a \in Accounts : OpenAccount(a)
    \/ Leave("analyze", "entry") \/ Leave("analyze", "review") \/ Leave("review", "entry")
    \/ BackToAnalyze \/ LeaveClose \/ TabReloads

Confirming == PressConfirm \/ ConfirmHeld \/ Confirmed \/ BuildFirst \/ BuildAsks \/ BuildRefused

\* Until the first transactions are built: CloseEngine goes on from there.
ReviewNext ==
    /\ built = Nothing
    /\ \/ \E a \in Accounts : AccountChanges(a)
       \/ RequestSteps \/ Answering \/ Planning \/ PageSteps \/ Confirming

ReviewSpec == ReviewInit /\ [][ReviewNext]_reviewVars
=============================================================================
