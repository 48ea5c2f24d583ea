---------------------------- MODULE ReviewSafety ----------------------------
(***************************************************************************)
(* What the person can rely on before the first transaction is signed.     *)
(***************************************************************************)
EXTENDS PlanReview

\* The first transactions are built from the plan the review showed when it was confirmed:
\* no answer given, restored or dropped since goes into them, nor what the account itself has
\* done since.
\* It rests on the hash the browser sends along and the API compares, and on nobody setting
\* another plan between the confirmation and its save: the person waits for both on the page.
BuiltAsReviewed == built # Nothing => built = consented

\* The plan that can be gone on with is the one for the answers on screen, however many
\* requests of it are under way and in whatever order they come back.
ProceedsOnItsPlan ==
    CanProceed /\ ~view.failed /\ view.plan.holds => view.plan.claim = store.claim[view.acc]

\* "Dropped at the review confirm and never written after it": the pages that keep the
\* choices still listen to the store when the confirmation drops them and changes the phase.
NothingKeptAfterConsent == store.phase \in AfterConsent => kept = Nothing

\* A plan that still asks for an answer is refreshed and never reviewed: "proceeding would
\* walk the user through review and a secret key to a bare 422".
ReviewedIsAnswered == page = "review" /\ ShowsReview(store) => ~store.plan.open
=============================================================================
