---------------------------- MODULE SubmitSafety ----------------------------
(***************************************************************************)
(* What the caller of submit can rely on.                                  *)
(***************************************************************************)
EXTENDS SubmitApi

\* A refusal of the first submission is final: the network has not taken the envelope, or
\* it applied it and it failed.  The close engine builds on this (isSubmitRefused) when it
\* drops the hash of a refused transaction.
FirstRefusalIsFinal ==
    answer = "refused" /\ calls = 1 => fate \in {"unsent", "failed"}

\* `confirmation_timeout` says that the transaction was submitted: a node did take it,
\* whichever way the loop was left.
PendingWasTaken == answer = "pending" => fate # "unsent"

\* Resubmitting a confirmed transaction is safe where nodes lag for less than the settle
\* window and there is a second provider to look at: a refusal of what is confirmed only
\* follows a read that failed.
ConfirmedRefusedOnlyUnread == landed /\ answer = "refused" => unread

\* "So the API always gets to name the outcome": the budget and one read, which is what
\* the client that waits for it allows.
AnswersInTime == t <= Budget + ReadTimeout
=============================================================================
