---------------------------- MODULE CloseSafety ----------------------------
(***************************************************************************)
(* What the close loop promises, about the saved closes, the runs and the  *)
(* ledger together.                                                        *)
(***************************************************************************)
EXTENDS CloseEngine

\* What no page may say before it is true: a tab shows the account closed only
\* after a merge whose hash this browser computed has succeeded.
SaysClosed(t) == tab[t].phase = "complete" \/ tab[t].finished

CompleteMeansClosed ==
    (\E t \in Tabs : SaysClosed(t)) => \E i \in Ids : Closed(i)

\* At most one transaction of the account can still reach a ledger, across
\* resends, retries, leaves and restarts: a second one of the same sequence is
\* never signed and sent while the first may land.
OneInFlight == \A i, j \in Ids : CanLand(i) /\ CanLand(j) => i = j

\* A transaction that may still land is named by a saved close, so a browser
\* that starts again finds it (recordSubmission before the first send, and the
\* hash dropped only when it is settled).
InFlightIsHeld == \A i \in Ids : CanLand(i) => \E s \in Sessions : unconfirmed[s] = i

\* A page that says the close failed, and offers a retry, never does so while a
\* transaction of this account may still land.
FailedMeansSettled ==
    \A t \in Tabs : tab[t].phase = "failed" => \A i \in Ids : ~CanLand(i)

\* A submission given up as expired never ran, and never will (resolveSubmission
\* and settleLeftOver).
ExpiredNeverRan ==
    \A r \in Runs :
        run[r].pc \in {"list", "drop"} /\ run[r].outcome = "expired"
            => ~Applied(run[r].sub) /\ ~CanLand(run[r].sub)

\* What a saved close lists as confirmed did succeed on the ledger.
RecordedIsConfirmed ==
    \A s \in Sessions : \A i \in done[s] : i \in Ids /\ tx[i].fate = "success"

\* Nothing a page shows and nothing a record lists is ahead of the ledger, whatever runs,
\* tabs and left-overs crossed each other.
SaidIsTrue == CompleteMeansClosed /\ RecordedIsConfirmed

\* A round is asked for without the reviewed plan's hash only after a transaction
\* of this browser changed the account: what expired or was refused leaves the
\* round checked against that plan.  And while nobody else changes the account, a
\* round is never refused as changed: the hash goes as soon as a transaction of the
\* plan has confirmed.
PlanHashFollows ==
    \A r \in Runs : At(r, "fetch") /\ Owns(r) =>
        IF run[r].hash = NoPlan
        THEN \E i \in Ids : tx[i].fate = "success"
        ELSE disturbed = 0 => run[r].hash = seqNum

\* Only a run whose close the tab still holds makes a transaction the store's
\* hold (recordSubmission: "the store is touched only while it still holds that
\* close").
StoreKeptForOwner ==
    [][\A t \in Tabs :
          tab[t].phase # "loading" /\ tab'[t].held \notin {0, tab[t].held}
              => \E r \in Runs : TabOf[r] = t /\ Owns(r) /\ run'[r] # run[r]]_vars

-----------------------------------------------------------------------------
\* The contract the loop keeps with the person who closes the account.
Promise == INSTANCE CloseContract WITH
    live <- {i \in Ids : CanLand(i)},
    merged <- \E i \in Ids : Closed(i),
    told <- \E t \in Tabs : SaysClosed(t)

\* The loop implements that contract.
KeepsContract == Promise!Contract

-----------------------------------------------------------------------------
(***************************************************************************)
(* Fairness.  A run's awaits end: requests, lookups and signers answer or  *)
(* time out, so each of its steps is weakly fair.  Ledgers keep closing.   *)
(* For the hold to be released, the person keeps pressing the check and    *)
(* the lookup does not fail for ever.                                      *)
(***************************************************************************)
Settles(r) == Answered(r) /\ run'[r].pc = "list"

Fairness ==
    /\ WF_vars(Tick /\ UNCHANGED <<savedVars, run, tab>>)
    /\ \A r \in Runs :
          /\ WF_vars(Engine(r))
          /\ WF_vars(AskCheck(r))
          /\ SF_vars(Settles(r))

FairSpec == Spec /\ Fairness

\* Every run comes to an end: the loop cannot spin on refetches, resends or rounds.
RunEnds == \A r \in Runs : run[r].pc # "idle" ~> run[r].pc = "idle"

\* A page that holds back everything but the check does not do so for ever.
HoldReleased == \A t \in Tabs : tab[t].phase = "unconfirmed" ~> tab[t].phase # "unconfirmed"
=============================================================================
