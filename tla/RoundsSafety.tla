---------------------------- MODULE RoundsSafety ---------------------------
(***************************************************************************)
(* What a close over several rounds promises about the account's funds, and *)
(* what may still stop it once something has been signed away.              *)
(***************************************************************************)
EXTENDS CloseRounds

Before(name) == \E i \in DOMAIN landed : landed[i] = name
SorobanBefore == \E name \in SorobanOps : Before(name)

\* The account could not have paid the classic rounds itself when it was reviewed: only the plan of
\* an account with Soroban rounds ahead is held to that, the others count on the fee sponsor.
ShortAtReview == OwnFeeShortfall(reviewed.account, LaterOwnFees(reviewed.account, 0, payout)) > 0

\* A claim answered "add" for an asset whose line exists and was frozen by its issuer.
ClaimOnFrozenLine ==
  \E c \in world.acct.claims :
    answers.claim[c] = "add" /\ world.acct.lines[ClaimAsset[c]].auth = "unauthorized"

\* An asset answered "transfer" that only an exit pays in: the browser has no amount for it.
TransferOfArrivals ==
  Before("exit") /\ \E a \in Held(reviewed.account) :
                     answers.asset[a] = "transfer" /\ ReviewedAmount(reviewed, answers, a) = 0

\* What may still stop an undisturbed close between rounds.
Excused(code) ==
  \/ code = "close_fee_balance_short" /\ (Before("addLine") \/ ShortAtReview)
  \/ code = "claimable_balance_reserve_short" /\ Before("exit")
  \/ code = "transfer_destination_unusable" /\ Before("exit")
  \/ code = "needs_decisions" /\ answers.partial
  \/ code = "transaction failed" /\ ClaimOnFrozenLine
  \/ code = "operation refused" /\ TransferOfArrivals

\* A close whose plan was shown ready, and which nothing outside it disturbs, is not refused after
\* one of its transactions has landed: the gates of buildPlan foresee those of every later round
\* (build-transactions.ts, merge-preflight.ts, verify.ts).  Excused lists where they do not.
NoLateRefusal ==
  (planned /\ quiet /\ landed # <<>> /\ phase = "stopped") => Excused(why)

\* Whoever calls, once a Soroban round has landed the close never finds its own fees short:
\* assertOwnFeesFit reserved those of every later round before the first one was signed.  A line
\* that a claim opens in between takes a reserve it does not count.
SorobanSeenThrough ==
  (quiet /\ phase = "stopped" /\ why = "close_fee_balance_short" /\ ~Before("addLine")) => ~SorobanBefore

\* Whatever the server built and whatever moved meanwhile, all that leaves the account leaves the
\* way the user answered: converted for no less than the floor shown, sent to the address chosen
\* or back to the issuer, and merged into the destination or handed on to it.
FundsGoAsAnswered ==
  \A m \in world.left :
    CASE m.how = "convert" -> /\ answers.asset[m.what] \in {"convert"} \cup IF planned THEN {} ELSE {"none"}
                              /\ m.xlm >= answers.floor[m.what] /\ m.to = "account"
      [] m.how = "pay"     -> \/ answers.asset[m.what] = "transfer" /\ m.to = "chosen"
                              \/ answers.asset[m.what] = "issuer" /\ m.to = "issuer"
      [] m.how = "merge"   -> payout = "direct" => m.to = "destination"
      [] m.how = "forward" -> payout = "mediator" /\ m.to = "destination"
      [] OTHER             -> FALSE

\* A balance handed to an intermediary is handed on by that intermediary, in the same transaction,
\* with the exchange's memo and with no more missing than the tolerance, whoever built the merge.
BalanceReachesDestination ==
  (world.acct.merged /\ planned /\ payout = "mediator") =>
    /\ world.memo = "memo"
    /\ \E paid, sent \in world.left :
         /\ paid.how = "merge" /\ sent.how = "forward" /\ sent.by = paid.to
         /\ sent.units >= reviewed.account.xlm - ForwardTolerance

\* A close that ended left nothing behind that the user did not leave: no claim of the last reading
\* that was not given up, no token not answered "leave", no DeFi position.
NothingForgotten ==
  (sound /\ phase = "closed") =>
    /\ \A c \in shown \cap world.acct.claims : answers.claim[c] = "forfeit"
    /\ \A t \in TokenSet : world.acct.tokens[t] > 0 => answers.asset[t] = "leave"
    /\ Positions(world.acct) = {}

\* As long as a transaction that claims a balance can still be included, the predicate of the
\* balance holds: CLAIM_PREDICATE_MARGIN outlasts the transaction's own time bound.
ClaimsLandInTime ==
  phase = "sending" =>
    \A i \in DOMAIN queue : \A j \in DOMAIN queue[i].ops :
      queue[i].ops[j].op = "claim" /\ world.now <= queue[i].until => OpenAt(queue[i].ops[j].what, world.now)

\* Rounds remainingTransactionBound does not count: the further steps of a position, and the claim
\* batches, each with a line to open for every claim of it at worst.
Uncounted ==
  LET k == reviewed.account IN
  Sum([i \in DOMAIN Exits |-> IF Exits[i] \in Positions(k) THEN k.exits[Exits[i]] - 1 ELSE 0])
    + CeilDiv(Len(Claims), ClaimBatch) * CeilDiv(2 * ClaimBatch, OpLimit)

\* Every round gets something done: left alone, a close needs no more transactions than the merge
\* preflight counted and those it leaves out, so the client's loop comes to its end.
RoundsBounded ==
  (quiet /\ phase # "plan" /\ reviewed # <<>>)
    => Len(landed) <= RemainingTransactions(reviewed.account, payout) + Uncounted

--------------------------------------------------------------------------
(* What the code says and does not keep; each is the one property of its run. *)

\* "verify() rejected the payment it had told the user about" is the failure chosenTransfers says
\* it prevents: a transfer the plan offered and the user chose is not refused when it is built.
ReviewedTransferIsSigned ==
  (sound /\ quiet /\ phase = "stopped") => why # "operation refused"

\* The tolerance "covers the network fee the merge consumes and a little drift": the hand-off of a
\* balance nothing but the close itself has drawn on is not refused as short.
ReviewedForwardIsSigned ==
  (sound /\ quiet /\ phase = "stopped") => why # "merge refused"
============================================================================
