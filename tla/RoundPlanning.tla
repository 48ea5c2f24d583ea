--------------------------- MODULE RoundPlanning ---------------------------
(***************************************************************************)
(* What the API decides about an account before it builds anything: which  *)
(* claims can run, which questions the caller must answer, what the plan    *)
(* refuses to show as ready and what POST /close/transactions refuses       *)
(* before its first live read.  Everything here is a function of one        *)
(* reading s of the account, as in the code.                                *)
(***************************************************************************)
EXTENDS ClosingLedger, FiniteSetsExt

CONSTANTS
  ReadCeiling,      \* the most claimable balances one reading lists
  ClaimBatch,       \* CLAIM_ROUND_BATCH_SIZE
  OpLimit,          \* OP_BATCH_LIMIT
  Timeout,          \* TX_TIMEOUT_SECONDS
  ClaimMargin,      \* CLAIM_PREDICATE_MARGIN_SECONDS
  SorobanEstimate,  \* SOROBAN_EXIT_FEE_ESTIMATE_STROOPS
  MinForward        \* MEDIATOR_MIN_FORWARD_STROOPS

ASSUME LimitsAssumption ==
  /\ {ReadCeiling, ClaimBatch, OpLimit} \subseteq Nat \ {0}
  /\ {Timeout, ClaimMargin, SorobanEstimate, MinForward} \subseteq Nat
  /\ Timeout <= ClaimMargin
  /\ Len(Signers) < OpLimit   \* an account has at most 20 signers, OP_BATCH_LIMIT is 100

MediatorFee == 2

\* Mutant: a reading that stops at its ceiling does not say so.
ReadingSaysAll(w) ==
  LET seen == InOrder(Claims, w.acct.claims) IN
  [account |-> [w.acct EXCEPT !.claims = ToSet(SubSeq(seen, 1, Min({Len(seen), ReadCeiling})))],
   more    |-> FALSE,
   time    |-> w.now]

\* One reading of the account: the claims beyond the ceiling are only known to exist.
Reading(w) ==
  LET seen == InOrder(Claims, w.acct.claims) IN
  [account |-> [w.acct EXCEPT !.claims = ToSet(SubSeq(seen, 1, Min({Len(seen), ReadCeiling})))],
   more    |-> Len(seen) > ReadCeiling,
   time    |-> w.now]

Positions(k) == {p \in DOMAIN k.exits : k.exits[p] > 0}
HeldTokens(k) == {t \in TokenSet : k.tokens[t] > 0}

--------------------------------------------------------------------------
(* Claims. *)

\* Mutant: a predicate that holds now is taken to hold.
HoldsNow(c, t) == OpenAt(c, t)

HoldsThroughWindow(c, t) == OpenAt(c, t) /\ OpenAt(c, t + ClaimMargin)

ClaimStatus(k, c, t) ==
  IF ~HoldsThroughWindow(c, t) THEN "predicate_blocked"
  ELSE IF ClaimAsset[c] = "native" \/ Usable(k, ClaimAsset[c]) THEN "claimable"
  ELSE "needs_trustline"

Due(k, choice, t) ==
  {c \in k.claims :
     \/ ClaimStatus(k, c, t) = "claimable" /\ choice[c] # "forfeit"
     \/ ClaimStatus(k, c, t) = "needs_trustline" /\ choice[c] = "add"}

SelectionFits(choice, status) ==
  \/ choice = "forfeit"
  \/ choice = "claim" /\ status = "claimable"
  \/ choice = "add" /\ status \in {"needs_trustline", "claimable"}

\* The assets whose balance the claims will raise.
ClaimedAssets(k, choice, t) == {ClaimAsset[c] : c \in Due(k, choice, t)} \ {"native"}
ClaimedAmount(k, choice, t, a) == Cardinality({c \in Due(k, choice, t) : ClaimAsset[c] = a})

NewLines(k, choice, t) ==
  {ClaimAsset[c] : c \in {d \in Due(k, choice, t) : ClaimStatus(k, d, t) = "needs_trustline"}}

TrustlineShortfall(k, newLines, claimOps) ==
  Max({0, BaseReserve * newLines + claimOps + newLines - Spare(k)})

--------------------------------------------------------------------------
(* Fees no sponsor pays. *)

ClassicOpsBound(k) ==
  (1 + Cardinality(k.extra)) + Cardinality(k.data) + Cardinality(k.offers)
    + 2 * Cardinality(Held(k)) + 2 * Cardinality(k.claims) + Cardinality(k.sponsors) + 1

TokenRoundsAhead(k, answers, which) ==
  Cardinality({t \in HeldTokens(k) : answers.asset[t] \in which})

\* Mutant: the Soroban rounds still to come are not reserved for.
LaterClassicFees(k, laterRounds, payout) ==
  ClassicOpsBound(k) + (IF payout = "mediator" THEN MediatorFee ELSE 0)

LaterOwnFees(k, laterRounds, payout) ==
  SorobanEstimate * laterRounds + ClassicOpsBound(k)
    + (IF payout = "mediator" THEN MediatorFee ELSE 0)

OwnFeeShortfall(k, fees) == Max({0, fees - Spare(k)})

--------------------------------------------------------------------------
(* Questions. *)

\* What an exit pays into a trustline the account already holds.
ArrivingFromExits(k) == {a \in Held(k) : Usable(k, a) /\ \E p \in Positions(k) : ExitPays[p] = a}

\* The assets and tokens /close/transactions wants answered before the first round.
NeedsDisposition(s, choice) ==
  {a \in Held(s.account) : s.account.lines[a].balance > 0}
    \cup ClaimedAssets(s.account, choice, s.time)
    \cup ArrivingFromExits(s.account) \cup HeldTokens(s.account)

\* The ones the plan asks about: a token an exit will pay out is asked for before it is held.
AskedAbout(s, choice) ==
  NeedsDisposition(s, choice)
    \cup {t \in TokenSet : \E p \in Positions(s.account) : ExitPays[p] = t}

ClaimOptions(s, c) ==
  CASE ClaimStatus(s.account, c, s.time) = "claimable" -> {"none", "claim", "forfeit"}
    [] ClaimStatus(s.account, c, s.time) = "predicate_blocked" -> {"forfeit"}
    [] OTHER -> {"forfeit"} \cup IF TrustlineShortfall(s.account, 1, 1) = 0 THEN {"add"} ELSE {}

\* The least the quote for n units promises: one unit of slippage on each.
QuotedLeast(rate, n) == IF rate = 0 THEN 0 ELSE (rate - 1) * n

AssetOptions(w, s, x) ==
  IF x \in TokenSet
  THEN {"transfer", "leave"}
         \cup IF w.rate[x] > 0 /\ s.account.tokens[x] > 0 THEN {"convert"} ELSE {}
  ELSE {"issuer", "transfer"} \cup IF w.rate[x] > 0 THEN {"convert"} ELSE {}

QuotedAmount(s, choice, x) ==
  IF x \in TokenSet THEN s.account.tokens[x]
  ELSE s.account.lines[x].balance + ClaimedAmount(s.account, choice, s.time, x)

\* Every complete set of answers to the plan of s; a convert answer carries the
\* floor it was shown, partial whether the plan said there were more claims than it listed.
Answers(w, s) ==
  UNION {
    { [claim |-> choice, asset |-> asset, partial |-> s.more,
       floor |-> [x \in Things |-> IF asset[x] = "convert"
                                   THEN QuotedLeast(w.rate[x], QuotedAmount(s, choice, x)) ELSE 0]] :
        asset \in {f \in [Things -> {"none", "convert", "transfer", "issuer", "leave"}] :
                     \A x \in Things : IF x \in AskedAbout(s, choice)
                                       THEN f[x] \in AssetOptions(w, s, x) ELSE f[x] = "none"} } :
      choice \in {f \in [ToSet(Claims) -> {"none", "claim", "add", "forfeit"}] :
                    \A c \in ToSet(Claims) : IF c \in s.account.claims
                                             THEN f[c] \in ClaimOptions(s, c) ELSE f[c] = "none"} }

--------------------------------------------------------------------------
(* Gates. *)

NeedsNormalization(k) == k.extra # {} \/ k.high > 1

\* Whether normalizing would leave no key able to sign, or could never be signed.
NormalizationUnsafe(k) ==
  k.master < 1 \/ k.master + Cardinality(k.extra \ {"payload"}) < k.high

LineBlocked(k) == \E a \in Held(k) : k.lines[a].auth # "authorized" /\ k.lines[a].balance > 0

\* The tokens a reading lists: those held, and with a balance of zero those an exit pays out.
ListedTokens(k) == HeldTokens(k) \cup {t \in TokenSet : \E p \in Positions(k) : ExitPays[p] = t}

\* assessMergePreflight's bound on the transactions still to come.
CeilDiv(n, d) == (n + d - 1) \div d
RemainingTransactions(k, payout) ==
  CeilDiv(ClassicOpsBound(k), OpLimit) + Cardinality(Positions(k)) + Cardinality(ListedTokens(k))
    + (IF payout = "mediator" THEN 1 ELSE 0)

SequenceTooFar(k, payout) == k.seq + RemainingTransactions(k, payout) >= SequenceLimit
DestinationMissing(w, payout) == payout = "direct" /\ ~w.destination

TransferRefused(w, k, answers) ==
  \E a \in Held(k) : answers.asset[a] = "transfer" /\ w.room[a] < k.lines[a].balance

\* The blockers of buildPlan that a caller cannot answer away.
PlanBlockers(w, s, answers, payout) ==
  LET k == s.account
      lines == NewLines(k, answers.claim, s.time)
      due == Due(k, answers.claim, s.time)
      soroban == 2 * Cardinality(Positions(k))
                   + TokenRoundsAhead(k, answers, {"none", "convert", "transfer"}) IN
  {b \in {"unrevocable", "unaffordable", "signers", "lines", "unclaimable", "reserve", "too_many",
           "fees", "transfer", "merge"} :
     CASE b = "unrevocable"  -> k.sponsors \cap Unrevocable # {}
       [] b = "unaffordable" -> k.sponsors \ Unrevocable # {} /\ ~w.ownerCanPay
       [] b = "signers"      -> NeedsNormalization(k) /\ NormalizationUnsafe(k)
       [] b = "lines"        -> LineBlocked(k)
       [] b = "unclaimable"  -> \E c \in k.claims \ due : answers.claim[c] # "forfeit"
       [] b = "reserve"      -> /\ lines # {}
                                /\ TrustlineShortfall(k, Cardinality(lines),
                                                      Min({Cardinality(due), ClaimBatch})) > 0
       [] b = "too_many"     -> s.more /\ due = {}
       [] b = "transfer"     -> TransferRefused(w, k, answers)
       [] b = "merge"        -> SequenceTooFar(k, payout) \/ DestinationMissing(w, payout)
       [] b = "fees"         -> soroban > 0 /\ OwnFeeShortfall(k, LaterOwnFees(k, soroban, payout)) > 0}

FirstBad(gates) ==
  LET bad == {i \in DOMAIN gates : gates[i].refuse} IN IF bad = {} THEN "" ELSE gates[Min(bad)].code

\* What the service and the first lines of the builder refuse s and the answers for, in order.
Refusal(w, s, answers, payout) ==
  LET k == s.account
      choice == answers.claim IN
  FirstBad(<<
    [code |-> "claimable_balance_not_claimable_now",
     refuse |-> \E c \in k.claims : choice[c] # "none" /\ ~SelectionFits(choice[c], ClaimStatus(k, c, s.time))],
    [code |-> "needs_decisions",
     refuse |-> \/ \E x \in NeedsDisposition(s, choice) : answers.asset[x] = "none"
                \/ \E c \in k.claims : ClaimStatus(k, c, s.time) # "claimable" /\ choice[c] = "none"],
    [code |-> "source_sequence_too_far",
     refuse |-> SequenceTooFar(k, payout)],
    [code |-> "merge_destination_unusable",
     refuse |-> DestinationMissing(w, payout)],
    [code |-> "transfer_destination_unusable",
     refuse |-> TransferRefused(w, k, answers)],
    [code |-> "signer_normalization_unsafe",
     refuse |-> NeedsNormalization(k) /\ NormalizationUnsafe(k)],
    [code |-> "trustline_blocked", refuse |-> LineBlocked(k)] >>)
============================================================================
