--------------------------- MODULE RoundBuilding ---------------------------
(***************************************************************************)
(* buildCloseTransactions: the next batch of unsigned transactions of a    *)
(* close, from a confirmed reading s, the answers, and what the builder     *)
(* reads live while it builds (w): the exits and tokens still there, which  *)
(* claims exist, each line's balance, the market, the destinations.         *)
(***************************************************************************)
EXTENDS RoundPlanning

CONSTANTS
  SorobanFee,        \* the fee a simulation asks of one Soroban transaction
  SponsorConfigured  \* whether this server has a fee account

ASSUME FeeAssumption == SorobanFee \in Nat

Batch(txs, again) == [code |-> "", txs |-> txs, again |-> again]
Refuse(code) == [code |-> code, txs |-> <<>>, again |-> FALSE]
NoRound == Refuse("nothing to do")

--------------------------------------------------------------------------
(* Soroban rounds: one transaction each, at the account's own expense. *)

SorobanTx(s, w, op) ==
  [ops |-> <<op>>, fee |-> SorobanFee, sponsored |-> FALSE,
   seq |-> s.account.seq, until |-> w.now + Timeout, memo |-> "none"]

\* assertOwnFeesFit, then the round.
OwnFeesFit(s, tx, laterRounds, payout, round) ==
  IF OwnFeeShortfall(s.account, tx.fee + LaterOwnFees(s.account, laterRounds, payout)) > 0
  THEN Refuse("close_fee_balance_short") ELSE round

\* buildExitRound: the first detected position that is still there leaves.
ExitRound(s, w, answers, payout) ==
  LET targets == InOrder(Exits, Positions(s.account))
      there == InOrder(targets, Positions(w.acct)) IN
  IF there = <<>> THEN NoRound
  ELSE LET p == Head(there)
           after == Len(targets) - IndexFirstSubSeq(<<p>>, targets)
           steps == w.acct.exits[p] - 1 + after
           tx == SorobanTx(s, w, Op("exit", p)) IN
       IF ~Can(w, Op("exit", p)) THEN Refuse("defi_exit_blocked")
       ELSE OwnFeesFit(s, tx,
              steps + Len(targets)
                + TokenRoundsAhead(s.account, answers, {"none", "convert", "transfer"}),
              payout, Batch(<<tx>>, TRUE))

\* The tokens of the reading answered this way and still held, and how many the reading has.
DueTokens(s, answers, choice) ==
  InOrder(Tokens, {t \in HeldTokens(s.account) : answers.asset[t] = choice})
StillHeld(due, w) == InOrder(due, HeldTokens(w.acct))

TokenTransferRound(s, w, answers, payout) ==
  LET due == DueTokens(s, answers, "transfer")
      held == StillHeld(due, w) IN
  IF held = <<>> THEN NoRound
  ELSE LET t == Head(held)
           after == Len(due) - IndexFirstSubSeq(<<t>>, due)
           tx == SorobanTx(s, w, Moving("sendToken", t, w.acct.tokens[t], "chosen")) IN
       OwnFeesFit(s, tx, after + TokenRoundsAhead(s.account, answers, {"convert"}), payout,
                  Batch(<<tx>>, TRUE))

TokenConversionRound(s, w, answers, payout) ==
  LET due == DueTokens(s, answers, "convert")
      held == StillHeld(due, w) IN
  IF held = <<>> THEN NoRound
  ELSE LET t == Head(held)
           after == Len(due) - IndexFirstSubSeq(<<t>>, due)
           least == QuotedLeast(w.rate[t], w.acct.tokens[t])
           tx == SorobanTx(s, w, Swapping("swapToken", t, w.acct.tokens[t], least)) IN
       IF answers.floor[t] = 0 THEN Refuse("conversion_floor_missing")
       ELSE IF w.rate[t] = 0 THEN Refuse("soroban_token_route_lost")
       ELSE IF least < answers.floor[t] THEN Refuse("quote_drifted")
       ELSE OwnFeesFit(s, tx, after, payout, Batch(<<tx>>, TRUE))

--------------------------------------------------------------------------
(* Packing. *)

\* Mutant: every operation closes its chunk.
SingleChunks(ops) == [i \in DOMAIN ops |-> <<ops[i]>>]

Chunks(ops) ==
  [i \in 1..CeilDiv(Len(ops), OpLimit) |->
     SubSeq(ops, (i - 1) * OpLimit + 1, Min({i * OpLimit, Len(ops)}))]

\* isAllowedWindDownOperation: what the fee sponsor agrees to pay for.
Sponsorable(ops) ==
  \A i \in DOMAIN ops :
    ops[i].op \in {"removeSigner", "setThresholds", "removeData", "cancelOffer", "claim",
                   "convert", "removeLine", "merge"}

\* packCloseTransactions: each chunk is judged against what the chunks before it leave.
Pack(s, w, ops) ==
  LET chunk == Chunks(ops)
      spent[i \in 0..Len(chunk)] ==
        IF i = 0 THEN 0
        ELSE spent[i - 1] + (IF Spare(s.account) - spent[i - 1] >= Len(chunk[i])
                             THEN Len(chunk[i]) ELSE 0)
      needsSponsor(i) == spent[i] = spent[i - 1] IN
  IF \E i \in DOMAIN chunk : needsSponsor(i) /\ ~(SponsorConfigured /\ Sponsorable(chunk[i]))
  THEN Refuse("close_fee_balance_short")
  ELSE Batch([i \in DOMAIN chunk |->
                [ops |-> chunk[i], fee |-> IF needsSponsor(i) THEN 0 ELSE Len(chunk[i]),
                 sponsored |-> needsSponsor(i), seq |-> s.account.seq + i - 1,
                 until |-> w.now + Timeout, memo |-> "none"]], FALSE)

--------------------------------------------------------------------------
(* The claim round. *)

\* firstExistingBatch: the next batch, in reading order, of which something still exists.
FirstExistingBatch(claims, w) ==
  LET batches == [i \in 1..CeilDiv(Len(claims), ClaimBatch) |->
                    InOrder(SubSeq(claims, (i - 1) * ClaimBatch + 1, Min({i * ClaimBatch, Len(claims)})),
                            w.acct.claims)]
      left == {i \in DOMAIN batches : batches[i] # <<>>} IN
  IF left = {} THEN <<>> ELSE batches[Min(left)]

Each(name, whats) == [i \in DOMAIN whats |-> Op(name, whats[i])]

LiveBalance(w, a) == IF w.acct.lines[a].held THEN w.acct.lines[a].balance ELSE 0

ClaimRound(s, w, t, answers) ==
  LET k == s.account
      due == InOrder(Claims, Due(k, answers.claim, t))
      unaccounted == InOrder(Claims, {c \in k.claims \ ToSet(due) : answers.claim[c] # "forfeit"})
      batch == FirstExistingBatch(due, w)
      lines == InOrder(Assets, {ClaimAsset[c] : c \in
                 {d \in ToSet(batch) : ClaimStatus(k, d, t) = "needs_trustline"}})
      pack == Pack(s, w, Each("addLine", lines) \o Each("claim", batch)) IN
  IF k.claims = {} /\ ~s.more THEN NoRound
  ELSE IF FirstExistingBatch(unaccounted, w) # <<>> THEN Refuse("claimable_balance_not_claimable_now")
  ELSE IF lines # <<>> /\ TrustlineShortfall(k, Len(lines), Len(batch)) > 0
  THEN Refuse("claimable_balance_reserve_short")
  ELSE IF batch = <<>> THEN IF s.more THEN Refuse("claimable_balances_too_many") ELSE NoRound
  ELSE IF \E a \in ClaimedAssets(k, answers.claim, t) :
            /\ answers.asset[a] = "transfer"
            /\ w.room[a] < LiveBalance(w, a) + ClaimedAmount(k, answers.claim, t, a)
  THEN Refuse("transfer_destination_unusable")
  ELSE IF pack.code # "" THEN pack
  ELSE Batch(pack.txs, TRUE)

--------------------------------------------------------------------------
(* The close. *)

\* What happens to each line that holds something now; an answer nobody gave is a conversion.
Disposed(answers, a) == IF answers.asset[a] = "none" THEN "convert" ELSE answers.asset[a]

AssetOp(w, answers, a) ==
  LET n == LiveBalance(w, a) IN
  CASE Disposed(answers, a) = "convert"  -> Swapping("convert", a, n, QuotedLeast(w.rate[a], n))
    [] Disposed(answers, a) = "transfer" -> Moving("pay", a, n, "chosen")
    [] Disposed(answers, a) = "issuer"   -> Moving("pay", a, n, "issuer")

SignerOps(k) ==
  IF NeedsNormalization(k)
  THEN Each("removeSigner", InOrder(Signers, k.extra)) \o <<Moving("setThresholds", "master", 1, "")>>
  ELSE <<>>

\* assessSponsorshipAffordability reads the owner again; what it cannot pay for is left in place.
Revocable(k, w) == IF w.ownerCanPay THEN (k.sponsors \cap w.acct.sponsors) \ Unrevocable ELSE {}

Funded(s, w) == InOrder(Assets, {a \in Held(s.account) : LiveBalance(w, a) > 0})

CloseOps(s, w, answers, payout) ==
  LET k == s.account
      funded == Funded(s, w) IN
  SignerOps(k)
    \o Each("revoke", InOrder(Sponsored, Revocable(k, w)))
    \o Each("removeData", InOrder(DataKeys, k.data))
    \o Each("cancelOffer", InOrder(Offers, k.offers))
    \o [i \in DOMAIN funded |-> AssetOp(w, answers, funded[i])]
    \o Each("removeLine", InOrder(Assets, Held(k)))
    \o IF payout = "direct" THEN <<Moving("merge", "xlm", 0, "destination")>> ELSE <<>>

Fees(txs) == Sum([i \in DOMAIN txs |-> txs[i].fee])
ConversionFloor(txs) ==
  Sum([i \in DOMAIN txs |-> Sum([j \in DOMAIN txs[i].ops |-> txs[i].ops[j].min])])

\* The merge through the mediator, once the account holds only XLM.
MediatorMerge(s, w) ==
  LET k == s.account IN
  IF Max({OwnFeeShortfall(k, MediatorFee), MinForward + MediatorFee - k.xlm}) > 0
  THEN Refuse("close_fee_balance_short")
  ELSE Batch(<< [ops |-> <<Moving("merge", "xlm", 0, "mediator"),
                           [Moving("forward", "xlm", k.xlm - MediatorFee, "destination")
                              EXCEPT !.by = "mediator"]>>,
                 fee |-> MediatorFee, sponsored |-> FALSE, seq |-> k.seq,
                 until |-> w.now + Timeout, memo |-> "memo"] >>, FALSE)

CloseRound(s, w, answers, payout) ==
  LET converted == {a \in ToSet(Funded(s, w)) : Disposed(answers, a) = "convert"}
      ops == CloseOps(s, w, answers, payout)
      pack == Pack(s, w, ops) IN
  IF \E a \in converted : w.rate[a] = 0 THEN Refuse("asset_route_lost")
  ELSE IF \E a \in converted : QuotedLeast(w.rate[a], LiveBalance(w, a)) < answers.floor[a]
  THEN Refuse("quote_drifted")
  ELSE IF \E a \in ToSet(Funded(s, w)) :
            Disposed(answers, a) = "transfer" /\ w.room[a] < LiveBalance(w, a)
  THEN Refuse("transfer_destination_unusable")
  ELSE IF pack.code # "" THEN pack
  ELSE IF payout = "direct"
  THEN IF Len(pack.txs) > 1 THEN Batch(<<Head(pack.txs)>>, TRUE) ELSE pack
  ELSE IF ops = <<>> THEN MediatorMerge(s, w)
  ELSE IF s.account.xlm - Fees(pack.txs) + ConversionFloor(pack.txs) < MinForward + MediatorFee
  THEN Refuse("close_fee_balance_short")
  ELSE Batch(pack.txs, TRUE)

--------------------------------------------------------------------------
\* The first round that has something to do; t is the ledger time the builder read.
BuildRound(s, w, t, answers, payout) ==
  LET exit == ExitRound(s, w, answers, payout)
      send == TokenTransferRound(s, w, answers, payout)
      swap == TokenConversionRound(s, w, answers, payout)
      claim == ClaimRound(s, w, t, answers) IN
  IF exit # NoRound THEN exit
  ELSE IF send # NoRound THEN send
  ELSE IF swap # NoRound THEN swap
  ELSE IF claim # NoRound THEN claim
  ELSE CloseRound(s, w, answers, payout)
============================================================================
