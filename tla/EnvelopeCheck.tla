---------------------------- MODULE EnvelopeCheck ---------------------------
(***************************************************************************)
(* verifyCloseTransaction: what the browser holds every transaction to      *)
(* before it asks for a signature.  It judges the transaction tx against    *)
(* the account as the user reviewed it (r, a reading that is never taken    *)
(* again during the close), the answers and the kind of destination; it     *)
(* does not trust what built the transaction.                               *)
(***************************************************************************)
EXTENDS RoundPlanning

CONSTANTS
  ForwardTolerance,   \* FORWARD_SHORTFALL_TOLERANCE_STROOPS
  MaxValidity,        \* MAX_VALIDITY_SECONDS
  MaxFeePerOperation, \* MAX_CLASSIC_FEE_PER_OPERATION_STROOPS
  MaxExitFee          \* MAX_EXIT_FEE_STROOPS

ASSUME CheckAssumption ==
  /\ {ForwardTolerance, MaxValidity, MaxFeePerOperation, MaxExitFee} \subseteq Nat
  /\ Timeout <= MaxValidity

Named(tx, name) == {i \in DOMAIN tx.ops : tx.ops[i].op = name}
SorobanOps == {"exit", "sendToken", "swapToken"}
IsSoroban(tx) == \E i \in DOMAIN tx.ops : tx.ops[i].op \in SorobanOps

ExpiresSoon(tx, now) == tx.until <= now + MaxValidity
FeeFits(tx) == tx.fee <= IF IsSoroban(tx) THEN MaxExitFee ELSE MaxFeePerOperation * Len(tx.ops)

\* Mutant: whose funds the forward spends is not looked at.
ForwardsEnough(r, tx) ==
  LET forward == tx.ops[2] IN
  /\ Len(tx.ops) = 2
  /\ tx.ops[1].op = "merge" /\ tx.ops[1].to # "destination" /\ forward.op = "forward"
  /\ forward.to = "destination"
  /\ forward.amount >= r.account.xlm - ForwardTolerance

\* assertMergeShape: straight to the destination, or the two-operation hand-off that carries the
\* balance the user reviewed on to it.
HandsOn(r, tx) ==
  LET forward == tx.ops[2] IN
  /\ Len(tx.ops) = 2
  /\ tx.ops[1].op = "merge" /\ tx.ops[1].to # "destination" /\ forward.op = "forward"
  /\ forward.by = tx.ops[1].to
  /\ forward.to = "destination"
  /\ forward.amount >= r.account.xlm - ForwardTolerance

MergeShapeFits(r, payout, tx) ==
  Named(tx, "merge") # {} =>
    /\ Cardinality(Named(tx, "merge")) = 1
    /\ \A i \in Named(tx, "merge") :
         /\ tx.ops[i].by = "account"
         /\ IF tx.ops[i].to = "destination" THEN payout = "direct"
            ELSE payout = "mediator" /\ HandsOn(r, tx)

\* claimedStroops: what of an asset the close will claim, as the browser reckons it.
WillClaim(r, answers, a) ==
  {c \in r.account.claims :
     /\ ClaimAsset[c] = a
     /\ IF Usable(r.account, a) THEN answers.claim[c] # "forfeit" ELSE answers.claim[c] = "add"}

\* chosenTransfers: the least a transfer may carry, and whether there is an entry at all.
ReviewedAmount(r, answers, a) ==
  r.account.lines[a].balance + Cardinality(WillClaim(r, answers, a))

\* Mutant: the amount reviewed is demanded, and the claims of an earlier round are forgotten.
PaymentIsExact(r, answers, o) ==
  \/ answers.asset[o.what] = "issuer" /\ o.to = "issuer"
  \/ /\ answers.asset[o.what] = "transfer" /\ o.to = "chosen"
     /\ o.amount > 0 /\ o.amount = r.account.lines[o.what].balance

PaymentFits(r, answers, o) ==
  \/ answers.asset[o.what] = "issuer" /\ o.to = "issuer"
  \/ LET least == ReviewedAmount(r, answers, o.what) IN
     answers.asset[o.what] = "transfer" /\ o.to = "chosen" /\ least > 0 /\ o.amount >= least

\* Mutant: the minimum only has to be there.
ConversionHasFloor(answers, o) ==
  o.to = "account" /\ o.min > 0 /\ answers.asset[o.what] = "convert"

\* chosenClassicConversions and the conversion rules.
ConversionFits(answers, o) ==
  /\ o.to = "account" /\ o.min > 0
  /\ answers.asset[o.what] = "convert" /\ o.min >= answers.floor[o.what]

TokenTransferFits(r, answers, o) ==
  answers.asset[o.what] = "transfer" /\ o.to = "chosen" /\ o.amount >= r.account.tokens[o.what]

SwapFits(r, answers, o) ==
  /\ answers.asset[o.what] = "convert" /\ o.to = "account"
  /\ o.amount >= r.account.tokens[o.what]
  /\ answers.floor[o.what] > 0 /\ o.min >= answers.floor[o.what]

\* claimTrustlineAssets: what the user chose to add a trustline for.
MayAdd(r, answers, a) == \E c \in r.account.claims : answers.claim[c] = "add" /\ ClaimAsset[c] = a

OperationFits(r, answers, tx, o) ==
  /\ o.by = "account" \/ o.op = "forward"
  /\ o.op \in SorobanOps => Len(tx.ops) = 1
  /\ CASE o.op = "pay"           -> PaymentFits(r, answers, o)
       [] o.op = "convert"       -> ConversionFits(answers, o)
       [] o.op = "addLine"       -> MayAdd(r, answers, o.what)
       [] o.op = "removeSigner"  -> o.what \in r.account.extra
       [] o.op = "setThresholds" -> o.amount <= 1
       [] o.op = "exit"          -> o.what \in Positions(r.account)
       [] o.op = "sendToken"     -> TokenTransferFits(r, answers, o)
       [] o.op = "swapToken"     -> SwapFits(r, answers, o)
       [] o.op = "forward"       -> HandsOn(r, tx)
       [] OTHER                  -> TRUE

\* seenTransfers and seenConversions.
OncePerAsset(tx) ==
  \A i, j \in DOMAIN tx.ops :
    (i # j /\ tx.ops[i].op = tx.ops[j].op /\ tx.ops[i].op \in {"pay", "convert"})
      => tx.ops[i].what # tx.ops[j].what

\* assertMemo: only the transaction that delivers the balance carries the memo.  A listed
\* exchange requires one; the destination of a direct close has none.
MemoFits(payout, tx) ==
  tx.memo = IF Named(tx, "merge") # {} /\ payout = "mediator" THEN "memo" ELSE "none"

\* What a transaction is refused for, or "".
Verdict(r, answers, payout, tx, now) ==
  IF ~ExpiresSoon(tx, now) \/ ~FeeFits(tx) THEN "limits refused"
  ELSE IF ~MergeShapeFits(r, payout, tx)   THEN "merge refused"
  ELSE IF ~OncePerAsset(tx) \/ \E i \in DOMAIN tx.ops : ~OperationFits(r, answers, tx, tx.ops[i])
                                           THEN "operation refused"
  ELSE IF ~MemoFits(payout, tx)            THEN "memo refused"
  ELSE ""
============================================================================
