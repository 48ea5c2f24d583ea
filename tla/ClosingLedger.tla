--------------------------- MODULE ClosingLedger ---------------------------
(***************************************************************************)
(* The account being closed and what the ledger does with the operations   *)
(* of a close: a transaction is charged, then all of its operations apply  *)
(* or none does.  The rules are the network's, modelled from the claims    *)
(* src/ makes about them (what makes a merge, a claim, a new trustline or   *)
(* a revocation fail); the reserve arithmetic is the repository's own copy  *)
(* of it.  Amounts are counted in units of the base fee of one operation.  *)
(***************************************************************************)
EXTENDS Integers, Sequences, FiniteSets, SequencesExt

\* What an account can hold, each kind in the order the ledger lists it.
CONSTANTS Assets, Tokens, Exits, Claims, DataKeys, Offers, Signers, Sponsored

CONSTANTS
  ClaimAsset,     \* claim -> the asset it pays, or "native"
  ClaimOpen,      \* claim -> the instants at which its predicate holds
  ExitPays,       \* exit -> the asset or token its last step pays out
  Unrevocable,    \* the sponsored entries that are claimable balances
  BaseReserve,    \* the reserve of one sub-entry
  OfferXlm,       \* the XLM one open offer sells
  SequenceLimit,  \* a source with this sequence number cannot be merged
  LastInstant     \* bound: the clock stops here and predicates are settled

AssetSet == ToSet(Assets)
TokenSet == ToSet(Tokens)
Things == AssetSet \cup TokenSet

ASSUME HoldingsAssumption ==
  /\ Assets \in Seq(AssetSet) /\ Tokens \in Seq(TokenSet) /\ AssetSet \cap TokenSet = {}
  /\ \A kind \in {Exits, Claims, DataKeys, Offers, Signers, Sponsored} : kind \in Seq(ToSet(kind))
  /\ LastInstant \in Nat /\ \A c \in ToSet(Claims) : ClaimOpen[c] \subseteq 0..LastInstant

\* The ledger lists each thing once; a claimable balance pays a classic asset, never a contract's token.
ASSUME ListingAssumption ==
  /\ \A kind \in {Assets, Tokens, Exits, Claims, DataKeys, Offers, Signers, Sponsored} : IsInjective(kind)
  /\ \A c \in ToSet(Claims) : ClaimAsset[c] \notin TokenSet
  /\ "native" \notin AssetSet /\ {BaseReserve, OfferXlm} \subseteq Nat

\* The members of S in the order of the sequence all.
InOrder(all, S) ==
  LET kept[i \in 0..Len(all)] ==
        IF i = 0 THEN <<>> ELSE IF all[i] \in S THEN Append(kept[i - 1], all[i]) ELSE kept[i - 1]
  IN  kept[Len(all)]

Sum(f) == LET add[i \in 0..Len(f)] == IF i = 0 THEN 0 ELSE add[i - 1] + f[i] IN add[Len(f)]

--------------------------------------------------------------------------
(* The account. *)

NoLine == [held |-> FALSE, balance |-> 0, auth |-> "authorized"]

Held(k) == {a \in AssetSet : k.lines[a].held}
SubEntries(k) ==
  Cardinality(k.extra) + Cardinality(k.data) + Cardinality(k.offers) + Cardinality(Held(k))

MinimumBalance(k) == (2 + SubEntries(k) + Cardinality(k.sponsors)) * BaseReserve
FeeFloor(k) == MinimumBalance(k) + OfferXlm * Cardinality(k.offers)

\* What the account can spend on fees; negative when its reserve has grown past its balance.
Spare(k) == k.xlm - FeeFloor(k)

OpenAt(c, t) == (IF t > LastInstant THEN LastInstant ELSE t) \in ClaimOpen[c]

--------------------------------------------------------------------------
(* Operations.  w is the world: the account, the market, the accounts the   *)
(* close pays, the clock, in w.left what has left the account and how, and *)
(* in w.memo the memo of the last transaction.                             *)

Op(name, what) ==
  [op |-> name, what |-> what, amount |-> 0, min |-> 0, to |-> "", by |-> "account"]
Moving(name, what, n, to) == [Op(name, what) EXCEPT !.amount = n, !.to = to]
Swapping(name, what, n, least) == [Moving(name, what, n, "account") EXCEPT !.min = least]

Mergeable(w) ==
  LET k == w.acct IN
  /\ k.data = {} /\ k.offers = {} /\ Held(k) = {} /\ k.sponsors = {}
  /\ k.seq < SequenceLimit

Usable(k, a) == k.lines[a].held /\ k.lines[a].auth = "authorized"

\* An operation of another account that the same keys sign for.
Foreign(o) == o.by = "stranger" /\ o.op # "forward"

\* Whether operation o can apply in w.
Can(w, o) ==
  LET k == w.acct IN
  IF Foreign(o) THEN TRUE ELSE
  CASE o.op = "removeSigner"  -> o.what \in k.extra
    [] o.op = "setThresholds" -> TRUE
    [] o.op = "revoke"        -> o.what \in k.sponsors \ Unrevocable /\ w.ownerCanPay
    [] o.op = "removeData"    -> o.what \in k.data
    [] o.op = "cancelOffer"   -> o.what \in k.offers
    [] o.op = "addLine"       -> k.lines[o.what].held \/ Spare(k) >= BaseReserve
    [] o.op = "claim"         -> /\ o.what \in k.claims /\ OpenAt(o.what, w.now)
                                 /\ ClaimAsset[o.what] # "native" => Usable(k, ClaimAsset[o.what])
    [] o.op = "convert"       -> /\ Usable(k, o.what) /\ k.lines[o.what].balance >= o.amount
                                 /\ w.rate[o.what] > 0 /\ w.rate[o.what] * o.amount >= o.min
    [] o.op = "pay"           -> /\ Usable(k, o.what) /\ k.lines[o.what].balance >= o.amount
                                 /\ o.to = "chosen" => w.room[o.what] >= o.amount
    [] o.op = "removeLine"    -> k.lines[o.what].held /\ k.lines[o.what].balance = 0
    [] o.op = "merge"         -> Mergeable(w) /\ (o.to = "destination" => w.destination)
    [] o.op = "forward"       -> k.merged /\ o.amount <= k.xlm
    [] o.op = "exit"          -> /\ k.exits[o.what] > 0
                                 /\ ExitPays[o.what] \in AssetSet => Usable(k, ExitPays[o.what])
    [] o.op = "sendToken"     -> k.tokens[o.what] >= o.amount
    [] o.op = "swapToken"     -> /\ k.tokens[o.what] >= o.amount
                                 /\ w.rate[o.what] > 0 /\ w.rate[o.what] * o.amount >= o.min

Credited(k, what, n) ==
  IF what = "native" THEN [k EXCEPT !.xlm = @ + n]
  ELSE IF what \in TokenSet THEN [k EXCEPT !.tokens[what] = @ + n]
  ELSE [k EXCEPT !.lines[what].balance = @ + n]

Gone(w, o, how, xlm) ==
  [w EXCEPT !.left = @ \cup {[what |-> o.what, how |-> how, by |-> o.by, to |-> o.to,
                         units |-> o.amount, xlm |-> xlm]}]

\* The world after o, which can apply.
Done(w, o) ==
  IF Foreign(o) THEN Gone(w, o, "debit", 0) ELSE
  CASE o.op = "removeSigner"  -> [w EXCEPT !.acct.extra = @ \ {o.what}]
    [] o.op = "setThresholds" -> [w EXCEPT !.acct.high = o.amount]
    [] o.op = "revoke"        -> [w EXCEPT !.acct.sponsors = @ \ {o.what}]
    [] o.op = "removeData"    -> [w EXCEPT !.acct.data = @ \ {o.what}]
    [] o.op = "cancelOffer"   -> [w EXCEPT !.acct.offers = @ \ {o.what}]
    [] o.op = "addLine"       -> [w EXCEPT !.acct.lines[o.what].held = TRUE]
    [] o.op = "claim"         -> [w EXCEPT !.acct = [Credited(w.acct, ClaimAsset[o.what], 1)
                                                       EXCEPT !.claims = @ \ {o.what}]]
    [] o.op = "convert"       -> Gone([w EXCEPT !.acct.lines[o.what].balance = @ - o.amount,
                                                !.acct.xlm = @ + w.rate[o.what] * o.amount],
                                      o, "convert", w.rate[o.what] * o.amount)
    [] o.op = "pay"           -> Gone([w EXCEPT !.acct.lines[o.what].balance = @ - o.amount,
                                                !.room[o.what] = @ - IF o.to = "chosen" THEN o.amount ELSE 0],
                                      o, "pay", 0)
    [] o.op = "removeLine"    -> [w EXCEPT !.acct.lines[o.what] = NoLine]
    [] o.op = "merge"         -> Gone([w EXCEPT !.acct.merged = TRUE], o, "merge", w.acct.xlm)
    [] o.op = "forward"       -> Gone(w, o, "forward", o.amount)
    [] o.op = "exit"          -> [w EXCEPT !.acct =
                                    IF w.acct.exits[o.what] > 1 THEN [w.acct EXCEPT !.exits[o.what] = @ - 1]
                                    ELSE [Credited(w.acct, ExitPays[o.what], 1) EXCEPT !.exits[o.what] = 0]]
    [] o.op = "sendToken"     -> Gone([w EXCEPT !.acct.tokens[o.what] = @ - o.amount], o, "pay", 0)
    [] o.op = "swapToken"     -> Gone([w EXCEPT !.acct.tokens[o.what] = @ - o.amount,
                                                !.acct.xlm = @ + w.rate[o.what] * o.amount],
                                      o, "convert", w.rate[o.what] * o.amount)

--------------------------------------------------------------------------
(* Transactions: [ops, fee, sponsored, seq, until, memo]. *)

Included(w, tx) ==
  /\ ~w.acct.merged
  /\ tx.seq = w.acct.seq
  /\ w.now <= tx.until
  /\ tx.sponsored \/ Spare(w.acct) >= tx.fee

Charged(w, tx) ==
  [w EXCEPT !.acct.seq = @ + 1, !.acct.xlm = @ - (IF tx.sponsored THEN 0 ELSE tx.fee), !.memo = tx.memo]

\* The world after the first i operations; ok is FALSE once one of them could not apply.
Applied(w, tx) ==
  LET run[i \in 0..Len(tx.ops)] ==
        IF i = 0 THEN [ok |-> TRUE, w |-> Charged(w, tx)]
        ELSE LET before == run[i - 1] IN
             IF before.ok /\ Can(before.w, tx.ops[i])
             THEN [ok |-> TRUE, w |-> Done(before.w, tx.ops[i])]
             ELSE [ok |-> FALSE, w |-> Charged(w, tx)]
  IN run[Len(tx.ops)]
============================================================================
