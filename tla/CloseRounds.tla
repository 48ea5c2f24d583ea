---------------------------- MODULE CloseRounds ----------------------------
(***************************************************************************)
(* A multi-round close, from the plan the caller answers to the merge.      *)
(* Each call of POST /close/transactions reads the account, confirms the    *)
(* reading against the ledger, then builds from it and from what it reads   *)
(* live; the client submits what came back and calls again.  Between any    *)
(* two of these steps the rest of the world may move: that is what the      *)
(* Disturb actions are.  The browser holds every transaction to what the    *)
(* user reviewed before it signs, whatever built it: BuildOther is a round  *)
(* that was built wrong.  How a single submission is settled is the subject  *)
(* of CloseEngine; here a submitted transaction applies or it does not.     *)
(***************************************************************************)
EXTENDS RoundBuilding, EnvelopeCheck

CONSTANTS
  Starts,        \* the accounts and worlds a close may start from
  Refetches      \* STATE_CHANGED_REFETCHES

AccountRecord ==
  [seq : Nat, xlm : Int, master : Nat, high : Nat, extra : SUBSET ToSet(Signers), data : SUBSET ToSet(DataKeys),
   offers : SUBSET ToSet(Offers), sponsors : SUBSET ToSet(Sponsored), tokens : [TokenSet -> Nat],
   lines : [AssetSet -> [held : BOOLEAN, balance : Nat, auth : {"authorized", "unauthorized"}]],
   exits : [ToSet(Exits) -> Nat], claims : SUBSET ToSet(Claims), merged : BOOLEAN]

WorldRecord ==
  [acct : AccountRecord, rate : [Things -> Nat], room : [AssetSet -> Nat], ownerCanPay : BOOLEAN,
   destination : BOOLEAN, now : 0..LastInstant, coming : SUBSET ToSet(Claims), left : {{}}, memo : {"none"}]

\* A close starts from an open account that has sent nothing away yet; a claimable balance that is
\* claimed or taken never comes back, so none that is there is still to come.
ASSUME StartsAssumption ==
  \A start \in Starts :
    /\ start \in [world : WorldRecord, payout : {"direct", "mediator"}, budget : Nat, sound : BOOLEAN]
    /\ ~start.world.acct.merged /\ start.world.acct.claims \cap start.world.coming = {}

VARIABLES
  world,      \* the ledger and the market
  payout,     \* "direct" or "mediator": what the destination is
  planned,    \* whether the caller is the browser, which plans, reviews and checks, or only calls the API
  sound,      \* whether the rounds are built by buildCloseTransactions as it is
  reviewed,   \* the reading the user reviewed
  answers,    \* the decisions, sent again with every round
  planSeq,    \* the sequence number the plan hash covers, or -1 when no hash is sent
  phase,      \* where the close stands
  reading,    \* the account as this round read it
  shown,      \* history: the claims that existed at the last reading
  ledgerTime, \* the close time of the ledger this round builds on
  queue,      \* the transactions of the round still to submit
  again,      \* requiresAnotherCall of the round
  refetches,  \* state_changed answers this round already retried
  landed,     \* operations names of the transactions applied so far, in order
  budget,     \* bound: how often the world may still move
  quiet,      \* whether the close has been left alone so far
  why         \* why the close stopped

vars == <<world, payout, planned, sound, reviewed, answers, planSeq, phase, reading, shown, ledgerTime, queue, again,
          refetches, landed, budget, quiet, why>>

Init ==
  /\ \E start \in Starts :
       world = start.world /\ payout = start.payout /\ budget = start.budget /\ sound = start.sound
  /\ planned \in IF sound THEN BOOLEAN ELSE {TRUE}
  /\ answers = <<>> /\ planSeq = -1
  /\ phase = "plan"
  /\ reading = <<>> /\ reviewed = <<>> /\ shown = {} /\ ledgerTime = -1
  /\ queue = <<>> /\ again = FALSE
  /\ refetches = 0 /\ landed = <<>> /\ quiet = TRUE /\ why = ""

Stop(code) ==
  /\ phase' = "stopped" /\ why' = code
  /\ queue' = <<>> /\ reading' = <<>> /\ ledgerTime' = -1

--------------------------------------------------------------------------
(* The caller and the API. *)

\* The caller answers the plan.  One that asked for a plan waits for one without blockers and
\* sends its hash along; an API or SDK caller may send the same answers without it.
Answer ==
  /\ phase = "plan"
  /\ LET s == Reading(world) IN
     \E a \in Answers(world, s) :
       IF planned /\ PlanBlockers(world, s, a, payout) # {}
       THEN Stop("not ready") /\ UNCHANGED <<answers, planSeq, reviewed>>
       ELSE /\ answers' = a /\ reviewed' = s
            /\ planSeq' = IF planned THEN s.account.seq ELSE -1
            /\ phase' = "ask"
            /\ UNCHANGED <<reading, ledgerTime, queue, why>>
  /\ UNCHANGED <<world, payout, planned, sound, shown, again, refetches, landed, budget, quiet>>

\* CloseService.transactions down to the builder's first live read.
Read ==
  /\ phase = "ask"
  /\ LET s == Reading(world)
         code == IF planSeq # -1 /\ planSeq # s.account.seq THEN "state_changed"
                 ELSE Refusal(world, s, answers, payout) IN
     IF world.acct.merged THEN Stop("account_not_found")
     ELSE IF code # "" THEN Stop(code)
     ELSE phase' = "read" /\ reading' = s /\ UNCHANGED <<ledgerTime, queue, why>>
  /\ shown' = world.acct.claims
  /\ UNCHANGED <<world, payout, planned, sound, reviewed, answers, planSeq, again, refetches, landed, budget, quiet>>

\* findStateDrift: sequence, balance, signers, thresholds, lines, offers and data are compared;
\* claims, tokens, positions and sponsored entries are not part of it.
Drifted(k, live) ==
  \/ live.merged
  \/ k.seq # live.seq \/ k.xlm # live.xlm
  \/ SubEntries(k) # SubEntries(live)
  \/ <<k.master, k.high, k.extra>> # <<live.master, live.high, live.extra>>
  \/ \E a \in Held(k) : k.lines[a] # live.lines[a]
  \/ ~(k.offers \subseteq live.offers) \/ ~(k.data \subseteq live.data)

\* confirmLedgerState; a drift is answered state_changed, which the client retries a few times
\* unless it is bound to the plan it reviewed.
Confirm ==
  /\ phase = "read"
  /\ IF ~Drifted(reading.account, world.acct)
     THEN /\ phase' = "confirmed" /\ ledgerTime' = world.now
          /\ UNCHANGED <<reading, queue, refetches, why>>
     ELSE IF planSeq = -1 /\ refetches < Refetches
     THEN /\ phase' = "ask" /\ reading' = <<>> /\ refetches' = refetches + 1
          /\ UNCHANGED <<ledgerTime, queue, why>>
     ELSE Stop("state_changed") /\ UNCHANGED refetches
  /\ UNCHANGED <<world, payout, planned, sound, reviewed, answers, planSeq, shown, again, landed, budget, quiet>>

\* The rest of buildCloseTransactions.
Build ==
  /\ phase = "confirmed" /\ sound
  /\ LET r == BuildRound(reading, world, ledgerTime, answers, payout) IN
     IF r.code # "" THEN Stop(r.code) /\ UNCHANGED <<again, refetches>>
     ELSE /\ phase' = "sending" /\ queue' = r.txs /\ again' = r.again
          /\ reading' = <<>> /\ ledgerTime' = -1 /\ refetches' = 0
          /\ UNCHANGED why
  /\ UNCHANGED <<world, payout, planned, sound, reviewed, answers, planSeq, shown, landed, budget, quiet>>

\* A round that was built wrong: some transaction the browser accepts, or one it refuses, which
\* ends the close with nothing signed.
SomePays(k) ==
  {[Moving("pay", a, n, to) EXCEPT !.by = by] :
     a \in {h \in Held(k) : k.lines[h].balance > 0}, n \in {1, 2},
     to \in {"chosen", "issuer", "stranger"}, by \in {"account", "stranger"}}
SomeSells(k) ==
  {[Swapping("convert", a, 1, least) EXCEPT !.to = to] : a \in Held(k), least \in 0..2, to \in {"account", "stranger"}}
SomeTokenMoves(k) ==
  {Moving("sendToken", t, n, to) : t \in HeldTokens(k), n \in {1, 2}, to \in {"chosen", "stranger"}}
    \cup {[Swapping("swapToken", t, 1, least) EXCEPT !.to = to] :
            t \in HeldTokens(k), least \in 0..2, to \in {"account", "stranger"}}
SomeOps(w) ==
  LET k == w.acct IN
  SomePays(k) \cup SomeSells(k) \cup SomeTokenMoves(k)
    \cup {Moving("merge", "xlm", 0, to) : to \in {"destination", "mediator", "stranger"}}
    \cup {Op("addLine", a) : a \in AssetSet} \cup {Op("removeLine", a) : a \in Held(k)}
    \cup {Moving("setThresholds", "master", 2, "")}

SomeForwards(w) ==
  {[Moving("forward", "xlm", n, to) EXCEPT !.by = by] :
     n \in {1, w.acct.xlm - MediatorFee}, to \in {"destination", "stranger"}, by \in {"mediator", "stranger"}}

SomeTransactions(w) ==
  {[ops |-> ops, fee |-> Len(ops), sponsored |-> FALSE, seq |-> w.acct.seq, until |-> w.now + Timeout,
    memo |-> memo] :
     ops \in {<<o>> : o \in SomeOps(w)}
               \cup {<<o, q>> : o \in SomeOps(w), q \in SomeOps(w) \cup SomeForwards(w)},
     memo \in {"none", "memo", "other"}}

BuildOther ==
  /\ phase = "confirmed" /\ ~sound
  /\ \/ /\ budget > 0
        /\ \E tx \in SomeTransactions(world) :
             /\ Verdict(reviewed, answers, payout, tx, world.now) = ""
             /\ queue' = <<tx>> /\ again' = (Named(tx, "merge") = {})
        /\ phase' = "sending" /\ reading' = <<>> /\ ledgerTime' = -1 /\ refetches' = 0
        /\ budget' = budget - 1 /\ quiet' = FALSE /\ UNCHANGED why
     \/ Stop("refused") /\ UNCHANGED <<again, refetches, budget, quiet>>
  /\ UNCHANGED <<world, payout, planned, sound, reviewed, answers, planSeq, shown, landed>>

\* forwardExceedsMergedBalance, against the balance the mediator's co-signer reads.
ForwardTooLarge(w, tx) ==
  \E i \in DOMAIN tx.ops : tx.ops[i].op = "forward" /\ tx.ops[i].amount > w.acct.xlm - tx.fee

\* The next transaction of the round is checked and signed, co-signed if need be, submitted and settled.
Submit ==
  /\ phase = "sending" /\ queue # <<>>
  /\ LET tx == Head(queue)
         after == Applied(world, tx)
         verdict == IF planned THEN Verdict(reviewed, answers, payout, tx, world.now) ELSE "" IN
     IF verdict # ""
     THEN Stop(verdict) /\ UNCHANGED <<world, planSeq, landed>>
     ELSE IF ForwardTooLarge(world, tx)
     THEN Stop("forward_amount_exceeds_balance") /\ UNCHANGED <<world, planSeq, landed>>
     ELSE IF ~Included(world, tx)
     THEN Stop("transaction not included") /\ UNCHANGED <<world, planSeq, landed>>
     ELSE IF ~after.ok
     THEN Stop("transaction failed") /\ world' = after.w /\ UNCHANGED <<planSeq, landed>>
     ELSE /\ world' = after.w
          /\ landed' = Append(landed, tx.ops[1].op)
          /\ planSeq' = -1
          /\ queue' = Tail(queue)
          /\ phase' = IF Tail(queue) # <<>> THEN "sending" ELSE IF again THEN "ask" ELSE "closed"
          /\ UNCHANGED <<reading, ledgerTime, why>>
  /\ UNCHANGED <<payout, planned, sound, reviewed, answers, shown, again, refetches, budget, quiet>>

--------------------------------------------------------------------------
(* The rest of the world. *)

Running == phase \in {"ask", "read", "confirmed", "sending"} /\ ~world.acct.merged

Disturb(w) ==
  /\ Running /\ budget > 0
  /\ world' = w
  /\ budget' = budget - 1 /\ quiet' = FALSE
  /\ UNCHANGED <<payout, planned, sound, reviewed, answers, planSeq, phase, reading, shown, ledgerTime, queue, again,
                 refetches, landed, why>>

\* Somebody pays the account, in XLM or into one of its lines.
Deposit ==
  \E what \in {"native"} \cup {a \in AssetSet : Usable(world.acct, a)} :
    Disturb([world EXCEPT !.acct = Credited(@, what, 1)])

\* The owner adds a data entry from another device.
AddData ==
  \E d \in ToSet(DataKeys) \ world.acct.data :
    Disturb([world EXCEPT !.acct.data = @ \cup {d}, !.acct.seq = @ + 1])

MarketMoves ==
  \E x \in Things : \E rate \in 0..(world.rate[x] - 1) : Disturb([world EXCEPT !.rate[x] = rate])

\* The account chosen for a transfer receives something else and has less room.
DestinationFills ==
  \E a \in AssetSet : world.room[a] > 0 /\ Disturb([world EXCEPT !.room[a] = @ - 1])

DestinationGone == payout = "direct" /\ world.destination /\ Disturb([world EXCEPT !.destination = FALSE])

\* Another claimant takes a balance, or somebody creates one for this account.
ClaimTaken == \E c \in world.acct.claims : Disturb([world EXCEPT !.acct.claims = @ \ {c}])
ClaimArrives ==
  \E c \in ToSet(Claims) \ world.acct.claims :
    c \in world.coming /\ Disturb([world EXCEPT !.acct.claims = @ \cup {c}, !.coming = @ \ {c}])

OwnerSpends == world.acct.sponsors # {} /\ world.ownerCanPay /\ Disturb([world EXCEPT !.ownerCanPay = FALSE])

\* A transaction is valid for Timeout; a build that takes longer than the slack between the
\* timeout and the claim margin is cut off by its deadline.
Tick ==
  /\ phase = "confirmed" => world.now < ledgerTime + (ClaimMargin - Timeout)
  /\ world.now < LastInstant
  /\ Disturb([world EXCEPT !.now = @ + 1])

Over == phase \in {"closed", "stopped"} /\ UNCHANGED vars

Next ==
  \/ Answer \/ Read \/ Confirm \/ Build \/ BuildOther \/ Submit \/ Over
  \/ Deposit \/ AddData \/ MarketMoves \/ DestinationFills \/ DestinationGone
  \/ ClaimTaken \/ ClaimArrives \/ OwnerSpends \/ Tick

Spec == Init /\ [][Next]_vars
============================================================================
