-------------------------- MODULE AccountSnapshot --------------------------
(***************************************************************************)
(* One reading of an account that others use: the body, the offers and the *)
(* claimable balances come from separate requests to a Horizon-compatible  *)
(* provider while ledgers close, page by page and from nodes that trail    *)
(* each other.  readAccountStateFrom judges the ledgers its answers name,  *)
(* reads a second time, or moves to the next provider.  Before a close is  *)
(* built, confirmLedgerState reads every entry again over RPC.             *)
(*                                                                         *)
(* An entry stands for its key and its value: one that changes is one that *)
(* went and another that came.                                             *)
(***************************************************************************)
EXTENDS Integers, FiniteSets, Sequences

CONSTANTS
    Lines,         \* entries the body lists: trustlines, data, signers,
    Unlisted,      \* those of them the reader has no name for: an unknown kind of signer
    Offers,        \* offers, in the order of their ids
    Balances,      \* claimable balances, in the order they are listed
    LedgerSpan,    \* MAX_SNAPSHOT_LEDGER_SPAN
    PageLimit,     \* records of one page
    OfferCeiling,  \* MAX_TOTAL
    ClaimCeiling,  \* CLAIMABLE_BALANCE_READ_CEILING
    KeysPerCall,      \* RPC_LEDGER_KEY_LIMIT
    MaxSources,    \* configured Horizon providers: up to this many
    LastLedger,    \* bound: ledgers
    MaxChanges     \* bound: ledgers that change the account

ASSUME SnapshotAssumption ==
    /\ Lines \cup Offers \cup Balances \subseteq Nat \ {0}
    /\ IsFiniteSet(Lines) /\ IsFiniteSet(Offers) /\ IsFiniteSet(Balances)
    /\ Lines \cap Offers = {} /\ Unlisted \subseteq Lines
    /\ {LedgerSpan, OfferCeiling, ClaimCeiling, LastLedger, MaxChanges} \subseteq Nat
    /\ {PageLimit, KeysPerCall, MaxSources} \subseteq Nat \ {0}

VARIABLES
    history,  \* the account as of each ledger that closed
    changes,  \* of the account so far
    sources,  \* providers that are configured, of Horizon and of RPC alike,
    naming,   \* those of them whose responses name the ledger they reflect
    reading   \* the reading under way

snapshotVars == <<history, changes, sources, naming, reading>>

Tip == Len(history)
Ledgers == 1 .. Tip
Oldest(s) == CHOOSE n \in s : \A m \in s : n <= m
Newest(s) == CHOOSE n \in s : \A m \in s : m <= n

SubEntries(account) == account.lines \cup account.offers
EntryCount(account) == Cardinality(SubEntries(account))

\* What is known of one provider's snapshot before its first answer.
Blank ==
    [pc |-> "idle", source |-> 1, again |-> FALSE, reference |-> 0,
     ledgers |-> {}, missing |-> FALSE,
     sequence |-> 0, count |-> 0, lines |-> {},
     offers |-> {}, offersLeft |-> TRUE, claims |-> {}, claimsLeft |-> TRUE, more |-> FALSE,
     cut |-> FALSE,
     keysLeft |-> {}, liveLedgers |-> {}, liveSequence |-> 0, liveCount |-> 0, live |-> {},
     result |-> "none"]

SnapshotInit ==
    /\ \E lines \in SUBSET Lines, offers \in SUBSET Offers, claims \in SUBSET Balances :
          history = <<[sequence |-> 1, lines |-> lines, offers |-> offers, claims |-> claims]>>
    /\ changes = 0
    /\ sources \in 1 .. MaxSources
    /\ naming \in {1 .. sources, 2 .. sources}
    /\ reading = Blank

(***************************************************************************)
(* The ledger.                                                             *)
(***************************************************************************)

\* One change of the account: ids are given out once, in order.
Toggled(set, e) == IF e \in set THEN set \ {e} ELSE set \cup {e}
Fresh(ids, ever) == {i \in ids : \A e \in ever : i > e}

Changed(account) ==
    LET offered == UNION {history[n].offers : n \in Ledgers}
        claimable == UNION {history[n].claims : n \in Ledgers}
    IN  {[account EXCEPT !.sequence = @ + 1]}
        \cup {[account EXCEPT !.lines = Toggled(@, e)] : e \in Lines}
        \cup {[account EXCEPT !.offers = Toggled(@, e)] : e \in account.offers \cup Fresh(Offers, offered)}
        \cup {[account EXCEPT !.claims = Toggled(@, e)] : e \in account.claims \cup Fresh(Balances, claimable)}

LedgerCloses ==
    /\ Tip < LastLedger /\ reading.pc # "end"
    /\ \/ /\ history' = Append(history, history[Tip])
          /\ UNCHANGED changes
       \/ /\ changes < MaxChanges
          /\ \E next \in Changed(history[Tip]) : history' = Append(history, next)
          /\ changes' = changes + 1
    /\ UNCHANGED <<sources, naming, reading>>

(***************************************************************************)
(* Reading.                                                                *)
(***************************************************************************)

\* With fallbacks, a snapshot is judged against the ledger the RPC provider shows.
AskAccount ==
    /\ reading.pc = "idle"
    /\ \E n \in IF sources > 1 THEN Ledgers ELSE {0} :
          reading' = [Blank EXCEPT !.pc = "body", !.reference = n]
    /\ UNCHANGED <<history, changes, sources, naming>>

\* What a response says of the ledger it reflects: its header may be missing.
Noted(r, n) ==
    IF r.source \in naming THEN [r EXCEPT !.ledgers = @ \cup {n}] ELSE [r EXCEPT !.missing = TRUE]

ReadBody ==
    /\ reading.pc = "body"
    /\ \E n \in Ledgers :
          reading' = Noted([reading EXCEPT
              !.pc = "pages", !.sequence = history[n].sequence, !.count = EntryCount(history[n]),
              !.lines = history[n].lines \ Unlisted], n)
    /\ UNCHANGED <<history, changes, sources, naming>>

\* The page after what was read: the next ids, or fewer when the provider stops short.
Following(all, got, k) ==
    LET next == {i \in all : \A g \in got : i > g}
    IN  {i \in next : Cardinality({j \in next : j <= i}) <= k}

ReadOffers ==
    /\ reading.pc = "pages" /\ reading.offersLeft
    /\ \E n \in Ledgers, k \in 0 .. PageLimit :
          LET page == Following(history[n].offers, reading.offers, k)
              r == Noted([reading EXCEPT !.offers = @ \cup page,
                                         !.offersLeft = (Cardinality(page) = PageLimit)], n)
          IN  reading' = IF Cardinality(r.offers) > OfferCeiling
                         THEN [r EXCEPT !.pc = "end", !.result = "too_large"]
                         ELSE r
    /\ UNCHANGED <<history, changes, sources, naming>>

ReadClaims ==
    /\ reading.pc = "pages" /\ reading.claimsLeft
    /\ \E n \in Ledgers, k \in 0 .. PageLimit :
          LET page == Following(history[n].claims, reading.claims, k)
              all == reading.claims \cup page
              over == Cardinality(all) > ClaimCeiling
          IN  reading' = Noted([reading EXCEPT
                 !.claims = IF over THEN Following(all, {}, ClaimCeiling) ELSE all,
                 !.more = over,
                 !.claimsLeft = (~over /\ Cardinality(page) = PageLimit),
                 !.cut = @ \/ page # Following(history[n].claims, reading.claims, PageLimit)],
                 n)
    /\ UNCHANGED <<history, changes, sources, naming>>

\* The whole snapshot starts again on the next provider, or the read ends.
NextSource ==
    IF reading.source < sources
    THEN [Blank EXCEPT !.pc = "body", !.source = reading.source + 1,
                       !.reference = reading.reference]
    ELSE [reading EXCEPT !.pc = "end", !.result = "unavailable"]

ReadFails ==
    /\ reading.pc \in {"body", "pages"}
    /\ reading' = NextSource
    /\ UNCHANGED <<history, changes, sources, naming>>

\* assertKeepsUp: judged on the oldest answer.
Behind(r) ==
    \/ r.missing
    \/ r.ledgers = {}
    \/ r.reference - Oldest(r.ledgers) > LedgerSpan

KeepsUp(r) == r.reference = 0 \/ ~Behind(r)

WithinSpan(r) == r.ledgers = {} \/ Newest(r.ledgers) - Oldest(r.ledgers) <= LedgerSpan

Judge ==
    /\ reading.pc = "pages" /\ ~reading.offersLeft /\ ~reading.claimsLeft
    /\ reading' =
          IF ~KeepsUp(reading) THEN NextSource
          ELSE IF WithinSpan(reading) THEN [reading EXCEPT !.pc = "read"]
          ELSE IF reading.again THEN [reading EXCEPT !.pc = "end", !.result = "unsettled"]
          ELSE [Blank EXCEPT !.pc = "body", !.again = TRUE, !.source = reading.source,
                             !.reference = reading.reference]
    /\ UNCHANGED <<history, changes, sources, naming>>

\* subEntryMismatch: fewer entries were read than the body counts, which blocks the plan.
Enumerated(r) == r.lines \cup r.offers
Mismatch(r) == Cardinality(Enumerated(r)) < r.count

(***************************************************************************)
(* Confirming over RPC, as many keys a call as one may name.               *)
(***************************************************************************)

TheAccount == 0

Confirm ==
    /\ reading.pc = "read" /\ ~Mismatch(reading)
    /\ reading' = [reading EXCEPT !.pc = "confirm", !.keysLeft = {TheAccount} \cup Enumerated(reading)]
    /\ UNCHANGED <<history, changes, sources, naming>>

\* readLiveLedger: the account's key is in the first call.
ReadKeys ==
    /\ reading.pc = "confirm" /\ reading.keysLeft # {}
    /\ \E n \in Ledgers, keys \in SUBSET reading.keysLeft :
          /\ keys # {} /\ (TheAccount \in reading.keysLeft => TheAccount \in keys)
          /\ Cardinality(keys) = KeysPerCall \/ (Cardinality(keys) < KeysPerCall /\ keys = reading.keysLeft)
          /\ reading' = [reading EXCEPT
                !.keysLeft = @ \ keys,
                !.liveLedgers = @ \cup {n},
                !.live = @ \cup (keys \cap SubEntries(history[n])),
                !.liveSequence = IF TheAccount \in keys THEN history[n].sequence ELSE @,
                !.liveCount = IF TheAccount \in keys THEN EntryCount(history[n]) ELSE @]
    /\ UNCHANGED <<history, changes, sources, naming>>

KeysUnread ==
    /\ reading.pc = "confirm"
    /\ reading' = [reading EXCEPT !.pc = "end", !.result = "unread"]
    /\ UNCHANGED <<history, changes, sources, naming>>

\* findStateDrift: one added since is seen in the count, one that is gone in its own entry.
DriftOfEntries(r) == r.liveSequence # r.sequence \/ r.live # Enumerated(r)
Drift(r) ==
    \/ r.liveSequence # r.sequence
    \/ r.liveCount # r.count
    \/ r.live # Enumerated(r)

\* A disagreement with an RPC that has not reached the snapshot says nothing of the account.
RpcIsNeverLate(r) == FALSE
RpcIsLate(r) == sources > 1 /\ r.ledgers # {} /\ Oldest(r.liveLedgers) < Newest(r.ledgers)

Compare ==
    /\ reading.pc = "confirm" /\ reading.keysLeft = {}
    /\ reading' = [reading EXCEPT
          !.pc = "end",
          !.result = IF ~Drift(reading) THEN "confirmed"
                     ELSE IF RpcIsLate(reading) THEN "unread" ELSE "changed"]
    /\ UNCHANGED <<history, changes, sources, naming>>

SnapshotNext ==
    \/ LedgerCloses \/ AskAccount \/ ReadBody \/ ReadOffers \/ ReadClaims \/ ReadFails \/ Judge
    \/ Confirm \/ ReadKeys \/ KeysUnread \/ Compare

SnapshotSpec == SnapshotInit /\ [][SnapshotNext]_snapshotVars
=============================================================================
