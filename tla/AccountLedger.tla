--------------------------- MODULE AccountLedger ---------------------------
(***************************************************************************)
(* The Stellar account being closed, as the close loop meets it: its       *)
(* sequence number, the cleanup still standing between it and its merge,   *)
(* the transactions whose final envelope a browser has hashed, the ledger  *)
(* clock, and what a lookup by hash may answer.                            *)
(*                                                                         *)
(* Other wallets and devices act on the same account: Disturb changes it   *)
(* under the close.  What was handed over may be dropped, delayed or       *)
(* applied; only its time bound and its sequence number end that for good. *)
(***************************************************************************)
EXTENDS Integers, Sequences

CONSTANTS
    MaxTx,        \* bound: envelopes hashed in a behaviour
    MaxTime,      \* bound: the ledger clock
    MaxDisturb,   \* bound: changes made by others
    MaxWork,      \* bound: cleanup transactions the account may need
    Lifetime,     \* TX_TIMEOUT_SECONDS, in ticks
    Margin,       \* SUBMISSION_GIVE_UP_MARGIN_SECONDS, in ticks
    Retention     \* how far back a node still knows a transaction, in ticks

ASSUME LedgerAssumption ==
    /\ MaxTx \in Nat /\ MaxTime \in Nat /\ MaxDisturb \in Nat /\ MaxWork \in Nat
    /\ Lifetime \in Nat /\ Margin \in Nat /\ Retention \in Nat

VARIABLES
    open,         \* the account exists
    seqNum,       \* its sequence number
    work,         \* cleanup transactions still needed before a merge applies
    ltime,        \* close time of the latest ledger
    disturbed,    \* how many changes others made
    tx            \* every envelope hashed by a browser, in the order they were hashed

ledgerVars == <<open, seqNum, work, ltime, disturbed, tx>>

(***************************************************************************)
(* An unsigned transaction of a round: the sequence number it consumes,    *)
(* whether it carries the merge and when it stops being valid.             *)
(***************************************************************************)
Item == [seq : Nat, merge : BOOLEAN, until : Nat]

Fate == {"kept",      \* hashed; never sent, or refused: nobody can apply it
         "sent",      \* handed over; it may reach a ledger
         "success", "failed"}

Ids == 1 .. Len(tx)

TxType == [seq : Nat, merge : BOOLEAN, until : Nat, fate : Fate, at : Nat]

LedgerTypeOK ==
    /\ open \in BOOLEAN
    /\ seqNum \in Nat
    /\ work \in Nat
    /\ ltime \in Nat
    /\ disturbed \in Nat
    /\ tx \in Seq(TxType)

LedgerInit ==
    /\ open = TRUE
    /\ seqNum = 0
    /\ work \in 0 .. MaxWork
    /\ ltime = 0
    /\ disturbed = 0
    /\ tx = <<>>

Applied(i) == tx[i].fate \in {"success", "failed"}

\* No ledger can apply it any more, unless one already did.
Spent(i) == ~open \/ tx[i].seq <= seqNum \/ tx[i].until < ltime

\* It was handed over, and a coming ledger may still apply it.
CanLand(i) == tx[i].fate = "sent" /\ ~Spent(i)

Closed(i) == tx[i].merge /\ tx[i].fate = "success"

-----------------------------------------------------------------------------
(***************************************************************************)
(* The rounds the API may answer with from the live account.  A direct     *)
(* close returns its first transaction and asks for another call; a close  *)
(* through the mediator returns the whole cleanup, chained on consecutive  *)
(* sequence numbers, and then the merge alone.  The client does not trust   *)
(* it to say when the close is over: it may ask for another call after the  *)
(* merge, or for none though nothing was merged, and it may set no end.     *)
(***************************************************************************)
BuildItem(k, merge, until) == [seq |-> seqNum + k, merge |-> merge, until |-> until]

Cleanup(n, until) == [k \in 1 .. n |-> BuildItem(k, FALSE, until)]

\* No upper time bound: the clock never passes it.
NoEnd == MaxTime + 1

RoundsUntil(until) ==
    IF work = 0
      THEN {[txs |-> <<BuildItem(1, TRUE, until)>>, another |-> a, steps |-> 0] : a \in BOOLEAN}
      ELSE {[txs |-> Cleanup(1, until), another |-> TRUE, steps |-> work],
            [txs |-> Cleanup(work, until), another |-> TRUE, steps |-> 1],
            [txs |-> Cleanup(1, until), another |-> FALSE, steps |-> 0]}

Rounds == RoundsUntil(ltime + Lifetime) \cup RoundsUntil(NoEnd)

-----------------------------------------------------------------------------
\* A ledger applies a handed-in transaction: a merge fails while anything is
\* left on the account, a cleanup fails when what it removes is gone.
Land(i) ==
    /\ CanLand(i)
    /\ tx[i].seq = seqNum + 1
    /\ LET good == IF tx[i].merge THEN work = 0 ELSE work > 0
       IN /\ tx' = [tx EXCEPT ![i].fate = IF good THEN "success" ELSE "failed",
                              ![i].at = ltime]
          /\ open' = ~(good /\ tx[i].merge)
          /\ work' = IF good /\ ~tx[i].merge THEN work - 1 ELSE work
    /\ seqNum' = seqNum + 1
    /\ UNCHANGED <<ltime, disturbed>>

\* Another wallet or device changes the account: it adds or removes what must
\* be cleaned up, spends a sequence number or not, or merges the account away.
Disturb ==
    /\ open
    /\ disturbed < MaxDisturb
    /\ disturbed' = disturbed + 1
    /\ \/ /\ work' \in 0 .. MaxWork
          /\ seqNum' \in {seqNum, seqNum + 1}
          /\ open' = open
       \/ /\ work = 0
          /\ open' = FALSE
          /\ seqNum' = seqNum + 1
          /\ work' = work
    /\ UNCHANGED <<ltime, tx>>

Tick ==
    /\ ltime < MaxTime
    /\ ltime' = ltime + 1
    /\ UNCHANGED <<open, seqNum, work, disturbed, tx>>

-----------------------------------------------------------------------------
(***************************************************************************)
(* A lookup by hash.  The node that answers has closed ledgers up to       *)
(* `latest`, which may trail the network, and forgets what is older than   *)
(* Retention; `not_found` means only that its window holds no such         *)
(* transaction.                                                            *)
(***************************************************************************)
Seen(i, latest) ==
    /\ Applied(i)
    /\ tx[i].at <= latest
    /\ tx[i].at >= latest - Retention

MinOf(a, b) == IF a < b THEN a ELSE b

\* Mutants of Resolution: given up by the browser's clock alone, and never.
ResolutionByOneClock(i) ==
    {"unknown", "expired"} \cup
    {o \in {"confirmed"} : tx[i].fate = "success"} \cup {o \in {"failed"} : tx[i].fate = "failed"}
ResolutionWithoutExpiry(i) ==
    {"unknown"} \cup
    {o \in {"confirmed"} : tx[i].fate = "success"} \cup {o \in {"failed"} : tx[i].fate = "failed"}

\* resolveSubmission: a lookup that failed settles nothing, and a not_found
\* only once both the node's clock and the browser's are past the deadline.
Resolution(i) ==
    {"unknown"}
    \cup {o \in {"confirmed"} : \E latest \in 0 .. ltime :
                Seen(i, latest) /\ tx[i].fate = "success"}
    \cup {o \in {"failed"} : \E latest \in 0 .. ltime :
                Seen(i, latest) /\ tx[i].fate = "failed"}
    \cup {o \in {"expired"} : \E latest \in 0 .. ltime, now \in 0 .. MaxTime :
                /\ ~Seen(i, latest)
                /\ MinOf(now, latest) > tx[i].until + Margin}
=============================================================================
