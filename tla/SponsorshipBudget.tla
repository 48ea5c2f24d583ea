------------------------- MODULE SponsorshipBudget -------------------------
(***************************************************************************)
(* The daily budget of the fee sponsor, for one network.                   *)
(*                                                                         *)
(* POST /fee-bump/sponsor notes the time, awaits the account's sequence    *)
(* number, and then signs and charges the fee in one step.  Requests that  *)
(* wait overtake each other, the clock passes midnight or steps back, and  *)
(* the process may restart, which forgets what was spent.  An envelope     *)
(* that was signed lands later, or never.                                  *)
(***************************************************************************)
EXTENDS Integers, FiniteSetsExt, Functions

CONSTANTS
    Sources,        \* accounts that ask to be sponsored
    Integrators,    \* labels of the API keys that ask
    Inners,         \* inner transactions, by hash
    InnerSource,    \* the account of each,
    InnerSequence,  \* its sequence number,
    InnerFee,       \* and the fee of its fee bump
    PerSource, PerKey, PerDay,   \* the limits of DEFAULT_SPONSORSHIP_LIMITS
    Sponsorings,    \* requests under way at the same time
    LastDay,        \* bound: days
    Restarts        \* bound: restarts of the process

ASSUME BudgetAssumption ==
    /\ InnerSource \in [Inners -> Sources]
    /\ InnerSequence \in [Inners -> Nat]
    /\ InnerFee \in [Inners -> Nat]
    /\ PerSource \in Nat /\ PerKey \in Nat /\ PerDay \in Nat /\ LastDay \in Nat
    /\ Restarts \in Nat
    /\ Sources \cap Integrators = {} /\ "day" \notin Sources \cup Integrators

Scopes == Sources \cup Integrators \cup {"day"}
LimitOfScope(s) ==
    IF s = "day" THEN PerDay ELSE IF s \in Sources THEN PerSource ELSE PerKey

VARIABLES
    today,       \* the UTC day the machine's clock shows
    budgetDay,   \* day: the budget's own day, -1 before the first request
    spent,       \* bySource, byKey and total of that day
    charged,     \* innerHashes of that day
    asking,      \* each request
    sequence,    \* the ledger: the sequence number each account has used
    envelopes,   \* inner transactions that were given a signed fee bump
    shown,       \* observed: the days the clock has shown since the last restart,
    daysShown,   \* how many of those there were, over all restarts,
    granted,     \* every fee that was charged,
    paid         \* and every fee the sponsor's account has paid

budgetVars ==
    <<today, budgetDay, spent, charged, asking, sequence, envelopes, shown, daysShown, granted, paid>>

NothingSpent == [s \in Scopes |-> 0]
NotAsking == [pc |-> "idle"]

BudgetInit ==
    /\ today = 0
    /\ budgetDay = -1
    /\ spent = NothingSpent
    /\ charged = {}
    /\ asking = [r \in Sponsorings |-> NotAsking]
    /\ sequence = [a \in Sources |-> 0]
    /\ envelopes = {}
    /\ shown = {0}
    /\ daysShown = 1
    /\ granted = NothingSpent
    /\ paid = 0

Observed == <<shown, daysShown>>

\* The request notes the clock and asks for the account's sequence number.
AskSponsor(r) ==
    /\ asking[r].pc = "idle"
    /\ \E i \in Inners, k \in Integrators :
          asking' = [asking EXCEPT ![r] = [pc |-> "reading", inner |-> i, key |-> k, day |-> today]]
    /\ UNCHANGED <<today, budgetDay, spent, charged, sequence, envelopes, granted, paid>>
    /\ UNCHANGED Observed

\* Only the next transaction of the account is worth a signature.
IsNext(i) == InnerSequence[i] = sequence[InnerSource[i]] + 1

RefuseSponsoring(r) ==
    /\ asking[r].pc = "reading"
    /\ asking' = [asking EXCEPT ![r] = NotAsking]
    /\ UNCHANGED <<today, budgetDay, spent, charged, sequence, envelopes, granted, paid>>
    /\ UNCHANGED Observed

\* reserve's new day: the noted time may be older than the budget's day, and then the
\* fee counts in the day the budget is in.
NewDayAnyOther(d) == d # budgetDay
NewDay(d) == d > budgetDay

ScopesOf(r) == {InnerSource[asking[r].inner], asking[r].key, "day"}
Plus(f, r) == [s \in Scopes |-> f[s] + IF s \in ScopesOf(r) THEN InnerFee[asking[r].inner] ELSE 0]

\* The same inner transaction again is not charged again: only one of its envelopes
\* can land.
AlreadyCharged(hashes, i) == i \in hashes

Fits(f) == \A s \in Scopes : f[s] <= LimitOfScope(s)

\* The sequence number is read: the fee bump is built and signed, its fee reserved,
\* and the envelope returned unless a limit is reached.
Sponsor(r) ==
    /\ asking[r].pc = "reading"
    /\ IsNext(asking[r].inner)
    /\ LET i == asking[r].inner
           fresh == NewDay(asking[r].day)
           spentToday == IF fresh THEN NothingSpent ELSE spent
           hashes == IF fresh THEN {} ELSE charged
           again == AlreadyCharged(hashes, i)
           after == Plus(spentToday, r)
           signs == again \/ Fits(after)
       IN  /\ budgetDay' = IF fresh THEN asking[r].day ELSE budgetDay
           /\ spent' = IF signs /\ ~again THEN after ELSE spentToday
           /\ charged' = IF signs THEN hashes \cup {i} ELSE hashes
           /\ granted' = IF signs /\ ~again THEN Plus(granted, r) ELSE granted
           /\ envelopes' = IF signs THEN envelopes \cup {i} ELSE envelopes
    /\ asking' = [asking EXCEPT ![r] = NotAsking]
    /\ UNCHANGED <<today, sequence, paid>> /\ UNCHANGED Observed

\* A signed envelope lands when its inner transaction is the account's next one.
LandSponsored ==
    /\ \E i \in envelopes :
          /\ IsNext(i)
          /\ sequence' = [sequence EXCEPT ![InnerSource[i]] = InnerSequence[i]]
          /\ paid' = paid + InnerFee[i]
    /\ UNCHANGED <<today, budgetDay, spent, charged, asking, envelopes, granted>>
    /\ UNCHANGED Observed

\* The machine's clock moves: forward over midnight, or back over it.
ClockMoves ==
    /\ \E d \in {today - 1, today + 1} \cap 0 .. LastDay :
          /\ today' = d
          /\ shown' = shown \cup {d}
          /\ daysShown' = IF d \in shown THEN daysShown ELSE daysShown + 1
    /\ UNCHANGED <<budgetDay, spent, charged, asking, sequence, envelopes, granted, paid>>

\* The process restarts: the budget is in memory, and the requests are gone.
RestartSponsor ==
    /\ daysShown < LastDay + 1 + Restarts
    /\ budgetDay' = -1
    /\ spent' = NothingSpent
    /\ charged' = {}
    /\ asking' = [r \in Sponsorings |-> NotAsking]
    /\ shown' = {today}
    /\ daysShown' = daysShown + 1
    /\ UNCHANGED <<today, sequence, envelopes, granted, paid>>

BudgetNext ==
    \/ \E r \in Sponsorings : AskSponsor(r) \/ RefuseSponsoring(r) \/ Sponsor(r)
    \/ LandSponsored
    \/ ClockMoves
    \/ RestartSponsor

BudgetSpec == BudgetInit /\ [][BudgetNext]_budgetVars
=============================================================================
