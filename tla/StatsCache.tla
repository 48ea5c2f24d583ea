----------------------------- MODULE StatsCache -----------------------------
(***************************************************************************)
(* The public count of closes: StatsService of each instance over the      *)
(* store they share.                                                       *)
(*                                                                         *)
(* A reader of the totals joins the read that is cached, or starts one     *)
(* and caches the promise before it is kept.  A close is counted in one    *)
(* transaction of the store, after which the instance that counted it      *)
(* drops its entry.  A read that fails drops its entry too.                *)
(***************************************************************************)
EXTENDS Integers, FiniteSets

CONSTANTS
    Closes,       \* hashes of confirmed merges
    BuiltHere,    \* those of them this API built
    Processes,    \* instances of the service
    Readers,      \* readers of the totals under way at the same time
    Reports,      \* reports of a close under way at the same time
    Loads,        \* reads of the store under way at the same time
    TotalsWindow, \* TOTALS_TTL_MS
    LastMoment,   \* bound: the clock
    NoLoad

ASSUME StatsAssumption ==
    /\ BuiltHere \subseteq Closes /\ TotalsWindow \in Nat /\ LastMoment \in Nat
    /\ NoLoad \notin Loads

VARIABLES
    moment,
    counted,   \* the store: the merges it has a document for,
    total,     \* and its counter
    entry,     \* entry[p]: the load p has cached, and until when
    load,      \* each read of the store
    reader,    \* each reader
    report,    \* each report
    countedAt, \* observed: when each merge was counted,
    announced  \* and the merges whose report p has answered "counted"

statsVars ==
    <<moment, counted, total, entry, load, reader, report, countedAt, announced>>

NoEntry == [of |-> NoLoad, until |-> 0]
NoRead == [pc |-> "asked", in |-> {}]
Idle == [pc |-> "idle"]

StatsInit ==
    /\ moment = 0
    /\ counted = {} /\ total = 0
    /\ entry = [p \in Processes |-> NoEntry]
    /\ load = [l \in Loads |-> NoRead]
    /\ reader = [r \in Readers |-> Idle]
    /\ report = [r \in Reports |-> Idle]
    /\ countedAt = [h \in Closes |-> 0]
    /\ announced = [p \in Processes |-> {}]

Free(l) ==
    /\ \A p \in Processes : entry[p].of # l
    /\ \A r \in Readers : reader[r].pc = "waiting" => reader[r].of # l

\* cached: the entry is good while it lasts, whatever became of its read.
Hit(p) == entry[p].of # NoLoad /\ entry[p].until > moment

\* A reader of a promise that is settled already has its answer at once.
Outcome(read) ==
    CASE read.pc = "kept" -> "done" [] read.pc = "broken" -> "failed" [] OTHER -> "waiting"

Given(pc, r, l) ==
    [pc |-> pc, of |-> IF pc = "waiting" THEN l ELSE NoLoad, at |-> r.at, known |-> r.known,
     in |-> load[l].in]

Joins(r, p, l) ==
    reader' = [reader EXCEPT ![r] = Given(Outcome(load'[l]), [at |-> moment, known |-> announced[p]], l)]

AskTotals(r, p) ==
    /\ reader[r].pc # "waiting"
    /\ IF Hit(p)
       THEN /\ UNCHANGED <<entry, load>>
            /\ Joins(r, p, entry[p].of)
       ELSE \E l \in Loads :
              /\ Free(l)
              /\ load' = [load EXCEPT ![l] = NoRead]
              /\ entry' = [entry EXCEPT ![p] = [of |-> l, until |-> moment + TotalsWindow]]
              /\ Joins(r, p, l)
    /\ UNCHANGED <<moment, counted, total, report, countedAt, announced>>

\* The store answers a read with what it holds at that moment.
StoreReads(l) ==
    /\ load[l].pc = "asked" /\ ~Free(l)
    /\ load' = [load EXCEPT ![l] = [pc |-> "read", in |-> counted]]
    /\ UNCHANGED <<moment, counted, total, entry, reader, report, countedAt, announced>>

\* The answer reaches the instance and everyone who waits for it.
WaitersGet(l, pc) ==
    [r \in Readers |->
        IF reader[r].pc = "waiting" /\ reader[r].of = l
        THEN Given(pc, reader[r], l)
        ELSE reader[r]]

Keep(l) ==
    /\ load[l].pc = "read" /\ ~Free(l)
    /\ load' = [load EXCEPT ![l].pc = "kept"]
    /\ reader' = WaitersGet(l, "done")
    /\ UNCHANGED <<moment, counted, total, entry, report, countedAt, announced>>

\* A read that failed is evicted at once, unless another has taken its place.
EvictedNever(l) == entry
Evicted(l) == [p \in Processes |-> IF entry[p].of = l THEN NoEntry ELSE entry[p]]

Break(l) ==
    /\ load[l].pc \in {"asked", "read"} /\ ~Free(l)
    /\ load' = [load EXCEPT ![l].pc = "broken"]
    /\ reader' = WaitersGet(l, "failed")
    /\ entry' = Evicted(l)
    /\ UNCHANGED <<moment, counted, total, report, countedAt, announced>>

\* record: the merge is read from the network first, and looked for among the hashes
\* the API built.
Verify(r, p, h) ==
    /\ report[r].pc = "idle"
    /\ report' = [report EXCEPT ![r] = [pc |-> "verified", p |-> p, of |-> h]]
    /\ UNCHANGED <<moment, counted, total, entry, load, reader, countedAt, announced>>

AskBuilt(r) ==
    /\ report[r].pc = "verified"
    /\ report' = [report EXCEPT ![r] =
          IF report[r].of \in BuiltHere THEN [report[r] EXCEPT !.pc = "built"] ELSE Idle]
    /\ UNCHANGED <<moment, counted, total, entry, load, reader, countedAt, announced>>

\* The store's transaction: the document of the merge and the counter move together,
\* or not at all.
IsNew(h) == h \notin counted

Commit(r) ==
    /\ report[r].pc = "built"
    /\ LET h == report[r].of
       IN  IF IsNew(h)
           THEN /\ counted' = counted \cup {h}
                /\ total' = total + 1
                /\ countedAt' = [countedAt EXCEPT ![h] = moment]
                /\ report' = [report EXCEPT ![r].pc = "counted"]
           ELSE /\ report' = [report EXCEPT ![r] = Idle]
                /\ UNCHANGED <<counted, total, countedAt>>
    /\ UNCHANGED <<moment, entry, load, reader, announced>>

\* The answer of the store reaches the instance, which drops its entry and says so.
DroppedNever(p) == entry
Dropped(p) == [entry EXCEPT ![p] = NoEntry]

Announce(r) ==
    /\ report[r].pc = "counted"
    /\ entry' = Dropped(report[r].p)
    /\ announced' = [announced EXCEPT ![report[r].p] = @ \cup {report[r].of}]
    /\ report' = [report EXCEPT ![r] = Idle]
    /\ UNCHANGED <<moment, counted, total, load, reader, countedAt>>

\* A read or the transaction fails, or the answer of a committed one is lost.
ReportFails(r) ==
    /\ report[r].pc # "idle"
    /\ report' = [report EXCEPT ![r] = Idle]
    /\ UNCHANGED <<moment, counted, total, entry, load, reader, countedAt, announced>>

StatsTick ==
    /\ moment < LastMoment
    /\ moment' = moment + 1
    /\ UNCHANGED <<counted, total, entry, load, reader, report, countedAt, announced>>

StatsNext ==
    \/ \E r \in Readers, p \in Processes : AskTotals(r, p)
    \/ \E l \in Loads : StoreReads(l) \/ Keep(l) \/ Break(l)
    \/ \E r \in Reports, p \in Processes, h \in Closes : Verify(r, p, h)
    \/ \E r \in Reports : AskBuilt(r) \/ Commit(r) \/ Announce(r) \/ ReportFails(r)
    \/ StatsTick

StatsSpec == StatsInit /\ [][StatsNext]_statsVars
=============================================================================
