---------------------------- MODULE RateLimiter ----------------------------
(***************************************************************************)
(* The request budgets of the API, and the guard that follows them.        *)
(*                                                                         *)
(* Every request of one client is counted by the first middleware: against *)
(* its key when the key is known, against its client when it is not, and   *)
(* against a third budget, of look-ups, when only the key store can tell.  *)
(* A request that was let through meets ApiKeyGuard, which resolves the    *)
(* key once more.  Both await the store, so requests overtake each other.  *)
(***************************************************************************)
EXTENDS Integers, FiniteSetsExt, Functions

CONSTANTS
    LimitedKeys,     \* keys the store knows
    LimitedValues,   \* values of a key's shape that the store does not know
    Callers,         \* requests of one client under way at the same time
    DefaultLimit,    \* the limiter's default limit,
    DefaultWindow,   \* and its window, which is also how long a budget stays blocked
    KeyLimit,        \* the override a key carries: its own limit
    KeyWindow,       \* and window
    CacheWindow,     \* cacheTtlMs of the directory
    UnknownKept,     \* negativeCacheMaxEntries
    LastInstant      \* bound: the clock

Malformed == "malformed"   \* no bearer, or one that cannot be a key
OfClient == "ip"
OfLookups == "lookup"

ASSUME LimiterAssumption ==
    /\ DefaultLimit \in Nat \ {0} /\ DefaultWindow \in Nat \ {0}
    /\ KeyLimit \in Nat \ {0} /\ KeyWindow \in Nat \ {0}
    /\ CacheWindow \in Nat /\ UnknownKept \in Nat /\ LastInstant \in Nat
    /\ LimitedKeys \cap LimitedValues = {}
    /\ {Malformed, OfClient, OfLookups} \cap (LimitedKeys \cup LimitedValues) = {}

Bearers == LimitedKeys \cup LimitedValues
Trackers == LimitedKeys \cup {OfClient, OfLookups}

VARIABLES
    instant,
    hits,      \* the storage: hits[b][t], those counted at t and not cleared since
    blocked,   \* until when b stays blocked, 0 when it is not
    cached,    \* until when the directory remembers its answer for a bearer
    call,      \* each request
    asked,     \* observed: store reads by the instant at which their request came
    passed     \* observed: passed[b][t], the requests b let through at t

limiterVars == <<instant, hits, blocked, cached, call, asked, passed>>

Instants == 0 .. LastInstant
NoHits == [t \in Instants |-> 0]
NoCall == [pc |-> "idle", bearer |-> Malformed, by |-> OfClient, at |-> 0, lost |-> FALSE]

LimiterInit ==
    /\ instant = 0
    /\ hits = [b \in Trackers |-> NoHits]
    /\ blocked = [b \in Trackers |-> 0]
    /\ cached = [b \in Bearers |-> 0]
    /\ call = [c \in Callers |-> NoCall]
    /\ asked = NoHits
    /\ passed = [b \in Trackers |-> NoHits]

WindowOf(b) == IF b \in LimitedKeys THEN KeyWindow ELSE DefaultWindow
LimitOf(b) == IF b \in LimitedKeys THEN KeyLimit ELSE DefaultLimit

\* A hit leaves the total when its window has passed.
Within(counts, w) == SumFunctionOnSet(counts, {t \in Instants : t > instant - w /\ t <= instant})
TotalHits(b) == Within(hits[b], WindowOf(b))

\* ThrottlerStorage.increment: a blocked budget counts nothing, and starts again from
\* this hit when its block has ended.
OneHit == [NoHits EXCEPT ![instant] = 1]
Refuses(b) == IF blocked[b] = 0 THEN TotalHits(b) >= LimitOf(b) ELSE blocked[b] > instant

Incremented(b) ==
    IF blocked[b] = 0 THEN [hits[b] EXCEPT ![instant] = @ + 1]
    ELSE IF blocked[b] > instant THEN hits[b] ELSE OneHit

BlockedAfter(b) ==
    IF blocked[b] = 0 /\ Refuses(b) THEN instant + DefaultWindow
    ELSE IF blocked[b] > instant THEN blocked[b] ELSE 0

CountNoLookups(bs) ==
    /\ hits' = [b \in Trackers |-> IF b \in bs \ {OfLookups} THEN Incremented(b) ELSE hits[b]]
    /\ blocked' = [b \in Trackers |-> IF b \in bs THEN BlockedAfter(b) ELSE blocked[b]]

Count(bs) ==
    /\ hits' = [b \in Trackers |-> IF b \in bs THEN Incremented(b) ELSE hits[b]]
    /\ blocked' = [b \in Trackers |-> IF b \in bs THEN BlockedAfter(b) ELSE blocked[b]]

\* ApiKeyDirectory.peek: what is known without asking the store.
Remembered(v) == v \in Bearers => cached[v] > instant

\* The middleware's answer once the budget b was counted: 429, or on to the guard.
Decided(c, v, b, lost) ==
    /\ call' = [call EXCEPT ![c] =
          [pc |-> IF Refuses(b) THEN "throttled" ELSE "guard",
           bearer |-> v, by |-> b, at |-> IF Refuses(b) THEN 0 ELSE instant, lost |-> lost]]
    /\ passed' = IF Refuses(b) THEN passed ELSE [passed EXCEPT ![b][instant] = @ + 1]

ReadStarted == asked' = [asked EXCEPT ![instant] = @ + 1]

\* Which budget a request is counted against: its key's when the key is known, its
\* client's for anything else.
PayerClient(v, known) == OfClient
Payer(v, known) == IF known /\ v \in LimitedKeys THEN v ELSE OfClient

\* A request whose bearer needs no look-up: a key that is remembered is counted
\* against itself alone, anything else against the client.
ArriveKnown(c) ==
    /\ call[c].pc \in {"idle", "throttled"}
    /\ \E v \in Bearers \cup {Malformed} :
          /\ Remembered(v)
          /\ LET b == Payer(v, TRUE)
             IN  /\ Count({b})
                 /\ Decided(c, v, b, FALSE)
    /\ UNCHANGED <<instant, cached, asked>>

\* Only the store can tell: the look-up is counted, and asked for when that budget
\* still has room.  When it has none the request falls on its client.
ArriveUnknown(c) ==
    /\ call[c].pc \in {"idle", "throttled"}
    /\ \E v \in Bearers :
          /\ ~Remembered(v)
          /\ IF Refuses(OfLookups)
             THEN /\ Count({OfLookups, OfClient})
                  /\ Decided(c, v, OfClient, TRUE)
                  /\ UNCHANGED asked
             ELSE /\ Count({OfLookups})
                  /\ ReadStarted
                  /\ call' = [call EXCEPT ![c] =
                        [pc |-> "lookup", bearer |-> v, by |-> OfLookups, at |-> instant,
                         lost |-> FALSE]]
                  /\ passed' = [passed EXCEPT ![OfLookups][instant] = @ + 1]
    /\ UNCHANGED <<instant, cached>>

\* ApiKeyDirectory.resolve remembers what it read; of the values that are no key it
\* keeps UnknownKept at most (ApiKeyCache says which).
Remember(v) ==
    \E kept \in SUBSET (LimitedValues \ {v}) :
        /\ v \in LimitedKeys => kept = LimitedValues \ {v}
        /\ v \in LimitedValues => Cardinality(kept) < UnknownKept
        /\ cached' = [x \in Bearers |->
              IF x = v THEN instant + CacheWindow
              ELSE IF x \in LimitedKeys \cup kept THEN cached[x] ELSE 0]

\* The limiter's look-up ends: found, the key is counted; not found, or not answered,
\* the client.
LookedUp(c) ==
    /\ call[c].pc = "lookup"
    /\ \E answered \in BOOLEAN :
          LET v == call[c].bearer
              b == Payer(v, answered)
          IN  /\ IF answered THEN Remember(v) ELSE UNCHANGED cached
              /\ Count({b})
              /\ Decided(c, v, b, ~answered)
    /\ UNCHANGED <<instant, asked>>

\* ApiKeyGuard resolves the bearer again: at once from the cache, or from the store,
\* which no budget bounds.  Whether it serves the request is ApiKeyCache's matter.
Guard(c) ==
    /\ call[c].pc = "guard"
    /\ LET v == call[c].bearer
       IN  IF Remembered(v)
           THEN /\ call' = [call EXCEPT ![c] = NoCall]
                /\ UNCHANGED asked
           ELSE /\ call' = [call EXCEPT ![c].pc = "reading"]
                /\ asked' = IF call[c].by = OfClient
                            THEN [asked EXCEPT ![call[c].at] = @ + 1] ELSE asked
    /\ UNCHANGED <<instant, hits, blocked, cached, passed>>

GuardAnswered(c) ==
    /\ call[c].pc = "reading"
    /\ \E answered \in BOOLEAN :
          /\ IF answered THEN Remember(call[c].bearer) ELSE UNCHANGED cached
          /\ call' = [call EXCEPT ![c] = NoCall]
    /\ UNCHANGED <<instant, hits, blocked, asked, passed>>

LimiterTick ==
    /\ instant < LastInstant
    /\ instant' = instant + 1
    /\ UNCHANGED <<hits, blocked, cached, call, asked, passed>>

LimiterNext ==
    \/ \E c \in Callers :
          ArriveKnown(c) \/ ArriveUnknown(c) \/ LookedUp(c) \/ Guard(c) \/ GuardAnswered(c)
    \/ LimiterTick

LimiterSpec == LimiterInit /\ [][LimiterNext]_limiterVars
=============================================================================
