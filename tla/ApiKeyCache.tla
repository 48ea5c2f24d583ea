---------------------------- MODULE ApiKeyCache ----------------------------
(***************************************************************************)
(* Self-serve API keys: the store every instance of the API shares, and    *)
(* the two caches of each instance's ApiKeyDirectory.                      *)
(*                                                                         *)
(* A request resolves its key (the rate limiter first, the guard after):   *)
(* from a cache at once, or from the store over two awaits during which a  *)
(* revocation, another request for the same key or a restart of the        *)
(* instance may come.  Every call of the store has a time limit, and one   *)
(* that was given up may still commit.                                     *)
(***************************************************************************)
EXTENDS Integers, Sequences, FiniteSetsExt

CONSTANTS
    Keys,          \* keys the store may issue
    Strangers,     \* values of the right shape that no store ever issued
    Instances,     \* instances of the API; a rollout overlaps two
    Requests,      \* resolutions under way at the same time
    Managers,      \* create, revoke and rotate calls under way at the same time
    TTL,           \* cacheTtlMs, in ticks
    StoreTimeout,  \* STORE_TIMEOUT_MS, in ticks
    MaxUnknown,    \* negativeCacheMaxEntries
    MaxTime,       \* bound: the clock
    None           \* no time, and nobody

ASSUME CacheAssumption ==
    /\ TTL \in Nat /\ StoreTimeout \in Nat /\ MaxUnknown \in Nat /\ MaxTime \in Nat
    /\ None \notin Nat \cup Instances \cup Keys \cup Strangers
    /\ Keys \cap Strangers = {}

VARIABLES
    now,
    record,    \* the store: each key's state
    revokedAt, \* and when it was revoked
    given,     \* the keys whose raw value a caller was shown
    known,     \* known[i][k]: when instance i's entry for k expires, or None
    unknown,   \* unknown[i]: its entries for values that are no key, oldest first
    req,       \* each resolution
    op,        \* each call that changes keys
    enforced,  \* observed: the keys whose end instance i has announced
    raced      \* observed: those of them it was resolving at that time

vars == <<now, record, revokedAt, given, known, unknown, req, op, enforced, raced>>

Values == Keys \cup Strangers
Time == Nat \cup {None}
Entry == [value : Values, exp : Nat]

RequestType ==
    [pc : {"idle", "asked", "read", "served", "refused", "failed"},
     inst : Instances \cup {None}, value : Values \cup {None},
     at : Nat,          \* when the store was asked, and then when the caller was answered
     found : BOOLEAN]   \* what the store answered

OpType ==
    [pc : {"idle", "sent", "committed", "late"},
     kind : {"create", "revoke", "rotate"},
     inst : Instances \cup {None},
     key : Keys \cup {None},   \* the key to end, for revoke and rotate
     new : Keys \cup {None}]   \* the key to issue, for create and rotate

TypeOK ==
    /\ now \in Nat
    /\ record \in [Keys -> {"none", "active", "revoked"}]
    /\ revokedAt \in [Keys -> Time]
    /\ given \subseteq Keys
    /\ known \in [Instances -> [Keys -> Time]]
    /\ unknown \in [Instances -> Seq(Entry)]
    /\ req \in [Requests -> RequestType]
    /\ op \in [Managers -> OpType]
    /\ enforced \in [Instances -> SUBSET Keys]
    /\ raced \in [Instances -> SUBSET Keys]

NoRequest ==
    [pc |-> "idle", inst |-> None, value |-> None, at |-> 0, found |-> FALSE]

NoOp == [pc |-> "idle", kind |-> "create", inst |-> None, key |-> None, new |-> None]

Init ==
    /\ now = 0
    /\ record = [k \in Keys |-> "none"]
    /\ revokedAt = [k \in Keys |-> None]
    /\ given = {}
    /\ known = [i \in Instances |-> [k \in Keys |-> None]]
    /\ unknown = [i \in Instances |-> <<>>]
    /\ req = [r \in Requests |-> NoRequest]
    /\ op = [m \in Managers |-> NoOp]
    /\ enforced = [i \in Instances |-> {}]
    /\ raced = [i \in Instances |-> {}]

-----------------------------------------------------------------------------
(***************************************************************************)
(* Resolving a key (ApiKeyDirectory).                                      *)
(***************************************************************************)

\* Under way: the store was asked and the caller has no answer yet.
Waiting(r) == req[r].pc \in {"asked", "read"}

\* Mutant of Fresh: an entry is served as long as it is there.
FreshForEver(exp) == exp # None

Fresh(exp) == exp # None /\ exp > now

KnownFresh(i, v) == v \in Keys /\ Fresh(known[i][v])

UnknownFresh(i, v) == \E n \in DOMAIN unknown[i] : unknown[i][n].value = v /\ unknown[i][n].exp > now

\* A Map holds a value once.
Without(q, v) ==
    IF \E n \in DOMAIN q : q[n].value = v
       THEN LET n == CHOOSE n \in DOMAIN q : q[n].value = v
            IN SubSeq(q, 1, n - 1) \o SubSeq(q, n + 1, Len(q))
       ELSE q

\* peek drops an entry it finds expired; a known one hides the unknown one.
DropExpired(i, v) ==
    /\ known' = IF v \in Keys /\ known[i][v] # None /\ ~KnownFresh(i, v)
                   THEN [known EXCEPT ![i][v] = None] ELSE known
    /\ unknown' = IF KnownFresh(i, v) \/ UnknownFresh(i, v)
                     THEN unknown ELSE [unknown EXCEPT ![i] = Without(@, v)]

\* A request carries a key that was handed out, or a value that is no key.
Resolve(r, i, v) ==
    LET pc == CASE KnownFresh(i, v) -> "served"
                [] ~KnownFresh(i, v) /\ UnknownFresh(i, v) -> "refused"
                [] OTHER -> "asked"
    IN
    /\ ~Waiting(r)
    /\ v \in given \cup Strangers
    /\ DropExpired(i, v)
    /\ req' = [req EXCEPT ![r] = [pc |-> pc, inst |-> i, value |-> v,
                                 at |-> now, found |-> FALSE]]
    /\ UNCHANGED <<now, record, revokedAt, given, op, enforced, raced>>

\* The store reads the document: a revoked key is as good as none.
StoreReads(r) ==
    /\ req[r].pc = "asked"
    /\ req' = [req EXCEPT ![r].pc = "read",
                         ![r].found = req[r].value \in Keys /\ record[req[r].value] = "active"]
    /\ UNCHANGED <<now, record, revokedAt, given, known, unknown, op, enforced, raced>>

\* Mutant of RememberUnknown: an entry that is there keeps its place, as a Map does.
RememberUnknownInPlace(q, v, exp) ==
    IF \E n \in DOMAIN q : q[n].value = v
      THEN [n \in DOMAIN q |-> IF q[n].value = v THEN [value |-> v, exp |-> exp] ELSE q[n]]
      ELSE Append(q, [value |-> v, exp |-> exp])

\* Drops from the oldest on until a fresh entry is met and there is room for one.
RememberUnknown(q, v, exp) ==
    LET rest == Without(q, v)
        dropped == Min({n \in 0 .. Len(rest) :
                          \/ n = Len(rest)
                          \/ rest[n + 1].exp > now /\ Len(rest) - n < MaxUnknown})
        kept == SubSeq(rest, dropped + 1, Len(rest))
    IN IF MaxUnknown > 0 THEN Append(kept, [value |-> v, exp |-> exp]) ELSE kept

\* The answer is cached under the time it arrived, and given to the caller.
StoreAnswers(r) ==
    LET i == req[r].inst
        v == req[r].value
    IN
    /\ req[r].pc = "read"
    /\ known' = IF req[r].found THEN [known EXCEPT ![i][v] = now + TTL] ELSE known
    /\ unknown' = IF req[r].found THEN unknown
                  ELSE [unknown EXCEPT ![i] = RememberUnknown(@, v, now + TTL)]
    /\ req' = [req EXCEPT ![r].pc = IF req[r].found THEN "served" ELSE "refused", ![r].at = now]
    /\ UNCHANGED <<now, record, revokedAt, given, op, enforced, raced>>

\* Mutant of StoreFails: no answer is taken for no key.
StoreFailsRefused(r) ==
    /\ Waiting(r)
    /\ req' = [req EXCEPT ![r].pc = "refused", ![r].at = now]
    /\ unknown' = [unknown EXCEPT ![req[r].inst] = RememberUnknown(@, req[r].value, now + TTL)]
    /\ UNCHANGED <<now, record, revokedAt, given, known, op, enforced, raced>>

\* The store failed, or its time was up: nothing is cached and the caller is told
\* to try again.
StoreFails(r) ==
    /\ Waiting(r)
    /\ req' = [req EXCEPT ![r].pc = "failed", ![r].at = now]
    /\ UNCHANGED <<now, record, revokedAt, given, known, unknown, op, enforced, raced>>

-----------------------------------------------------------------------------
(***************************************************************************)
(* Creating, revoking and rotating a key.                                  *)
(***************************************************************************)

\* A new key is random: no one else, stored or under way, has it.
Unused(k) == record[k] = "none" /\ \A m \in Managers : op[m].new # k

AskCreate(m, i, k) ==
    /\ op[m].pc = "idle"
    /\ Unused(k)
    /\ op' = [op EXCEPT ![m] = [pc |-> "sent", kind |-> "create", inst |-> i, key |-> None, new |-> k]]
    /\ UNCHANGED <<now, record, revokedAt, given, known, unknown, req, enforced, raced>>

\* A key with no record answers 404, and changes nothing.
AskRevoke(m, i, k) ==
    /\ op[m].pc = "idle"
    /\ record[k] # "none"
    /\ op' = [op EXCEPT ![m] = [pc |-> "sent", kind |-> "revoke", inst |-> i, key |-> k, new |-> None]]
    /\ UNCHANGED <<now, record, revokedAt, given, known, unknown, req, enforced, raced>>

AskRotate(m, i, k, n) ==
    /\ op[m].pc = "idle"
    /\ record[k] # "none"
    /\ Unused(n)
    /\ op' = [op EXCEPT ![m] = [pc |-> "sent", kind |-> "rotate", inst |-> i, key |-> k, new |-> n]]
    /\ UNCHANGED <<now, record, revokedAt, given, known, unknown, req, enforced, raced>>

\* A rotation of a key that is not active is refused, and issues nothing.
Refused(o) == o.kind = "rotate" /\ record[o.key] # "active"

\* The store's transaction: the old key ends, the new one begins.  A call already
\* given up changes the store all the same, and nobody learns of it.
Commit(m) ==
    LET o == op[m]
        ends == o.key # None /\ record[o.key] = "active"
    IN
    /\ o.pc \in {"sent", "late"}
    /\ ~Refused(o)
    /\ record' = [k \in Keys |-> IF k = o.new THEN "active"
                                 ELSE IF ends /\ k = o.key THEN "revoked"
                                 ELSE record[k]]
    /\ revokedAt' = [k \in Keys |-> IF ends /\ k = o.key THEN now ELSE revokedAt[k]]
    /\ op' = [op EXCEPT ![m] = IF o.pc = "sent" THEN [o EXCEPT !.pc = "committed"] ELSE NoOp]
    /\ UNCHANGED <<now, given, known, unknown, req, enforced, raced>>

RotateRefused(m) ==
    /\ op[m].pc \in {"sent", "late"}
    /\ Refused(op[m])
    /\ op' = [op EXCEPT ![m] = NoOp]
    /\ UNCHANGED <<now, record, revokedAt, given, known, unknown, req, enforced, raced>>

\* Mutant of Invalidated: the answer goes out with the entry still there.
InvalidatedNever(i, k) == known

Invalidated(i, k) == [known EXCEPT ![i][k] = None]

\* The instance that served the call drops its entries and answers; the new key's
\* raw value is shown to the caller, this once.
Announce(m) ==
    LET o == op[m] IN
    /\ o.pc = "committed"
    /\ IF o.key = None
          THEN UNCHANGED <<known, unknown, enforced, raced>>
          ELSE /\ known' = Invalidated(o.inst, o.key)
               /\ unknown' = [unknown EXCEPT ![o.inst] = Without(@, o.key)]
               /\ enforced' = [enforced EXCEPT ![o.inst] = @ \cup {o.key}]
               /\ raced' = [raced EXCEPT ![o.inst] = @ \cup {k \in {o.key} :
                     \E r \in Requests : Waiting(r) /\ req[r].inst = o.inst /\ req[r].value = k}]
    /\ given' = given \cup ({o.new} \ {None})
    /\ op' = [op EXCEPT ![m] = NoOp]
    /\ UNCHANGED <<now, record, revokedAt, req>>

\* The store's time was up: the caller is told to try again, and what was sent may
\* commit later, or have committed already.
OpTimesOut(m) ==
    /\ op[m].pc \in {"sent", "committed"}
    /\ op' = [op EXCEPT ![m] = IF op[m].pc = "sent" THEN [@ EXCEPT !.pc = "late"] ELSE NoOp]
    /\ UNCHANGED <<now, record, revokedAt, given, known, unknown, req, enforced, raced>>

\* What was sent never reached the store.
NeverCommits(m) ==
    /\ op[m].pc = "late"
    /\ op' = [op EXCEPT ![m] = NoOp]
    /\ UNCHANGED <<now, record, revokedAt, given, known, unknown, req, enforced, raced>>

-----------------------------------------------------------------------------
\* An instance is replaced: its caches and its requests are gone.
Restart(i) ==
    /\ known' = [known EXCEPT ![i] = [k \in Keys |-> None]]
    /\ unknown' = [unknown EXCEPT ![i] = <<>>]
    /\ req' = [r \in Requests |-> IF Waiting(r) /\ req[r].inst = i THEN NoRequest ELSE req[r]]
    /\ op' = [m \in Managers |->
                 IF op[m].inst # i THEN op[m]
                 ELSE IF op[m].pc \in {"sent", "late"} THEN [op[m] EXCEPT !.pc = "late"]
                 ELSE NoOp]
    /\ UNCHANGED <<now, record, revokedAt, given, enforced, raced>>

\* No request waits for the store longer than its limit.
Tick ==
    /\ now < MaxTime
    /\ \A r \in Requests : Waiting(r) => now < req[r].at + StoreTimeout
    /\ now' = now + 1
    /\ UNCHANGED <<record, revokedAt, given, known, unknown, req, op, enforced, raced>>

-----------------------------------------------------------------------------
Resolving(r) ==
    \/ \E i \in Instances, v \in Values : Resolve(r, i, v)
    \/ StoreReads(r) \/ StoreAnswers(r) \/ StoreFails(r)

Managing(m) ==
    \/ \E i \in Instances, k \in Keys :
          \/ AskCreate(m, i, k)
          \/ AskRevoke(m, i, k)
          \/ \E n \in Keys : AskRotate(m, i, k, n)
    \/ Commit(m) \/ RotateRefused(m) \/ Announce(m) \/ OpTimesOut(m) \/ NeverCommits(m)

Next ==
    \/ \E r \in Requests : Resolving(r)
    \/ \E m \in Managers : Managing(m)
    \/ \E i \in Instances : Restart(i)
    \/ Tick

Spec == Init /\ [][Next]_vars
=============================================================================
