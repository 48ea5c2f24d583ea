---------------------------- MODULE ApiKeyProofs ----------------------------
(***************************************************************************)
(* How long a revoked key can be served, what is refused, and what an      *)
(* announced revocation ends, for every number of keys, instances and      *)
(* requests and every value of the limits.                                 *)
(***************************************************************************)
EXTENDS ApiKeySafety, SequenceTheorems, WellFoundedInduction, TLAPS

Types ==
    /\ now \in Nat
    /\ record \in [Keys -> {"none", "active", "revoked"}]
    /\ revokedAt \in [Keys -> Time]
    /\ known \in [Instances -> [Keys -> Time]]
    /\ req \in [Requests -> RequestType]
    /\ op \in [Managers -> OpType]

\* Times up to x may still serve k.
Within(x, k) ==
    /\ record[k] # "none"
    /\ revokedAt[k] # None => x <= revokedAt[k] + TTL + StoreTimeout

\* Only a revoked key has a time of revocation, and it is past.
RecordOK(k) ==
    /\ record[k] # "revoked" => revokedAt[k] = None
    /\ revokedAt[k] # None => revokedAt[k] <= now

EntryOK(i, k) ==
    known[i][k] # None => known[i][k] <= now + TTL /\ Within(known[i][k], k)

\* What the store found was not revoked before it was asked.
RequestOK(q) ==
    /\ q.pc \in {"asked", "read"} => /\ q.inst \in Instances /\ q.value \in Values
                                     /\ q.at <= now /\ now <= q.at + StoreTimeout
    /\ q.pc = "read" /\ q.found => /\ q.value \in Keys /\ record[q.value] # "none"
                                   /\ revokedAt[q.value] # None => q.at <= revokedAt[q.value]
    /\ q.pc = "served" => q.value \in Keys /\ q.at <= now /\ Within(q.at, q.value)

\* A key being issued is new, and is being issued once.
OpOK(m) ==
    /\ op[m].pc \in {"sent", "late"} /\ op[m].new # None => record[op[m].new] = "none"
    /\ \A n \in Managers : n # m /\ op[n].new = op[m].new => op[m].new = None

Window ==
    /\ Types
    /\ \A k \in Keys : RecordOK(k)
    /\ \A i \in Instances, k \in Keys : EntryOK(i, k)
    /\ \A r \in Requests : RequestOK(req[r])
    /\ \A m \in Managers : OpOK(m)

-----------------------------------------------------------------------------
LEMMA WindowStarts == Init => Window
<1> SUFFICES ASSUME Init PROVE Window
    OBVIOUS
<1>1. Types
    BY CacheAssumption DEF Init, Types, Time, NoRequest, RequestType, NoOp, OpType
<1>2. \A k \in Keys : RecordOK(k)
    BY DEF Init, RecordOK
<1>3. \A i \in Instances, k \in Keys : EntryOK(i, k)
    BY DEF Init, EntryOK
<1>4. \A r \in Requests : RequestOK(req[r])
    BY DEF Init, NoRequest, RequestOK
<1>5. \A m \in Managers : OpOK(m)
    BY DEF Init, NoOp, OpOK
<1> QED BY <1>1, <1>2, <1>3, <1>4, <1>5 DEF Window

\* A step that leaves the clock and the store alone is about its caches, its requests
\* and its calls only.
LEMMA StoreStands ==
    ASSUME Window, UNCHANGED <<now, record, revokedAt>>,
           Types',
           \A i \in Instances, k \in Keys : known'[i][k] # known[i][k] => EntryOK(i, k)',
           \A r \in Requests : req'[r] # req[r] => RequestOK(req[r])',
           \A m \in Managers : OpOK(m)'
    PROVE  Window'
<1>1. \A k \in Keys : RecordOK(k)'
    BY DEF Window, RecordOK
<1>2. \A i \in Instances, k \in Keys : EntryOK(i, k)'
    BY DEF Window, EntryOK, Within
<1>3. \A r \in Requests : RequestOK(req[r])'
    BY DEF Window, RequestOK, Within
<1> QED BY <1>1, <1>2, <1>3 DEF Window

\* The calls a step does not touch stay as they were.
LEMMA OpsStand ==
    ASSUME Window, UNCHANGED <<op, record>>
    PROVE  \A m \in Managers : OpOK(m)'
BY DEF Window, OpOK

-----------------------------------------------------------------------------
LEMMA ResolveKeeps ==
    ASSUME Window, NEW r \in Requests, NEW i \in Instances, NEW v \in Values, Resolve(r, i, v)
    PROVE  Window'
<1>1. PICK pc \in {"served", "refused", "asked"} :
          /\ req' = [req EXCEPT ![r] = [pc |-> pc, inst |-> i, value |-> v,
                                        at |-> now, found |-> FALSE]]
          /\ pc = "served" => KnownFresh(i, v)
    BY DEF Resolve
<1>2. UNCHANGED <<now, record, revokedAt, op>>
    BY DEF Resolve
<1>3. known' = known \/ (v \in Keys /\ known' = [known EXCEPT ![i][v] = None])
    BY DEF Resolve, DropExpired
<1>4. known' \in [Instances -> [Keys -> Time]]
    BY <1>3 DEF Window, Types, Time
<1>5. req' \in [Requests -> RequestType]
    BY <1>1 DEF Window, Types, RequestType
<1>6. Types'
    BY <1>2, <1>4, <1>5 DEF Window, Types
<1>7. \A j \in Instances, k \in Keys : known'[j][k] # known[j][k] => EntryOK(j, k)'
    BY <1>3 DEF Window, Types, EntryOK
<1>8. RequestOK(req[r])'
    <2>1. req'[r] = [pc |-> pc, inst |-> i, value |-> v, at |-> now, found |-> FALSE]
        BY <1>1 DEF Window, Types
    <2>2. now \in Nat /\ StoreTimeout \in Nat /\ TTL \in Nat
        BY CacheAssumption DEF Window, Types
    <2>3. CASE pc = "served"
        <3>1. v \in Keys /\ known[i][v] # None /\ known[i][v] > now
            BY <1>1, <2>3 DEF KnownFresh, Fresh
        <3>2. Within(known[i][v], v) /\ known[i][v] \in Nat
            BY <3>1 DEF Window, Types, EntryOK, Time
        <3>3. revokedAt[v] # None => revokedAt[v] \in Nat
            BY <3>1 DEF Window, Types, Time
        <3>4. Within(now, v)
            BY <2>2, <3>1, <3>2, <3>3 DEF Within
        <3> QED BY <1>2, <2>1, <2>2, <2>3, <3>1, <3>4 DEF RequestOK, Within
    <2>4. CASE pc # "served"
        BY <1>2, <2>1, <2>2, <2>4 DEF RequestOK
    <2> QED BY <2>3, <2>4
<1>9. \A q \in Requests : req'[q] # req[q] => RequestOK(req[q])'
    BY <1>1, <1>8 DEF Window, Types
<1> QED BY <1>2, <1>6, <1>7, <1>9, OpsStand, StoreStands

LEMMA StoreReadsKeeps == ASSUME Window, NEW r \in Requests, StoreReads(r) PROVE Window'
<1> DEFINE found == req[r].value \in Keys /\ record[req[r].value] = "active"
<1>1. req' = [req EXCEPT ![r].pc = "read", ![r].found = found] /\ req[r].pc = "asked"
    BY DEF StoreReads
<1>2. UNCHANGED <<now, record, revokedAt, known, op>>
    BY DEF StoreReads
<1>3. req[r] \in RequestType /\ RequestOK(req[r])
    BY DEF Window, Types
<1>4. found \in BOOLEAN
    OBVIOUS
<1>5. req' \in [Requests -> RequestType]
    BY <1>1, <1>3, <1>4 DEF Window, Types, RequestType
<1>6. /\ req'[r].pc = "read" /\ req'[r].found = found /\ req'[r].value = req[r].value
      /\ req'[r].inst = req[r].inst /\ req'[r].at = req[r].at
    BY <1>1, <1>3 DEF Window, Types, RequestType
<1>7. found => record[req[r].value] # "none" /\ revokedAt[req[r].value] = None
    BY DEF Window, RecordOK
<1>8. RequestOK(req[r])'
    BY <1>1, <1>2, <1>3, <1>6, <1>7 DEF RequestOK
<1>9. \A q \in Requests : req'[q] # req[q] => RequestOK(req[q])'
    BY <1>1, <1>8 DEF Window, Types
<1>10. Types'
    BY <1>2, <1>5 DEF Window, Types
<1> QED BY <1>2, <1>9, <1>10, OpsStand, StoreStands

LEMMA StoreAnswersKeeps == ASSUME Window, NEW r \in Requests, StoreAnswers(r) PROVE Window'
<1> DEFINE i == req[r].inst
           v == req[r].value
           pc == IF req[r].found THEN "served" ELSE "refused"
<1>1. req' = [req EXCEPT ![r].pc = pc, ![r].at = now] /\ req[r].pc = "read"
    BY DEF StoreAnswers
<1>2. UNCHANGED <<now, record, revokedAt, op>>
    BY DEF StoreAnswers
<1>3. known' = known \/ (req[r].found /\ known' = [known EXCEPT ![i][v] = now + TTL])
    BY DEF StoreAnswers
<1>4. req[r] \in RequestType /\ RequestOK(req[r])
    BY DEF Window, Types
<1>5. /\ now \in Nat /\ TTL \in Nat /\ StoreTimeout \in Nat
      /\ req[r].at \in Nat /\ now <= req[r].at + StoreTimeout
    BY <1>1, <1>4, CacheAssumption DEF Window, Types, RequestType, RequestOK
<1>6. ASSUME req[r].found
      PROVE  i \in Instances /\ v \in Keys /\ Within(now + TTL, v) /\ Within(now, v)
    <2>1. i \in Instances /\ v \in Keys /\ record[v] # "none"
        BY <1>1, <1>4, <1>6 DEF RequestOK
    <2>2. revokedAt[v] # None => revokedAt[v] \in Nat /\ req[r].at <= revokedAt[v]
        BY <1>1, <1>4, <1>6, <2>1 DEF RequestOK, Window, Types, Time
    <2> QED BY <1>5, <2>1, <2>2 DEF Within
<1>7. known' \in [Instances -> [Keys -> Time]]
    <2>1. known \in [Instances -> [Keys -> Time]] /\ now + TTL \in Time
        BY <1>5 DEF Window, Types, Time
    <2>2. CASE known' = known
        BY <2>1, <2>2
    <2>3. CASE req[r].found /\ known' = [known EXCEPT ![i][v] = now + TTL]
        BY <1>6, <2>1, <2>3
    <2> QED BY <1>3, <2>2, <2>3
<1>8. req' \in [Requests -> RequestType]
    BY <1>1, <1>4, <1>5 DEF Window, Types, RequestType
<1>9. Types'
    BY <1>2, <1>7, <1>8 DEF Window, Types
<1>10. ASSUME NEW j \in Instances, NEW k \in Keys, known'[j][k] # known[j][k] PROVE EntryOK(j, k)'
    <2>1. req[r].found /\ known' = [known EXCEPT ![i][v] = now + TTL]
        BY <1>3, <1>10
    <2>2. known'[j][k] = now + TTL /\ k = v
        BY <1>6, <1>10, <2>1 DEF Window, Types
    <2> QED BY <1>2, <1>5, <1>6, <2>1, <2>2 DEF EntryOK, Within
<1>11. req'[r].pc = pc /\ req'[r].at = now /\ req'[r].value = v /\ req'[r].inst = i
    BY <1>1, <1>4 DEF Window, Types, RequestType
<1>12. RequestOK(req[r])'
    BY <1>2, <1>5, <1>6, <1>11 DEF RequestOK, Within
<1>13. \A q \in Requests : req'[q] # req[q] => RequestOK(req[q])'
    BY <1>1, <1>12 DEF Window, Types
<1> QED BY <1>2, <1>9, <1>10, <1>13, OpsStand, StoreStands

LEMMA StoreFailsKeeps == ASSUME Window, NEW r \in Requests, StoreFails(r) PROVE Window'
<1>1. req' = [req EXCEPT ![r].pc = "failed", ![r].at = now]
    BY DEF StoreFails
<1>2. UNCHANGED <<now, record, revokedAt, known, op>>
    BY DEF StoreFails
<1>3. req' \in [Requests -> RequestType] /\ req'[r].pc = "failed"
    <2> DEFINE me == [req[r] EXCEPT !.pc = "failed", !.at = now]
    <2>1. req \in [Requests -> RequestType] /\ req[r] \in RequestType /\ now \in Nat
        BY DEF Window, Types
    <2>2. me \in RequestType /\ me.pc = "failed"
        BY <2>1 DEF RequestType
    <2>3. req' = [req EXCEPT ![r] = me]
        BY <1>1
    <2> HIDE DEF me
    <2> QED BY <2>1, <2>2, <2>3
<1>4. \A q \in Requests : req'[q] # req[q] => RequestOK(req[q])'
    <2>1. RequestOK(req[r])'
        BY <1>3 DEF RequestOK
    <2>2. \A q \in Requests : q # r => req'[q] = req[q]
        BY <1>1 DEF Window, Types
    <2> QED BY <2>1, <2>2
<1>5. Types'
    BY <1>2, <1>3 DEF Window, Types
<1> QED BY <1>2, <1>4, <1>5, OpsStand, StoreStands

-----------------------------------------------------------------------------
\* A call that goes on, ends or begins: what it issues is new, or it issues nothing,
\* or it did so already.
LEMMA OpMoves ==
    ASSUME Window, NEW m \in Managers, NEW o \in OpType,
           UNCHANGED <<now, record, revokedAt, req>>, op' = [op EXCEPT ![m] = o],
           known' \in [Instances -> [Keys -> Time]],
           \A i \in Instances, k \in Keys : known'[i][k] \in {known[i][k], None},
           \/ o.new = None
           \/ o.new = op[m].new /\ (o.pc \in {"sent", "late"} => op[m].pc \in {"sent", "late"})
           \/ o.new \in Keys /\ Unused(o.new)
    PROVE  Window'
<1>1. Types'
    BY DEF Window, Types
<1>2. op'[m] = o /\ \A n \in Managers : n # m => op'[n] = op[n]
    BY DEF Window, Types
<1>3. OpOK(m) /\ \A n \in Managers : OpOK(n)
    BY DEF Window
<1>4. o.new # None => \A n \in Managers : n # m => op[n].new # o.new
    BY <1>3 DEF OpOK, Unused
<1>5. o.pc \in {"sent", "late"} /\ o.new # None => record[o.new] = "none"
    BY <1>3 DEF OpOK, Unused
<1>6. ASSUME NEW n \in Managers PROVE OpOK(n)'
    <2>1. CASE n = m
        BY <1>2, <1>4, <1>5, <2>1 DEF OpOK
    <2>2. CASE n # m
        <3>1. op'[n] = op[n] /\ OpOK(n)
            BY <1>2, <1>3, <2>2
        <3>2. op[n].new = o.new => op[n].new = None
            BY <1>4, <2>2
        <3> QED BY <1>2, <3>1, <3>2 DEF OpOK
    <2> QED BY <2>1, <2>2
<1>7. \A i \in Instances, k \in Keys : known'[i][k] # known[i][k] => EntryOK(i, k)'
    BY DEF EntryOK
<1> QED BY <1>1, <1>6, <1>7, StoreStands

LEMMA NoOpTyped == NoOp \in OpType /\ NoOp.new = None
BY DEF NoOp, OpType

LEMMA AsksKeep ==
    ASSUME Window, NEW m \in Managers, NEW i \in Instances, NEW k \in Keys, NEW n \in Keys,
           AskCreate(m, i, k) \/ AskRevoke(m, i, k) \/ AskRotate(m, i, k, n)
    PROVE  Window'
<1>1. UNCHANGED <<now, record, revokedAt, req, known>>
    BY DEF AskCreate, AskRevoke, AskRotate
<1>2. PICK o \in OpType : /\ op' = [op EXCEPT ![m] = o]
                          /\ o.new = None \/ (o.new \in Keys /\ Unused(o.new))
    <2>1. CASE AskCreate(m, i, k)
        <3> DEFINE o == [pc |-> "sent", kind |-> "create", inst |-> i, key |-> None, new |-> k]
        <3>1. o \in OpType /\ o.new = k
            BY DEF OpType
        <3> QED BY <2>1, <3>1 DEF AskCreate
    <2>2. CASE AskRevoke(m, i, k)
        <3> DEFINE o == [pc |-> "sent", kind |-> "revoke", inst |-> i, key |-> k, new |-> None]
        <3>1. o \in OpType /\ o.new = None
            BY DEF OpType
        <3> QED BY <2>2, <3>1 DEF AskRevoke
    <2>3. CASE AskRotate(m, i, k, n)
        <3> DEFINE o == [pc |-> "sent", kind |-> "rotate", inst |-> i, key |-> k, new |-> n]
        <3>1. o \in OpType /\ o.new = n
            BY DEF OpType
        <3> QED BY <2>3, <3>1 DEF AskRotate
    <2> QED BY <2>1, <2>2, <2>3
<1>3. known' \in [Instances -> [Keys -> Time]] /\ \A j \in Instances, l \in Keys : known'[j][l] = known[j][l]
    BY <1>1 DEF Window, Types
<1> QED BY <1>1, <1>2, <1>3, OpMoves

LEMMA EndsKeep ==
    ASSUME Window, NEW m \in Managers, RotateRefused(m) \/ OpTimesOut(m) \/ NeverCommits(m)
    PROVE  Window'
<1>1. UNCHANGED <<now, record, revokedAt, req, known>>
    BY DEF RotateRefused, OpTimesOut, NeverCommits
<1>2. op[m] \in OpType
    BY DEF Window, Types
<1>3. PICK o \in OpType :
          /\ op' = [op EXCEPT ![m] = o]
          /\ o.new = None \/ (o.new = op[m].new /\ op[m].pc \in {"sent", "late"})
    <2>1. CASE op' = [op EXCEPT ![m] = NoOp]
        BY <2>1, NoOpTyped
    <2>2. CASE op[m].pc = "sent" /\ op' = [op EXCEPT ![m] = [op[m] EXCEPT !.pc = "late"]]
        <3>1. [op[m] EXCEPT !.pc = "late"] \in OpType /\ [op[m] EXCEPT !.pc = "late"].new = op[m].new
            BY <1>2 DEF OpType
        <3> QED BY <2>2, <3>1
    <2> QED BY <2>1, <2>2, <1>2 DEF RotateRefused, OpTimesOut, NeverCommits
<1>4. known' \in [Instances -> [Keys -> Time]] /\ \A j \in Instances, l \in Keys : known'[j][l] = known[j][l]
    BY <1>1 DEF Window, Types
<1> QED BY <1>1, <1>3, <1>4, OpMoves

LEMMA AnnounceKeeps == ASSUME Window, NEW m \in Managers, Announce(m) PROVE Window'
<1>1. UNCHANGED <<now, record, revokedAt, req>> /\ op' = [op EXCEPT ![m] = NoOp]
    BY DEF Announce
<1>2. known' = known \/ known' = [known EXCEPT ![op[m].inst][op[m].key] = None]
    BY DEF Announce, Invalidated
<1>3. /\ known' \in [Instances -> [Keys -> Time]]
      /\ \A i \in Instances, k \in Keys : known'[i][k] \in {known[i][k], None}
    <2>1. known \in [Instances -> [Keys -> Time]] /\ None \in Time
        BY DEF Window, Types, Time
    <2>2. CASE known' = known
        BY <2>1, <2>2
    <2>3. CASE known' = [known EXCEPT ![op[m].inst][op[m].key] = None]
        BY <2>1, <2>3
    <2> QED BY <1>2, <2>2, <2>3
<1> QED BY <1>1, <1>3, NoOpTyped, OpMoves

\* The store changes: what was issued stays issued, and a revocation is dated now.
LEMMA CommitKeeps == ASSUME Window, NEW m \in Managers, Commit(m) PROVE Window'
<1> DEFINE o == op[m]
           ends == o.key # None /\ record[o.key] = "active"
           after == IF o.pc = "sent" THEN [o EXCEPT !.pc = "committed"] ELSE NoOp
<1>1. o.pc \in {"sent", "late"} /\ UNCHANGED <<now, known, req>>
    BY DEF Commit
<1>2. record' = [k \in Keys |-> IF k = o.new THEN "active"
                                ELSE IF ends /\ k = o.key THEN "revoked" ELSE record[k]]
    BY DEF Commit
<1>3. revokedAt' = [k \in Keys |-> IF ends /\ k = o.key THEN now ELSE revokedAt[k]]
    BY DEF Commit
<1>4. op' = [op EXCEPT ![m] = after]
    BY DEF Commit
<1>5. o \in OpType /\ now \in Nat /\ TTL \in Nat /\ StoreTimeout \in Nat /\ None \notin Keys /\ None \notin Nat
    BY CacheAssumption DEF Window, Types
<1>6. after \in OpType /\ after.new \in {o.new, None} /\ after.pc \notin {"sent", "late"}
    BY <1>1, <1>5 DEF OpType, NoOp
<1>7. Types'
    BY <1>1, <1>2, <1>3, <1>4, <1>5, <1>6 DEF Window, Types, Time
<1>8. o.new # None => record[o.new] = "none"
    BY <1>1 DEF Window, OpOK
<1>9. ASSUME NEW k \in Keys
      PROVE  /\ record[k] # "none" => record'[k] # "none" /\ k # o.new
             /\ revokedAt'[k] # None => revokedAt'[k] = revokedAt[k] \/ revokedAt'[k] = now
    BY <1>2, <1>3, <1>5, <1>8
<1>10. \A k \in Keys : RecordOK(k)'
    <2> SUFFICES ASSUME NEW k \in Keys PROVE RecordOK(k)'
        OBVIOUS
    <2>1. RecordOK(k) /\ now' = now
        BY <1>1 DEF Window
    <2>2. CASE k = o.new
        BY <1>2, <1>3, <1>5, <1>8, <2>1, <2>2 DEF RecordOK
    <2>3. CASE k # o.new
        BY <1>2, <1>3, <1>5, <2>1, <2>3 DEF RecordOK
    <2> QED BY <2>2, <2>3
<1>11. ASSUME NEW k \in Keys, NEW x \in Nat, x <= now + TTL, Within(x, k) PROVE Within(x, k)'
    <2>1. record'[k] # "none"
        BY <1>9, <1>11 DEF Within
    <2>2. revokedAt'[k] # None => x <= revokedAt'[k] + TTL + StoreTimeout
        BY <1>5, <1>9, <1>11 DEF Within
    <2> QED BY <2>1, <2>2 DEF Within
<1>12. \A i \in Instances, k \in Keys : EntryOK(i, k)'
    <2> SUFFICES ASSUME NEW i \in Instances, NEW k \in Keys, known[i][k] # None PROVE EntryOK(i, k)'
        BY <1>1 DEF EntryOK
    <2>1. known[i][k] \in Nat /\ EntryOK(i, k)
        BY DEF Window, Types, Time
    <2> QED BY <1>1, <1>11, <2>1 DEF EntryOK
<1>13. \A r \in Requests : RequestOK(req[r])'
    <2> SUFFICES ASSUME NEW r \in Requests PROVE RequestOK(req[r])'
        OBVIOUS
    <2>1. req'[r] = req[r] /\ now' = now /\ RequestOK(req[r]) /\ req[r].at \in Nat
        BY <1>1 DEF Window, Types, RequestType
    <2>2. ASSUME req[r].pc = "read", req[r].found
          PROVE  /\ req[r].value \in Keys /\ record'[req[r].value] # "none"
                 /\ revokedAt'[req[r].value] # None => req[r].at <= revokedAt'[req[r].value]
        <3>1. /\ req[r].value \in Keys /\ record[req[r].value] # "none" /\ req[r].at <= now
              /\ revokedAt[req[r].value] # None => req[r].at <= revokedAt[req[r].value]
            BY <2>1, <2>2 DEF RequestOK
        <3> QED BY <1>9, <3>1
    <2>3. ASSUME req[r].pc = "served" PROVE req[r].value \in Keys /\ Within(req[r].at, req[r].value)'
        <3>1. req[r].value \in Keys /\ Within(req[r].at, req[r].value) /\ req[r].at <= now
            BY <2>1, <2>3 DEF RequestOK
        <3>2. req[r].at <= now + TTL
            BY <1>5, <2>1, <3>1
        <3>3. ASSUME NEW k \in Keys, NEW x \in Nat, x <= now + TTL, Within(x, k), req[r].at = x, req[r].value = k
              PROVE  Within(req[r].at, req[r].value)'
            BY <1>11, <2>1, <3>3 DEF Within
        <3> QED BY <2>1, <3>1, <3>2, <3>3
    <2> QED BY <2>1, <2>2, <2>3 DEF RequestOK
<1>14. \A n \in Managers : OpOK(n)'
    <2> SUFFICES ASSUME NEW n \in Managers PROVE OpOK(n)'
        OBVIOUS
    <2>1. op'[m] = after /\ \A l \in Managers : l # m => op'[l] = op[l]
        BY <1>4 DEF Window, Types
    <2>2. OpOK(n) /\ OpOK(m)
        BY DEF Window
    <2>3. CASE n = m
        BY <1>6, <2>1, <2>2, <2>3 DEF OpOK
    <2>4. CASE n # m
        <3>1. op[n].new # None => op[n].new \in Keys /\ op[n].new # o.new
            BY <2>2, <2>4 DEF OpOK, Window, Types, OpType
        <3>2. op[n].new # None /\ record[op[n].new] = "none" => record'[op[n].new] = "none"
            BY <1>2, <3>1
        <3> QED BY <1>6, <2>1, <2>2, <2>4, <3>1, <3>2 DEF OpOK
    <2> QED BY <2>3, <2>4
<1> QED BY <1>7, <1>10, <1>12, <1>13, <1>14 DEF Window

-----------------------------------------------------------------------------
LEMMA RestartKeeps == ASSUME Window, NEW i \in Instances, Restart(i) PROVE Window'
<1>1. UNCHANGED <<now, record, revokedAt>>
    BY DEF Restart
<1>2. known' = [known EXCEPT ![i] = [k \in Keys |-> None]]
    BY DEF Restart
<1>3. \A r \in Requests : req'[r] = req[r] \/ req'[r] = NoRequest
    BY DEF Restart
<1>4. NoRequest \in RequestType /\ NoRequest.pc = "idle"
    BY DEF NoRequest, RequestType
<1>5. req' \in [Requests -> RequestType]
    BY <1>4 DEF Window, Types, Restart
<1>6. op' \in [Managers -> OpType] /\ \A m \in Managers :
          /\ op'[m].new \in {op[m].new, None}
          /\ op'[m].pc \in {"sent", "late"} /\ op'[m].new # None => op[m].pc \in {"sent", "late"}
    <2> SUFFICES ASSUME NEW m \in Managers
                 PROVE  /\ op'[m] \in OpType /\ op'[m].new \in {op[m].new, None}
                        /\ op'[m].pc \in {"sent", "late"} /\ op'[m].new # None
                              => op[m].pc \in {"sent", "late"}
        BY DEF Restart
    <2>1. op[m] \in OpType
        BY DEF Window, Types
    <2>2. \/ op'[m] = op[m]
          \/ op[m].pc \in {"sent", "late"} /\ op'[m] = [op[m] EXCEPT !.pc = "late"]
          \/ op'[m] = NoOp
        BY DEF Restart
    <2>3. [op[m] EXCEPT !.pc = "late"] \in OpType /\ [op[m] EXCEPT !.pc = "late"].new = op[m].new
        BY <2>1 DEF OpType
    <2> QED BY <2>1, <2>2, <2>3, NoOpTyped
<1>7. known' \in [Instances -> [Keys -> Time]]
    BY <1>2 DEF Window, Types, Time
<1>8. Types'
    BY <1>1, <1>5, <1>6, <1>7 DEF Window, Types
<1>9. \A j \in Instances, k \in Keys : known'[j][k] # known[j][k] => EntryOK(j, k)'
    BY <1>2 DEF Window, Types, EntryOK
<1>10. \A r \in Requests : req'[r] # req[r] => RequestOK(req[r])'
    BY <1>3, <1>4 DEF RequestOK
<1>11. \A m \in Managers : OpOK(m)'
    BY <1>1, <1>6 DEF Window, OpOK
<1> QED BY <1>1, <1>8, <1>9, <1>10, <1>11, StoreStands

\* Time does not pass the limit of a request that waits.
LEMMA TickKeeps == ASSUME Window, Tick PROVE Window'
<1>1. now' = now + 1 /\ UNCHANGED <<record, revokedAt, known, req, op>>
    BY DEF Tick
<1>2. now \in Nat /\ TTL \in Nat /\ StoreTimeout \in Nat
    BY CacheAssumption DEF Window, Types
<1>3. Types'
    BY <1>1, <1>2 DEF Window, Types
<1>4. \A k \in Keys : RecordOK(k)'
    BY <1>1, <1>2 DEF Window, Types, RecordOK, Time
<1>5. \A i \in Instances, k \in Keys : EntryOK(i, k)'
    <2> SUFFICES ASSUME NEW i \in Instances, NEW k \in Keys, known[i][k] # None PROVE EntryOK(i, k)'
        BY <1>1 DEF EntryOK
    <2>1. known[i][k] \in Nat /\ EntryOK(i, k)
        BY DEF Window, Types, Time
    <2> QED BY <1>1, <1>2, <2>1 DEF EntryOK, Within
<1>6. \A r \in Requests : RequestOK(req[r])'
    <2> SUFFICES ASSUME NEW r \in Requests PROVE RequestOK(req[r])'
        OBVIOUS
    <2>1. RequestOK(req[r]) /\ req[r].at \in Nat
        BY DEF Window, Types, RequestType
    <2>2. req[r].pc \in {"asked", "read"} => now < req[r].at + StoreTimeout
        BY DEF Tick, Waiting
    <2> QED BY <1>1, <1>2, <2>1, <2>2 DEF RequestOK, Within
<1>7. \A m \in Managers : OpOK(m)'
    BY <1>1, OpsStand
<1> QED BY <1>3, <1>4, <1>5, <1>6, <1>7 DEF Window

LEMMA StutterKeeps == ASSUME Window, UNCHANGED vars PROVE Window'
<1>1. UNCHANGED <<now, record, revokedAt, known, req, op>>
    BY DEF vars
<1>2. Types'
    BY <1>1 DEF Window, Types
<1>3. \A m \in Managers : OpOK(m)'
    BY <1>1, OpsStand
<1> QED BY <1>1, <1>2, <1>3, StoreStands

LEMMA WindowKept == Window /\ [Next]_vars => Window'
<1> SUFFICES ASSUME Window, [Next]_vars PROVE Window'
    OBVIOUS
<1>1. ASSUME NEW r \in Requests, Resolving(r) PROVE Window'
    BY <1>1, ResolveKeeps, StoreReadsKeeps, StoreAnswersKeeps, StoreFailsKeeps DEF Resolving
<1>2. ASSUME NEW m \in Managers, Managing(m) PROVE Window'
    BY <1>2, AsksKeep, CommitKeeps, AnnounceKeeps, EndsKeep DEF Managing
<1>3. ASSUME NEW i \in Instances, Restart(i) PROVE Window'
    BY <1>3, RestartKeeps
<1> QED BY <1>1, <1>2, <1>3, TickKeeps, StutterKeeps DEF Next

-----------------------------------------------------------------------------
\* A request is served only for a key that was issued, and for a revoked one only
\* within the cache window and one store read of its revocation: whatever the order of
\* reads, revocations, timeouts and restarts, and however many instances there are.
THEOREM WindowHolds == Spec => []ServedRecently
<1>1. Window => ServedRecently
    BY DEF Window, RequestOK, Within, ServedRecently
<1> QED BY <1>1, WindowStarts, WindowKept, PTL DEF Spec

-----------------------------------------------------------------------------
(***************************************************************************)
(* What an instance remembers of values that are no key.                   *)
(***************************************************************************)

\* Numbers around a place of a sequence.
LEMMA AroundOne ==
    ASSUME NEW l \in Nat, NEW a \in 1 .. l
    PROVE  /\ a \in Int /\ a - 1 - 1 + 1 = a - 1 /\ l - (a + 1) + 1 = l - a
           /\ a - 1 = IF 1 <= a - 1 THEN a - 1 - 1 + 1 ELSE 0
           /\ l - a = IF a + 1 <= l THEN l - (a + 1) + 1 ELSE 0
           /\ \A i \in Int : 1 + i - 1 = i /\ a + 1 + i - 1 = a + i
OBVIOUS

\* What is left of a sequence of entries without those of a value.
LEMMA WithoutIs ==
    ASSUME NEW q \in Seq(Entry), NEW v
    PROVE  \/ Without(q, v) = q /\ \A n \in 1 .. Len(q) : q[n].value # v
           \/ \E a \in 1 .. Len(q) :
                 /\ q[a].value = v
                 /\ Without(q, v) \in Seq(Entry) /\ Len(Without(q, v)) = Len(q) - 1
                 /\ \A j \in 1 .. Len(q) - 1 : Without(q, v)[j] = IF j < a THEN q[j] ELSE q[j + 1]
<1>1. Len(q) \in Nat /\ DOMAIN q = 1 .. Len(q)
    OBVIOUS
<1>2. CASE \A n \in 1 .. Len(q) : q[n].value # v
    BY <1>1, <1>2 DEF Without
<1>3. CASE \E n \in 1 .. Len(q) : q[n].value = v
    <2> DEFINE a == CHOOSE n \in DOMAIN q : q[n].value = v
               w == SubSeq(q, 1, a - 1) \o SubSeq(q, a + 1, Len(q))
    <2>1. a \in 1 .. Len(q) /\ q[a].value = v
        BY <1>1, <1>3
    <2>2. Without(q, v) = w
        BY <1>1, <1>3 DEF Without
    <2> HIDE DEF a
    <2>3. /\ SubSeq(q, 1, a - 1) \in Seq(Entry) /\ SubSeq(q, a + 1, Len(q)) \in Seq(Entry)
          /\ Len(SubSeq(q, 1, a - 1)) = a - 1 /\ Len(SubSeq(q, a + 1, Len(q))) = Len(q) - a
          /\ \A i \in 1 .. a - 1 : SubSeq(q, 1, a - 1)[i] = q[i]
          /\ \A i \in 1 .. Len(q) - a : SubSeq(q, a + 1, Len(q))[i] = q[a + i]
        <3>1. \A n \in 1 .. Len(q) : q[n] \in Entry
            BY <1>1
        <3>2. a - 1 \in Int /\ a + 1 \in Int /\ Len(q) \in Int /\ 1 \in Int
            BY <1>1, <2>1
        <3>3. (\A n \in 1 .. a - 1 : q[n] \in Entry) /\ (\A n \in a + 1 .. Len(q) : q[n] \in Entry)
            BY <1>1, <2>1, <3>1
        <3>4. /\ SubSeq(q, 1, a - 1) \in Seq(Entry)
              /\ Len(SubSeq(q, 1, a - 1)) = IF 1 <= a - 1 THEN a - 1 - 1 + 1 ELSE 0
              /\ \A i \in 1 .. a - 1 - 1 + 1 : SubSeq(q, 1, a - 1)[i] = q[1 + i - 1]
            BY <3>2, <3>3, SubSeqProperties
        <3>5. /\ SubSeq(q, a + 1, Len(q)) \in Seq(Entry)
              /\ Len(SubSeq(q, a + 1, Len(q))) = IF a + 1 <= Len(q) THEN Len(q) - (a + 1) + 1 ELSE 0
              /\ \A i \in 1 .. Len(q) - (a + 1) + 1 : SubSeq(q, a + 1, Len(q))[i] = q[a + 1 + i - 1]
            BY <3>2, <3>3, SubSeqProperties
        <3>6. /\ a \in Int /\ a - 1 - 1 + 1 = a - 1 /\ Len(q) - (a + 1) + 1 = Len(q) - a
              /\ a - 1 = IF 1 <= a - 1 THEN a - 1 - 1 + 1 ELSE 0
              /\ Len(q) - a = IF a + 1 <= Len(q) THEN Len(q) - (a + 1) + 1 ELSE 0
              /\ \A i \in Int : 1 + i - 1 = i /\ a + 1 + i - 1 = a + i
            BY <1>1, <2>1, AroundOne, Zenon
        <3>7. Len(SubSeq(q, 1, a - 1)) = a - 1 /\ Len(SubSeq(q, a + 1, Len(q))) = Len(q) - a
            BY <3>4, <3>5, <3>6, Zenon
        <3>8. \A i \in 1 .. a - 1 : SubSeq(q, 1, a - 1)[i] = q[i]
            <4> SUFFICES ASSUME NEW i \in 1 .. a - 1 PROVE SubSeq(q, 1, a - 1)[i] = q[i]
                OBVIOUS
            <4>0. i \in Int
                OBVIOUS
            <4>1. 1 + i - 1 = i /\ i \in 1 .. a - 1 - 1 + 1
                BY <3>6, <4>0, Zenon
            <4> QED BY <3>4, <4>1
        <3>9. \A i \in 1 .. Len(q) - a : SubSeq(q, a + 1, Len(q))[i] = q[a + i]
            <4> SUFFICES ASSUME NEW i \in 1 .. Len(q) - a PROVE SubSeq(q, a + 1, Len(q))[i] = q[a + i]
                OBVIOUS
            <4>0. i \in Int
                OBVIOUS
            <4>1. a + 1 + i - 1 = a + i /\ i \in 1 .. Len(q) - (a + 1) + 1
                BY <3>6, <4>0, Zenon
            <4> QED BY <3>5, <4>1
        <3> QED BY <3>4, <3>5, <3>7, <3>8, <3>9
    <2> DEFINE front == SubSeq(q, 1, a - 1)
               back == SubSeq(q, a + 1, Len(q))
    <2>4. /\ w = front \o back /\ front \in Seq(Entry) /\ back \in Seq(Entry)
          /\ Len(front) = a - 1 /\ Len(back) = Len(q) - a
          /\ \A i \in 1 .. a - 1 : front[i] = q[i]
          /\ \A i \in 1 .. Len(q) - a : back[i] = q[a + i]
        BY <2>3
    <2> HIDE DEF w, front, back
    <2>5. /\ w \in Seq(Entry) /\ Len(w) = Len(front) + Len(back)
          /\ \A i \in 1 .. Len(front) + Len(back) :
                w[i] = IF i <= Len(front) THEN front[i] ELSE back[i - Len(front)]
        BY <2>4, ConcatProperties
    <2>6. Len(w) = Len(q) - 1
        BY <1>1, <2>1, <2>4, <2>5
    <2>7. ASSUME NEW j \in 1 .. Len(q) - 1 PROVE w[j] = IF j < a THEN q[j] ELSE q[j + 1]
        <3>1. w[j] = IF j <= a - 1 THEN front[j] ELSE back[j - (a - 1)]
            BY <1>1, <2>1, <2>4, <2>5
        <3>2. CASE j < a
            BY <1>1, <2>1, <2>4, <3>1, <3>2
        <3>3. CASE ~(j < a)
            <4>1. j - (a - 1) \in 1 .. Len(q) - a /\ a + (j - (a - 1)) = j + 1 /\ ~(j <= a - 1)
                BY <1>1, <2>1, <3>3
            <4>2. back[j - (a - 1)] = q[a + (j - (a - 1))]
                BY <2>4, <4>1
            <4> QED BY <3>1, <3>3, <4>1, <4>2
        <3> QED BY <3>2, <3>3
    <2> QED BY <2>1, <2>2, <2>5, <2>6, <2>7
<1> QED BY <1>2, <1>3

\* The least number of a set that has one.
LEMMA MinIs ==
    ASSUME NEW S, S \subseteq Nat, S # {}
    PROVE  Min(S) \in S /\ \A n \in S : Min(S) <= n
<1> DEFINE Less == {ss \in Nat \X Nat : ss[1] < ss[2]}
<1>1. IsWellFoundedOn(Less, Nat)
    BY NatLessThanWellFounded DEF OpToRel
<1> HIDE DEF Less
<1>2. PICK m \in S : \A n \in S : ~(<<n, m>> \in Less)
    BY <1>1, WFMin
<1>3. ASSUME NEW n \in S PROVE m <= n
    <2>1. n \in Nat /\ m \in Nat /\ <<n, m>> \notin Less
        BY <1>2
    <2> QED BY <2>1 DEF Less
<1> QED BY <1>3 DEF Min

\* The entries of a Map, oldest first, as they are and in which order.
InOrder(q) ==
    /\ q \in Seq(Entry)
    /\ Len(q) <= MaxUnknown
    /\ \A n \in 1 .. Len(q) : q[n].exp <= now + TTL
    /\ \A m, n \in 1 .. Len(q) : m < n => q[m].exp <= q[n].exp /\ q[m].value # q[n].value

\* Every entry of q is one of p.
PartOf(q, p) == \A n \in 1 .. Len(q) : \E m \in 1 .. Len(p) : q[n] = p[m]

LEMMA WithoutKeepsOrder ==
    ASSUME NEW q, InOrder(q), NEW v
    PROVE  /\ InOrder(Without(q, v)) /\ PartOf(Without(q, v), q)
           /\ \A n \in 1 .. Len(Without(q, v)) : Without(q, v)[n].value # v
<1>1. q \in Seq(Entry) /\ Len(q) \in Nat
    BY DEF InOrder
<1>2. CASE Without(q, v) = q /\ \A n \in 1 .. Len(q) : q[n].value # v
    BY <1>1, <1>2 DEF PartOf
<1>3. ASSUME NEW a \in 1 .. Len(q), q[a].value = v,
             Without(q, v) \in Seq(Entry), Len(Without(q, v)) = Len(q) - 1,
             \A j \in 1 .. Len(q) - 1 : Without(q, v)[j] = IF j < a THEN q[j] ELSE q[j + 1]
      PROVE  /\ InOrder(Without(q, v)) /\ PartOf(Without(q, v), q)
             /\ \A n \in 1 .. Len(Without(q, v)) : Without(q, v)[n].value # v
    <2> DEFINE w == Without(q, v)
               at(j) == IF j < a THEN j ELSE j + 1
    <2>1. w \in Seq(Entry) /\ Len(w) = Len(q) - 1
        BY <1>3
    <2>2. ASSUME NEW j \in 1 .. Len(w) PROVE at(j) \in 1 .. Len(q) /\ w[j] = q[at(j)] /\ at(j) # a
        BY <1>1, <1>3
    <2>3. ASSUME NEW m \in 1 .. Len(w), NEW n \in 1 .. Len(w), m < n PROVE at(m) < at(n)
        BY <1>1, <1>3, <2>3
    <2> HIDE DEF w, at
    <2>4. \A n \in 1 .. Len(w) : w[n].exp <= now + TTL
        BY <2>2 DEF InOrder
    <2>5. \A m, n \in 1 .. Len(w) : m < n => w[m].exp <= w[n].exp /\ w[m].value # w[n].value
        BY <2>2, <2>3 DEF InOrder
    <2>6. ASSUME NEW n \in 1 .. Len(w) PROVE w[n].value # v
        <3>1. at(n) < a \/ a < at(n)
            BY <1>1, <2>2
        <3> QED BY <1>3, <2>2, <3>1 DEF InOrder
    <2>7. Len(w) <= MaxUnknown
        BY <1>1, <2>1, CacheAssumption DEF InOrder
    <2> QED BY <2>1, <2>2, <2>4, <2>5, <2>6, <2>7 DEF InOrder, PartOf, w
<1> QED BY <1>1, <1>2, <1>3, WithoutIs

\* The newest entries of a Map.
LEMMA NewestKeepOrder ==
    ASSUME NEW q, InOrder(q), NEW d \in 0 .. Len(q)
    PROVE  /\ InOrder(SubSeq(q, d + 1, Len(q))) /\ PartOf(SubSeq(q, d + 1, Len(q)), q)
           /\ Len(SubSeq(q, d + 1, Len(q))) = Len(q) - d
<1> DEFINE w == SubSeq(q, d + 1, Len(q))
<1>1. q \in Seq(Entry) /\ Len(q) \in Nat /\ \A n \in 1 .. Len(q) : q[n] \in Entry
    BY DEF InOrder
<1>2. d + 1 \in Int /\ Len(q) \in Int /\ \A n \in d + 1 .. Len(q) : q[n] \in Entry
    BY <1>1
<1>3. /\ w \in Seq(Entry)
      /\ Len(w) = IF d + 1 <= Len(q) THEN Len(q) - (d + 1) + 1 ELSE 0
      /\ \A i \in 1 .. Len(q) - (d + 1) + 1 : w[i] = q[d + 1 + i - 1]
    BY <1>2, SubSeqProperties
<1> HIDE DEF w
<1>4. Len(w) = Len(q) - d
    BY <1>1, <1>3
<1>5. ASSUME NEW i \in 1 .. Len(w) PROVE d + i \in 1 .. Len(q) /\ w[i] = q[d + i]
    <2>1. i \in 1 .. Len(q) - (d + 1) + 1 /\ d + 1 + i - 1 = d + i /\ d + i \in 1 .. Len(q)
        BY <1>1, <1>4
    <2> QED BY <1>3, <2>1
<1>6. \A n \in 1 .. Len(w) : w[n].exp <= now + TTL
    BY <1>5 DEF InOrder
<1>7. ASSUME NEW m \in 1 .. Len(w), NEW n \in 1 .. Len(w), m < n
      PROVE  w[m].exp <= w[n].exp /\ w[m].value # w[n].value
    <2>1. d + m < d + n
        BY <1>1, <1>4, <1>7
    <2>2. d + m \in 1 .. Len(q) /\ d + n \in 1 .. Len(q) /\ w[m] = q[d + m] /\ w[n] = q[d + n]
        BY <1>5
    <2>3. q[d + m].exp <= q[d + n].exp /\ q[d + m].value # q[d + n].value
        BY <2>1, <2>2 DEF InOrder
    <2> QED BY <2>2, <2>3
<1>8. Len(w) <= MaxUnknown
    BY <1>1, <1>4, CacheAssumption DEF InOrder
<1> QED BY <1>3, <1>4, <1>5, <1>6, <1>7, <1>8 DEF InOrder, PartOf, w

\* An entry that lasts longest goes last, where there is room for it.
LEMMA NewestGoesLast ==
    ASSUME NEW q, InOrder(q), Len(q) < MaxUnknown, NEW v \in Values, now \in Nat,
           \A n \in 1 .. Len(q) : q[n].value # v
    PROVE  /\ InOrder(Append(q, [value |-> v, exp |-> now + TTL]))
           /\ \A n \in 1 .. Len(Append(q, [value |-> v, exp |-> now + TTL])) :
                 \/ Append(q, [value |-> v, exp |-> now + TTL])[n].value = v
                 \/ \E m \in 1 .. Len(q) : Append(q, [value |-> v, exp |-> now + TTL])[n] = q[m]
<1> DEFINE e == [value |-> v, exp |-> now + TTL]
           w == Append(q, e)
<1>1. q \in Seq(Entry) /\ Len(q) \in Nat /\ TTL \in Nat /\ MaxUnknown \in Nat
    BY CacheAssumption DEF InOrder
<1>2. e \in Entry /\ e.value = v /\ e.exp = now + TTL
    BY <1>1 DEF Entry
<1> HIDE DEF e
<1>3. w \in Seq(Entry) /\ Len(w) = Len(q) + 1 /\ w[Len(q) + 1] = e /\ \A n \in 1 .. Len(q) : w[n] = q[n]
    BY <1>1, <1>2
<1> HIDE DEF w
<1>4. \A n \in 1 .. Len(w) : n \in 1 .. Len(q) \/ n = Len(q) + 1
    BY <1>1, <1>3
<1>5. ASSUME NEW n \in 1 .. Len(w) PROVE w[n].exp <= now + TTL
    <2>1. now + TTL <= now + TTL
        BY <1>1
    <2> QED BY <1>2, <1>3, <1>4, <2>1 DEF InOrder
<1>6. ASSUME NEW m \in 1 .. Len(w), NEW n \in 1 .. Len(w), m < n
      PROVE  w[m].exp <= w[n].exp /\ w[m].value # w[n].value
    <2>1. m \in 1 .. Len(q)
        BY <1>1, <1>3, <1>6
    <2>2. CASE n \in 1 .. Len(q)
        BY <1>3, <1>6, <2>1, <2>2 DEF InOrder
    <2>3. CASE n = Len(q) + 1
        BY <1>2, <1>3, <2>1, <2>3 DEF InOrder
    <2> QED BY <1>4, <2>2, <2>3
<1>7. Len(w) <= MaxUnknown
    BY <1>1, <1>3
<1> QED BY <1>2, <1>3, <1>4, <1>5, <1>6, <1>7 DEF InOrder, w, e

\* What is remembered of a value: an order, within the bound.
LEMMA RememberKeepsOrder ==
    ASSUME NEW q, InOrder(q), NEW v \in Values, now \in Nat
    PROVE  LET w == RememberUnknown(q, v, now + TTL) IN
           /\ InOrder(w)
           /\ \A n \in 1 .. Len(w) : w[n].value = v \/ \E m \in 1 .. Len(q) : w[n] = q[m]
<1> DEFINE rest == Without(q, v)
           drops == {n \in 0 .. Len(rest) : \/ n = Len(rest)
                                            \/ rest[n + 1].exp > now /\ Len(rest) - n < MaxUnknown}
           d == Min(drops)
           kept == SubSeq(rest, d + 1, Len(rest))
           w == RememberUnknown(q, v, now + TTL)
<1>1. InOrder(rest) /\ PartOf(rest, q) /\ \A n \in 1 .. Len(rest) : rest[n].value # v
    BY WithoutKeepsOrder
<1>2. w = IF MaxUnknown > 0 THEN Append(kept, [value |-> v, exp |-> now + TTL]) ELSE kept
    BY DEF RememberUnknown
<1>3. Len(rest) \in Nat /\ MaxUnknown \in Nat
    BY <1>1, CacheAssumption DEF InOrder
<1> HIDE DEF rest, w
<1>4. drops \subseteq Nat /\ Len(rest) \in drops
    BY <1>3
<1>5. d \in drops
    BY <1>4, MinIs
<1>6. d \in 0 .. Len(rest) /\ (d = Len(rest) \/ Len(rest) - d < MaxUnknown)
    BY <1>5
<1> HIDE DEF d
<1>7. InOrder(kept) /\ PartOf(kept, rest) /\ Len(kept) = Len(rest) - d
    BY <1>1, <1>6, NewestKeepOrder
<1> HIDE DEF kept
<1>8. \A n \in 1 .. Len(kept) : kept[n].value # v /\ \E m \in 1 .. Len(q) : kept[n] = q[m]
    BY <1>1, <1>7 DEF PartOf
<1>9. CASE MaxUnknown > 0
    <2>1. Len(kept) < MaxUnknown
        BY <1>3, <1>6, <1>7, <1>9
    <2>2. /\ InOrder(w)
          /\ \A n \in 1 .. Len(w) : w[n].value = v \/ \E m \in 1 .. Len(kept) : w[n] = kept[m]
        <3>1. w = Append(kept, [value |-> v, exp |-> now + TTL])
            BY <1>2, <1>9
        <3>2. \A n \in 1 .. Len(kept) : kept[n].value # v
            BY <1>8
        <3>3. /\ InOrder(Append(kept, [value |-> v, exp |-> now + TTL]))
              /\ \A n \in 1 .. Len(Append(kept, [value |-> v, exp |-> now + TTL])) :
                    \/ Append(kept, [value |-> v, exp |-> now + TTL])[n].value = v
                    \/ \E m \in 1 .. Len(kept) : Append(kept, [value |-> v, exp |-> now + TTL])[n] = kept[m]
            BY <1>7, <2>1, <3>2, NewestGoesLast
        <3> QED BY <3>1, <3>3
    <2> QED BY <1>8, <2>2 DEF w
<1>10. CASE ~(MaxUnknown > 0)
    BY <1>2, <1>7, <1>8, <1>10 DEF w
<1> QED BY <1>9, <1>10
-----------------------------------------------------------------------------
(***************************************************************************)
(* Who is refused.                                                         *)
(***************************************************************************)

Gone(v) == v \in Keys => record[v] = "revoked"

\* Only keys that were issued are used, asked for or shown, and a revocation has a date.
Issued ==
    /\ given \subseteq Keys
    /\ \A k \in given : record[k] # "none"
    /\ \A k \in Keys : record[k] = "revoked" => revokedAt[k] # None
    /\ \A m \in Managers : op[m].pc = "committed" /\ op[m].new # None => record[op[m].new] # "none"
    /\ \A r \in Requests : Waiting(r) /\ req[r].value \in Keys => record[req[r].value] # "none"

\* What the store did not find, and what an instance remembers as no key, is none.
Unfound ==
    /\ \A i \in Instances : InOrder(unknown[i]) /\ \A n \in 1 .. Len(unknown[i]) : Gone(unknown[i][n].value)
    /\ \A r \in Requests : req[r].pc = "read" /\ ~req[r].found => Gone(req[r].value)
    /\ ActiveNeverRefused

Refusals == Window /\ Issued /\ unknown \in [Instances -> Seq(Entry)] /\ Unfound

\* Every key's record moves one way, and only a commit moves it.
LEMMA RecordsMoveOn ==
    ASSUME Window, [Next]_vars
    PROVE  /\ UNCHANGED <<record, revokedAt>> \/ \E m \in Managers : Commit(m)
           /\ \A k \in Keys : /\ record[k] # "none" => record'[k] # "none"
                              /\ record[k] = "revoked" => record'[k] = "revoked" /\ revokedAt'[k] = revokedAt[k]
                              /\ record'[k] = "revoked" /\ record[k] # "revoked" => revokedAt'[k] = now
<1>1. ASSUME NEW m \in Managers, Commit(m), NEW k \in Keys
      PROVE  /\ record[k] # "none" => record'[k] # "none"
             /\ record[k] = "revoked" => record'[k] = "revoked" /\ revokedAt'[k] = revokedAt[k]
             /\ record'[k] = "revoked" /\ record[k] # "revoked" => revokedAt'[k] = now
    <2>1. op[m].new = k => record[k] = "none"
        BY <1>1, CacheAssumption DEF Commit, Window, OpOK
    <2> QED BY <1>1, <2>1 DEF Commit
<1>2. CASE ~\E m \in Managers : Commit(m)
    <2>1. UNCHANGED <<record, revokedAt>>
        BY <1>2 DEF Next, Resolving, Managing, Resolve, StoreReads, StoreAnswers, StoreFails, AskCreate,
                    AskRevoke, AskRotate, RotateRefused, Announce, OpTimesOut, NeverCommits, Restart, Tick, vars
    <2> QED BY <2>1
<1> QED BY <1>1, <1>2

\* A call stands committed because it did commit.
LEMMA WhoCommits ==
    ASSUME Window, [Next]_vars, NEW m \in Managers, op'[m].pc = "committed"
    PROVE  op'[m] = op[m] \/ (Commit(m) /\ op'[m] = [op[m] EXCEPT !.pc = "committed"])
<1>1. op \in [Managers -> OpType]
    BY DEF Window, Types
<1>2. NoOp.pc = "idle"
    BY DEF NoOp
<1>3. ASSUME NEW n \in Managers, Managing(n)
      PROVE  op'[m] = op[m] \/ (Commit(m) /\ op'[m] = [op[m] EXCEPT !.pc = "committed"])
    <2>1. CASE m # n
        BY <1>1, <1>3, <2>1 DEF Managing, AskCreate, AskRevoke, AskRotate, Commit, RotateRefused, Announce,
                                OpTimesOut, NeverCommits
    <2>2. CASE m = n /\ Commit(n)
        BY <1>1, <1>2, <2>2 DEF Commit
    <2>3. CASE m = n /\ (RotateRefused(n) \/ Announce(n) \/ NeverCommits(n))
        BY <1>1, <1>2, <2>3 DEF RotateRefused, Announce, NeverCommits
    <2>4. CASE m = n /\ OpTimesOut(n)
        <3>1. op'[m].pc \in {"late", "idle"}
            BY <1>1, <1>2, <2>4 DEF OpTimesOut, OpType
        <3> QED BY <3>1
    <2>5. CASE m = n /\ \E i \in Instances, k \in Keys :
                  AskCreate(n, i, k) \/ AskRevoke(n, i, k) \/ \E l \in Keys : AskRotate(n, i, k, l)
        <3>1. op'[m].pc = "sent"
            BY <1>1, <2>5 DEF AskCreate, AskRevoke, AskRotate
        <3> QED BY <3>1
    <2> QED BY <1>3, <2>1, <2>2, <2>3, <2>4, <2>5 DEF Managing
<1>4. ASSUME NEW i \in Instances, Restart(i) PROVE op'[m] = op[m]
    <2>1. \/ op'[m] = op[m]
          \/ op'[m] = [op[m] EXCEPT !.pc = "late"]
          \/ op'[m] = NoOp
        BY <1>4 DEF Restart
    <2>2. op[m] \in OpType
        BY <1>1
    <2>3. [op[m] EXCEPT !.pc = "late"].pc = "late"
        BY <2>2 DEF OpType
    <2> QED BY <1>2, <2>1, <2>3
<1> QED BY <1>3, <1>4 DEF Next, Resolving, Resolve, StoreReads, StoreAnswers, StoreFails, Tick, vars

\* A request waits for what it asked for, and asked for what it was given.
LEMMA WhoWaits ==
    ASSUME Window, [Next]_vars, NEW r \in Requests
    PROVE  \/ req'[r] = req[r]
           \/ req'[r] = NoRequest
           \/ \E i \in Instances, v \in Values : Resolve(r, i, v)
           \/ StoreReads(r) \/ StoreAnswers(r) \/ StoreFails(r)
<1>1. req \in [Requests -> RequestType]
    BY DEF Window, Types
<1>2. ASSUME NEW q \in Requests, Resolving(q), q # r PROVE req'[r] = req[r]
    BY <1>1, <1>2 DEF Resolving, Resolve, StoreReads, StoreAnswers, StoreFails
<1>3. ASSUME NEW m \in Managers, Managing(m) PROVE req' = req
    BY <1>3 DEF Managing, AskCreate, AskRevoke, AskRotate, Commit, RotateRefused, Announce, OpTimesOut, NeverCommits
<1>4. ASSUME NEW i \in Instances, Restart(i) PROVE req'[r] = req[r] \/ req'[r] = NoRequest
    BY <1>4 DEF Restart
<1> QED BY <1>2, <1>3, <1>4 DEF Next, Resolving, Tick, vars

LEMMA IssuedKept ==
    ASSUME Window, Issued, [Next]_vars
    PROVE  Issued'
<1>1. \A k \in Keys : record[k] # "none" => record'[k] # "none"
    BY RecordsMoveOn
<1>2. given' \subseteq Keys /\ \A k \in given' : record'[k] # "none"
    <2>1. CASE given' = given
        BY <1>1, <2>1 DEF Issued
    <2>2. ASSUME NEW m \in Managers, Announce(m) PROVE given' \subseteq Keys /\ \A k \in given' : record'[k] # "none"
        <3>1. op[m] \in OpType /\ op[m].pc = "committed" /\ record' = record
            BY <2>2 DEF Announce, Window, Types
        <3>2. given' = given \cup ({op[m].new} \ {None})
            BY <2>2 DEF Announce
        <3> QED BY <3>1, <3>2 DEF Issued, OpType
    <2> QED BY <2>1, <2>2 DEF Next, Resolving, Managing, Resolve, StoreReads, StoreAnswers, StoreFails,
                              AskCreate, AskRevoke, AskRotate, Commit, RotateRefused, OpTimesOut, NeverCommits,
                              Restart, Tick, vars
<1>3. \A k \in Keys : record'[k] = "revoked" => revokedAt'[k] # None
    <2>1. now # None
        BY CacheAssumption DEF Window, Types
    <2> QED BY <2>1, RecordsMoveOn DEF Issued
<1>4. ASSUME NEW m \in Managers, op'[m].pc = "committed", op'[m].new # None PROVE record'[op'[m].new] # "none"
    <2>1. op[m] \in OpType
        BY DEF Window, Types
    <2>2. CASE op'[m] = op[m]
        BY <1>1, <1>4, <2>1, <2>2 DEF Issued, OpType
    <2>3. CASE Commit(m) /\ op'[m] = [op[m] EXCEPT !.pc = "committed"]
        <3>1. op'[m].new = op[m].new /\ op[m].new \in Keys
            BY <1>4, <2>1, <2>3 DEF OpType
        <3>2. record'[op[m].new] = "active"
            BY <2>3, <3>1 DEF Commit
        <3> QED BY <3>1, <3>2
    <2> QED BY <1>4, <2>2, <2>3, WhoCommits
<1>5. ASSUME NEW r \in Requests, Waiting(r)', req'[r].value \in Keys PROVE record'[req'[r].value] # "none"
    <2>1. req[r] \in RequestType
        BY DEF Window, Types
    <2>2. CASE req'[r] = req[r]
        BY <1>1, <1>5, <2>2 DEF Issued, Waiting
    <2>3. CASE \E i \in Instances, v \in Values : Resolve(r, i, v)
        <3>1. PICK i \in Instances, v \in Values : Resolve(r, i, v)
            BY <2>3
        <3>2. req'[r].value = v /\ v \in given \cup Strangers
            BY <2>1, <3>1 DEF Resolve, Window, Types
        <3> QED BY <1>1, <1>5, <3>2, CacheAssumption DEF Issued
    <2>4. CASE StoreReads(r)
        <3>1. req'[r].value = req[r].value /\ Waiting(r)
            BY <2>1, <2>4 DEF StoreReads, Waiting, Window, Types, RequestType
        <3> QED BY <1>1, <1>5, <3>1 DEF Issued
    <2>5. CASE StoreAnswers(r) \/ StoreFails(r)
        <3>1. req'[r].pc \in {"served", "refused", "failed"}
            BY <2>1, <2>5 DEF StoreAnswers, StoreFails, Window, Types, RequestType
        <3> QED BY <1>5, <3>1 DEF Waiting
    <2>6. CASE req'[r] = NoRequest
        BY <1>5, <2>6 DEF Waiting, NoRequest
    <2> QED BY <2>2, <2>3, <2>4, <2>5, <2>6, WhoWaits
<1> QED BY <1>2, <1>3, <1>4, <1>5 DEF Issued

\* What a step does to what an instance remembers.
LEMMA WhoRemembers ==
    ASSUME Window, [Next]_vars, unknown \in [Instances -> Seq(Entry)], NEW i \in Instances
    PROVE  \/ unknown'[i] = unknown[i]
           \/ unknown'[i] = << >>
           \/ \E v : unknown'[i] = Without(unknown[i], v)
           \/ \E r \in Requests : /\ req[r].pc = "read" /\ ~req[r].found /\ now' = now
                                  /\ unknown'[i] = RememberUnknown(unknown[i], req[r].value, now + TTL)
<1>1. ASSUME NEW r \in Requests, StoreAnswers(r)
      PROVE  \/ unknown'[i] = unknown[i]
             \/ /\ req[r].pc = "read" /\ ~req[r].found /\ now' = now
                /\ unknown'[i] = RememberUnknown(unknown[i], req[r].value, now + TTL)
    BY <1>1 DEF StoreAnswers
<1>2. ASSUME NEW r \in Requests, Resolving(r), ~StoreAnswers(r)
      PROVE  unknown'[i] = unknown[i] \/ \E v : unknown'[i] = Without(unknown[i], v)
    BY <1>2 DEF Resolving, Resolve, DropExpired, StoreReads, StoreFails
<1>3. ASSUME NEW m \in Managers, Managing(m)
      PROVE  unknown'[i] = unknown[i] \/ \E v : unknown'[i] = Without(unknown[i], v)
    BY <1>3 DEF Managing, AskCreate, AskRevoke, AskRotate, Commit, RotateRefused, Announce, OpTimesOut, NeverCommits
<1>4. ASSUME NEW j \in Instances, Restart(j) PROVE unknown'[i] = unknown[i] \/ unknown'[i] = << >>
    BY <1>4 DEF Restart
<1> QED BY <1>1, <1>2, <1>3, <1>4 DEF Next, Tick, vars

\* Time does not disturb the order.
LEMMA OrderLasts ==
    ASSUME now \in Nat, now' \in {now, now + 1}, NEW q, InOrder(q)
    PROVE  InOrder(q)'
<1>1. TTL \in Nat
    BY CacheAssumption
<1>2. ASSUME NEW n \in 1 .. Len(q) PROVE q[n].exp <= now' + TTL
    <2>1. q \in Seq(Entry) /\ n \in DOMAIN q /\ q[n].exp <= now + TTL
        BY DEF InOrder
    <2>2. q[n] \in Entry
        BY <2>1
    <2>3. q[n].exp \in Nat
        BY <2>2 DEF Entry
    <2> QED BY <1>1, <2>1, <2>3
<1> QED BY <1>2 DEF InOrder

LEMMA NothingInOrder == InOrder(<< >>) /\ << >> \in Seq(Entry) /\ Len(<< >>) = 0
BY CacheAssumption DEF InOrder

LEMMA RememberedKept ==
    ASSUME Refusals, [Next]_vars, NEW i \in Instances
    PROVE  InOrder(unknown[i])' /\ \A n \in 1 .. Len(unknown'[i]) : Gone(unknown[i][n].value)'
<1> DEFINE q == unknown[i]
<1>1. /\ InOrder(q) /\ \A n \in 1 .. Len(q) : Gone(q[n].value)
      /\ now \in Nat /\ Window /\ unknown \in [Instances -> Seq(Entry)]
    BY DEF Refusals, Unfound, Window, Types
<1>2. now' \in {now, now + 1}
    <2>1. ASSUME NEW r \in Requests, Resolving(r) PROVE now' = now
        BY <2>1 DEF Resolving, Resolve, StoreReads, StoreAnswers, StoreFails
    <2>2. ASSUME NEW m \in Managers, Managing(m) PROVE now' = now
        BY <2>2 DEF Managing, AskCreate, AskRevoke, AskRotate, Commit, RotateRefused, Announce, OpTimesOut,
                    NeverCommits
    <2> QED BY <2>1, <2>2 DEF Next, Restart, Tick, vars
<1>3. ASSUME NEW v, Gone(v) PROVE v \in Keys => record'[v] = "revoked"
    BY <1>1, <1>3, RecordsMoveOn DEF Gone
<1> HIDE DEF q
<1>4. PICK w : w = unknown'[i]
    OBVIOUS
<1>5. InOrder(w) /\ \A n \in 1 .. Len(w) : Gone(w[n].value)
    <2>1. CASE w = q
        BY <1>1, <2>1
    <2>2. CASE w = << >>
        BY <2>2, NothingInOrder
    <2>3. ASSUME NEW v, w = Without(q, v) PROVE InOrder(w) /\ \A n \in 1 .. Len(w) : Gone(w[n].value)
        <3>1. InOrder(w) /\ PartOf(w, q)
            BY <1>1, <2>3, WithoutKeepsOrder
        <3> QED BY <1>1, <3>1 DEF PartOf
    <2>4. ASSUME NEW r \in Requests, req[r].pc = "read", ~req[r].found, w = RememberUnknown(q, req[r].value, now + TTL)
          PROVE  InOrder(w) /\ \A n \in 1 .. Len(w) : Gone(w[n].value)
        <3>1. req[r].value \in Values /\ Gone(req[r].value)
            BY <2>4 DEF Refusals, Unfound, Window, RequestOK
        <3>2. /\ InOrder(w)
              /\ \A n \in 1 .. Len(w) : w[n].value = req[r].value \/ \E m \in 1 .. Len(q) : w[n] = q[m]
            BY <1>1, <2>4, <3>1, RememberKeepsOrder
        <3> QED BY <1>1, <3>1, <3>2
    <2> QED BY <1>1, <1>4, <2>1, <2>2, <2>3, <2>4, WhoRemembers DEF q
<1>6. InOrder(w)'
    BY <1>1, <1>2, <1>5, OrderLasts
<1>7. InOrder(unknown[i])'
    BY <1>4, <1>6 DEF InOrder
<1>8. \A n \in 1 .. Len(w) : Gone(w[n].value)'
    BY <1>3, <1>5 DEF Gone
<1>9. ASSUME NEW n \in 1 .. Len(unknown'[i]) PROVE Gone(unknown[i][n].value)'
    BY <1>4, <1>8 DEF Gone
<1> QED BY <1>7, <1>9

LEMMA UnfoundKept ==
    ASSUME Refusals, [Next]_vars
    PROVE  Unfound'
<1>1. /\ Window /\ Window' /\ Issued
      /\ req \in [Requests -> RequestType] /\ now \in Nat /\ record \in [Keys -> {"none", "active", "revoked"}]
      /\ revokedAt \in [Keys -> Time]
    BY WindowKept DEF Refusals, Window, Types
<1>2. ASSUME NEW k \in Keys, record[k] = "revoked"
      PROVE  record'[k] = "revoked" /\ revokedAt'[k] = revokedAt[k] /\ revokedAt[k] <= now
    BY <1>1, <1>2, RecordsMoveOn DEF Window, RecordOK, Issued
<1>3. ASSUME NEW r \in Requests, req'[r].pc = "read", ~req'[r].found PROVE Gone(req[r].value)'
    <2>1. CASE req'[r] = req[r]
        BY <1>2, <1>3, <2>1 DEF Refusals, Unfound, Gone
    <2>2. CASE StoreReads(r)
        <3>1. /\ req'[r].value = req[r].value /\ UNCHANGED record /\ Waiting(r)
              /\ req'[r].found = (req[r].value \in Keys /\ record[req[r].value] = "active")
            BY <1>1, <2>2 DEF StoreReads, Waiting, RequestType
        <3> QED BY <1>1, <1>3, <3>1 DEF Gone, Issued
    <2>3. CASE StoreAnswers(r) \/ StoreFails(r)
        BY <1>1, <1>3, <2>3 DEF StoreAnswers, StoreFails, RequestType
    <2>4. CASE \E i \in Instances, v \in Values : Resolve(r, i, v)
        <3>1. req'[r].pc \in {"served", "refused", "asked"}
            BY <1>1, <2>4 DEF Resolve
        <3> QED BY <1>3, <3>1
    <2>5. CASE req'[r] = NoRequest
        BY <1>3, <2>5 DEF NoRequest
    <2> QED BY <1>1, <2>1, <2>2, <2>3, <2>4, <2>5, WhoWaits
<1>4. ASSUME NEW r \in Requests, req'[r].pc = "refused", req'[r].value \in Keys
      PROVE  record'[req'[r].value] = "revoked" /\ revokedAt'[req'[r].value] <= req'[r].at
    <2>1. CASE req'[r] = req[r]
        BY <1>2, <1>4, <2>1 DEF Refusals, Unfound, ActiveNeverRefused
    <2>2. CASE StoreReads(r) \/ StoreFails(r)
        BY <1>1, <1>4, <2>2 DEF StoreReads, StoreFails, RequestType
    <2>3. CASE StoreAnswers(r)
        <3>1. /\ req'[r].value = req[r].value /\ req'[r].at = now /\ req[r].pc = "read"
              /\ req'[r].pc = IF req[r].found THEN "served" ELSE "refused"
            BY <1>1, <2>3 DEF StoreAnswers, RequestType
        <3>2. Gone(req[r].value)
            BY <1>4, <3>1 DEF Refusals, Unfound
        <3> QED BY <1>2, <1>4, <3>1, <3>2 DEF Gone
    <2>4. CASE \E i \in Instances, v \in Values : Resolve(r, i, v)
        <3>1. PICK i \in Instances, v \in Values : Resolve(r, i, v)
            BY <2>4
        <3>2. /\ req'[r].value = v /\ req'[r].at = now
              /\ req'[r].pc = CASE KnownFresh(i, v) -> "served"
                                [] ~KnownFresh(i, v) /\ UnknownFresh(i, v) -> "refused"
                                [] OTHER -> "asked"
            BY <1>1, <3>1 DEF Resolve
        <3>3. UnknownFresh(i, v)
            BY <1>4, <3>2
        <3>4. PICK n \in DOMAIN unknown[i] : unknown[i][n].value = v
            BY <3>3 DEF UnknownFresh
        <3>5. DOMAIN unknown[i] = 1 .. Len(unknown[i])
            BY DEF Refusals
        <3>6. Gone(v)
            BY <3>4, <3>5 DEF Refusals, Unfound
        <3> QED BY <1>2, <1>4, <3>2, <3>6 DEF Gone
    <2>5. CASE req'[r] = NoRequest
        BY <1>4, <2>5 DEF NoRequest
    <2> QED BY <1>1, <2>1, <2>2, <2>3, <2>4, <2>5, WhoWaits
<1>5. ActiveNeverRefused'
    BY <1>4 DEF ActiveNeverRefused
<1> QED BY <1>3, <1>5, RememberedKept DEF Unfound

LEMMA RefusalsKept == Refusals /\ [Next]_vars => Refusals'
<1> SUFFICES ASSUME Refusals, [Next]_vars PROVE Refusals'
    OBVIOUS
<1>1. Window' /\ Issued' /\ Unfound'
    BY WindowKept, IssuedKept, UnfoundKept DEF Refusals
<1>2. unknown' \in [Instances -> Seq(Entry)]
    <2>1. \A i \in Instances : unknown'[i] \in Seq(Entry)
        BY <1>1 DEF Unfound, InOrder
    <2>2. unknown' = unknown \/ \E i, w : unknown' = [unknown EXCEPT ![i] = w]
        <3>1. ASSUME NEW r \in Requests, Resolving(r)
              PROVE  unknown' = unknown \/ \E i, w : unknown' = [unknown EXCEPT ![i] = w]
            <4>1. CASE StoreAnswers(r)
                BY <4>1 DEF StoreAnswers
            <4>2. CASE StoreReads(r) \/ StoreFails(r)
                BY <4>2 DEF StoreReads, StoreFails
            <4>3. ASSUME NEW i \in Instances, NEW v \in Values, Resolve(r, i, v)
                  PROVE  unknown' = unknown \/ \E j, w : unknown' = [unknown EXCEPT ![j] = w]
                BY <4>3 DEF Resolve, DropExpired
            <4> QED BY <3>1, <4>1, <4>2, <4>3 DEF Resolving
        <3>2. ASSUME NEW m \in Managers, Managing(m)
              PROVE  unknown' = unknown \/ \E i, w : unknown' = [unknown EXCEPT ![i] = w]
            <4>1. CASE Announce(m)
                BY <4>1 DEF Announce
            <4>2. CASE ~Announce(m)
                BY <3>2, <4>2 DEF Managing, AskCreate, AskRevoke, AskRotate, Commit, RotateRefused,
                                  OpTimesOut, NeverCommits
            <4> QED BY <4>1, <4>2
        <3>3. ASSUME NEW i \in Instances, Restart(i) PROVE \E j, w : unknown' = [unknown EXCEPT ![j] = w]
            BY <3>3 DEF Restart
        <3> QED BY <3>1, <3>2, <3>3 DEF Next, Tick, vars
    <2>3. unknown' = [i \in Instances |-> unknown'[i]]
        BY <2>2 DEF Refusals
    <2> QED BY <2>1, <2>3
<1> QED BY <1>1, <1>2 DEF Refusals

LEMMA RefusalsStart == Init => Refusals
<1> SUFFICES ASSUME Init PROVE Refusals
    OBVIOUS
<1>1. Issued
    BY DEF Init, Issued, NoOp, NoRequest, Waiting
<1>2. unknown \in [Instances -> Seq(Entry)] /\ \A i \in Instances : InOrder(unknown[i]) /\ Len(unknown[i]) = 0
    BY NothingInOrder DEF Init
<1>3. \A r \in Requests : req[r].pc = "idle"
    BY DEF Init, NoRequest
<1> QED BY <1>1, <1>2, <1>3, WindowStarts DEF Refusals, Unfound, ActiveNeverRefused

\* A key that was handed out and never revoked is refused by no instance, whatever the
\* store answers, however late, and whatever is remembered of it.
THEOREM ActiveIsServed == Spec => []ActiveNeverRefused
<1>1. Refusals => ActiveNeverRefused
    BY DEF Refusals, Unfound
<1> QED BY <1>1, RefusalsStart, RefusalsKept, PTL DEF Spec

\* What an instance remembers of values that are no key stays within its bound and in the
\* order in which it expires, for any bound and any lifetime.
THEOREM OrderHolds == Spec => []UnknownInOrder
<1>1. ASSUME Refusals PROVE UnknownInOrder
    <2>1. \A i \in Instances : DOMAIN unknown[i] = 1 .. Len(unknown[i])
        BY <1>1 DEF Refusals
    <2> QED BY <1>1, <2>1 DEF Refusals, Unfound, InOrder, UnknownInOrder
<1> QED BY <1>1, RefusalsStart, RefusalsKept, PTL DEF Spec

-----------------------------------------------------------------------------
(***************************************************************************)
(* What an announced revocation ends.                                      *)
(***************************************************************************)

\* The calls under way are about keys that were issued, and one that committed ended its.
CallOK(o) ==
    o.key # None => /\ o.pc \in {"sent", "late"} => record[o.key] # "none"
                    /\ o.pc = "committed" => record[o.key] = "revoked"

\* Instance i has nothing left that could serve k.
NothingLeft(i, k) ==
    /\ record[k] = "revoked"
    /\ known[i][k] = None
    /\ \A r \in Requests : req[r].pc = "read" /\ req[r].inst = i /\ req[r].value = k => ~req[r].found

Ended ==
    /\ Window
    /\ enforced \in [Instances -> SUBSET Keys] /\ raced \in [Instances -> SUBSET Keys]
    /\ \A m \in Managers : CallOK(op[m])
    /\ \A i \in Instances : \A k \in enforced[i] \ raced[i] : NothingLeft(i, k)

LEMMA EndedStarts == Init => Ended
<1> SUFFICES ASSUME Init PROVE Ended
    OBVIOUS
<1>1. \A m \in Managers : CallOK(op[m])
    BY DEF Init, NoOp, CallOK
<1>2. /\ enforced \in [Instances -> SUBSET Keys] /\ raced \in [Instances -> SUBSET Keys]
      /\ \A i \in Instances : enforced[i] = {}
    BY DEF Init
<1> QED BY <1>1, <1>2, WindowStarts DEF Ended

LEMMA CallsKept ==
    ASSUME Ended, [Next]_vars, NEW m \in Managers
    PROVE  CallOK(op[m])'
<1>1. op \in [Managers -> OpType] /\ op[m] \in OpType /\ CallOK(op[m]) /\ NoOp.key = None /\ Window
    BY DEF Ended, Window, Types, NoOp
<1>2. \A k \in Keys : /\ record[k] # "none" => record'[k] # "none"
                      /\ record[k] = "revoked" => record'[k] = "revoked"
    BY <1>1, RecordsMoveOn
<1>3. CASE op'[m] = op[m]
    BY <1>1, <1>2, <1>3 DEF CallOK, OpType
<1>4. CASE op'[m] = NoOp
    BY <1>1, <1>4 DEF CallOK
<1>5. CASE op[m].pc \in {"sent", "late"} /\ op'[m] = [op[m] EXCEPT !.pc = "late"]
    <2>1. op'[m].key = op[m].key /\ op'[m].pc = "late"
        BY <1>1, <1>5 DEF OpType
    <2> QED BY <1>1, <1>2, <1>5, <2>1 DEF CallOK, OpType
<1>6. CASE Commit(m)
    <2>1. op'[m] = IF op[m].pc = "sent" THEN [op[m] EXCEPT !.pc = "committed"] ELSE NoOp
        BY <1>1, <1>6 DEF Commit
    <2>2. ASSUME op[m].key # None, op[m].pc = "sent" PROVE record'[op[m].key] = "revoked"
        <3>1. op[m].key \in Keys /\ record[op[m].key] # "none"
            BY <1>1, <2>2 DEF OpType, CallOK
        <3>2. op[m].new # op[m].key
            BY <1>6, <2>2, <3>1 DEF Commit, Ended, Window, OpOK
        <3>3. record[op[m].key] \in {"active", "revoked"}
            BY <1>1, <3>1 DEF Window, Types
        <3> QED BY <1>6, <2>2, <3>1, <3>2, <3>3 DEF Commit
    <2>3. [op[m] EXCEPT !.pc = "committed"].key = op[m].key /\ [op[m] EXCEPT !.pc = "committed"].pc = "committed"
        BY <1>1 DEF OpType
    <2> QED BY <1>1, <2>1, <2>2, <2>3 DEF CallOK
<1>7. ASSUME NEW i \in Instances, NEW k \in Keys, NEW l \in Keys,
             AskCreate(m, i, k) \/ AskRevoke(m, i, k) \/ AskRotate(m, i, k, l)
      PROVE  CallOK(op[m])'
    <2>1. /\ op'[m].pc = "sent" /\ record' = record
          /\ op'[m].key = None \/ (op'[m].key = k /\ record[k] # "none")
        BY <1>1, <1>7 DEF AskCreate, AskRevoke, AskRotate
    <2> QED BY <2>1 DEF CallOK
<1>8. ASSUME NEW n \in Managers, Managing(n), n # m PROVE op'[m] = op[m]
    BY <1>1, <1>8 DEF Managing, AskCreate, AskRevoke, AskRotate, Commit, RotateRefused, Announce,
                      OpTimesOut, NeverCommits
<1>9. CASE RotateRefused(m) \/ Announce(m) \/ NeverCommits(m)
    BY <1>1, <1>4, <1>9 DEF RotateRefused, Announce, NeverCommits
<1>10. CASE OpTimesOut(m)
    BY <1>1, <1>4, <1>5, <1>10 DEF OpTimesOut
<1>11. ASSUME NEW i \in Instances, Restart(i) PROVE CallOK(op[m])'
    BY <1>3, <1>4, <1>5, <1>11 DEF Restart
<1>12. ASSUME Managing(m) PROVE CallOK(op[m])'
    BY <1>6, <1>7, <1>9, <1>10, <1>12 DEF Managing
<1> QED BY <1>3, <1>8, <1>11, <1>12 DEF Next, Resolving, Resolve, StoreReads, StoreAnswers, StoreFails, Tick, vars

\* A key with nothing left stays so: the store calls it revoked, so no read finds it.
LEMMA NothingComesBack ==
    ASSUME Window, [Next]_vars, NEW i \in Instances, NEW k \in Keys, NothingLeft(i, k)
    PROVE  NothingLeft(i, k)'
<1>1. /\ req \in [Requests -> RequestType] /\ known \in [Instances -> [Keys -> Time]]
    BY DEF Window, Types
<1>2. record'[k] = "revoked"
    BY RecordsMoveOn DEF NothingLeft
<1>3. known'[i][k] = None
    <2>1. ASSUME NEW r \in Requests, StoreAnswers(r) PROVE known'[i][k] = None
        <3>1. ~(req[r].found /\ req[r].inst = i /\ req[r].value = k)
            BY <2>1 DEF StoreAnswers, NothingLeft
        <3>2. known[i][k] = None
            BY DEF NothingLeft
        <3>3. CASE req[r].found
            <4>1. known' = [known EXCEPT ![req[r].inst][req[r].value] = now + TTL]
                BY <2>1, <3>3 DEF StoreAnswers
            <4> QED BY <1>1, <3>1, <3>2, <3>3, <4>1
        <3>4. CASE ~req[r].found
            BY <2>1, <3>2, <3>4 DEF StoreAnswers
        <3> QED BY <3>3, <3>4
    <2>2. ASSUME NEW r \in Requests, NEW j \in Instances, NEW v \in Values, Resolve(r, j, v) PROVE known'[i][k] = None
        <3>1. known' = known \/ known' = [known EXCEPT ![j][v] = None]
            BY <2>2 DEF Resolve, DropExpired
        <3> QED BY <1>1, <3>1 DEF NothingLeft
    <2>3. ASSUME NEW m \in Managers, Announce(m) PROVE known'[i][k] = None
        <3>1. known' = known \/ known' = [known EXCEPT ![op[m].inst][op[m].key] = None]
            BY <2>3 DEF Announce, Invalidated
        <3> QED BY <1>1, <3>1 DEF NothingLeft
    <2>4. ASSUME NEW j \in Instances, Restart(j) PROVE known'[i][k] = None
        BY <1>1, <2>4 DEF Restart, NothingLeft
    <2>5. CASE known' = known
        BY <2>5 DEF NothingLeft
    <2> QED BY <2>1, <2>2, <2>3, <2>4, <2>5 DEF Next, Resolving, StoreReads, StoreFails, Managing, AskCreate,
              AskRevoke, AskRotate, Commit, RotateRefused, OpTimesOut, NeverCommits, Tick, vars
<1>4. ASSUME NEW r \in Requests, req'[r].pc = "read", req'[r].inst = i, req'[r].value = k PROVE ~req'[r].found
    <2>1. CASE req'[r] = req[r]
        BY <1>4, <2>1 DEF NothingLeft
    <2>2. CASE StoreReads(r)
        <3>1. /\ req'[r].value = req[r].value
              /\ req'[r].found = (req[r].value \in Keys /\ record[req[r].value] = "active")
            BY <1>1, <2>2 DEF StoreReads, RequestType
        <3> QED BY <1>4, <3>1 DEF NothingLeft
    <2>3. CASE StoreAnswers(r) \/ StoreFails(r)
        BY <1>1, <1>4, <2>3 DEF StoreAnswers, StoreFails, RequestType
    <2>4. CASE \E j \in Instances, v \in Values : Resolve(r, j, v)
        <3>1. req'[r].pc \in {"served", "refused", "asked"}
            BY <1>1, <2>4 DEF Resolve
        <3> QED BY <1>4, <3>1
    <2>5. CASE req'[r] = NoRequest
        BY <1>4, <2>5 DEF NoRequest
    <2> QED BY <2>1, <2>2, <2>3, <2>4, <2>5, WhoWaits
<1> QED BY <1>2, <1>3, <1>4 DEF NothingLeft

\* The announcement itself leaves nothing, unless a request was reading the key.
LEMMA AnnouncementEnds ==
    ASSUME Ended, NEW m \in Managers, Announce(m), NEW i \in Instances, NEW k \in enforced'[i] \ raced'[i]
    PROVE  NothingLeft(i, k) \/ NothingLeft(i, k)'
<1>1. CASE op[m].key = None
    BY <1>1 DEF Announce, Ended
<1>2. CASE op[m].key # None
    <2> DEFINE o == op[m]
    <2>1. o \in OpType /\ o.key \in Keys /\ record[o.key] = "revoked"
        BY <1>2 DEF Announce, Ended, Window, Types, OpType, CallOK
    <2>2. /\ enforced' = [enforced EXCEPT ![o.inst] = @ \cup {o.key}]
          /\ raced' = [raced EXCEPT ![o.inst] = @ \cup {l \in {o.key} :
                 \E r \in Requests : Waiting(r) /\ req[r].inst = o.inst /\ req[r].value = l}]
          /\ known' = [known EXCEPT ![o.inst][o.key] = None] /\ UNCHANGED <<record, req>>
        BY <1>2 DEF Announce, Invalidated
    <2> HIDE DEF o
    <2>3. CASE k \in enforced[i]
        <3>1. k \notin raced[i]
            BY <2>2 DEF Ended
        <3> QED BY <2>3, <3>1 DEF Ended
    <2>4. CASE k \notin enforced[i]
        <3>1. i = o.inst /\ k = o.key
            BY <2>2, <2>4 DEF Ended
        <3>2. ~\E r \in Requests : Waiting(r) /\ req[r].inst = i /\ req[r].value = k
            BY <2>2, <3>1 DEF Ended
        <3>3. known'[i][k] = None
            BY <2>1, <2>2, <3>1 DEF Ended, Window, Types
        <3> QED BY <2>1, <2>2, <3>1, <3>2, <3>3 DEF NothingLeft, Waiting
    <2> QED BY <2>3, <2>4
<1> QED BY <1>1, <1>2

LEMMA EndedKept == Ended /\ [Next]_vars => Ended'
<1> SUFFICES ASSUME Ended, [Next]_vars PROVE Ended'
    OBVIOUS
<1>1. Window /\ Window'
    BY WindowKept DEF Ended
<1>2. UNCHANGED <<enforced, raced>> \/ \E m \in Managers : Announce(m)
    <2>1. ASSUME NEW r \in Requests, Resolving(r) PROVE UNCHANGED <<enforced, raced>>
        BY <2>1 DEF Resolving, Resolve, StoreReads, StoreAnswers, StoreFails
    <2>2. ASSUME NEW m \in Managers, Managing(m), ~Announce(m) PROVE UNCHANGED <<enforced, raced>>
        BY <2>2 DEF Managing, AskCreate, AskRevoke, AskRotate, Commit, RotateRefused, OpTimesOut, NeverCommits
    <2> QED BY <2>1, <2>2 DEF Next, Restart, Tick, vars
<1>3. enforced' \in [Instances -> SUBSET Keys] /\ raced' \in [Instances -> SUBSET Keys]
    <2>1. CASE UNCHANGED <<enforced, raced>>
        BY <2>1 DEF Ended
    <2>2. ASSUME NEW m \in Managers, Announce(m), op[m].key # None
          PROVE  enforced' \in [Instances -> SUBSET Keys] /\ raced' \in [Instances -> SUBSET Keys]
        <3>1. op[m].key \in Keys
            BY <2>2 DEF Ended, Window, Types, OpType
        <3>2. PICK s \in SUBSET {op[m].key} :
                  /\ enforced' = [enforced EXCEPT ![op[m].inst] = @ \cup {op[m].key}]
                  /\ raced' = [raced EXCEPT ![op[m].inst] = @ \cup s]
            BY <2>2 DEF Announce
        <3> QED BY <3>1, <3>2 DEF Ended
    <2>3. ASSUME NEW m \in Managers, Announce(m), op[m].key = None PROVE UNCHANGED <<enforced, raced>>
        BY <2>3 DEF Announce
    <2> QED BY <1>2, <2>1, <2>2, <2>3
<1>4. ASSUME NEW i \in Instances, NEW k \in enforced'[i] \ raced'[i] PROVE NothingLeft(i, k)'
    <2>1. k \in Keys
        BY <1>3
    <2>2. NothingLeft(i, k) \/ NothingLeft(i, k)'
        BY <1>2, AnnouncementEnds DEF Ended
    <2> QED BY <1>1, <2>1, <2>2, NothingComesBack
<1> QED BY <1>1, <1>3, <1>4, CallsKept DEF Ended

\* An instance that announced the end of a key serves it to no later request, unless one of
\* its own was reading that key when it did: whatever other instances, restarts and late
\* reads do.
THEOREM AnnouncedIsEnforced == Spec => EnforcedUnlessRaced
<1>1. ASSUME Ended, [Next]_vars
      PROVE  [\A r \in Requests :
                 Begins(r) /\ req'[r].pc = "served" =>
                     req'[r].value \notin enforced[req'[r].inst] \ raced[req'[r].inst]]_vars
    <2> SUFFICES ASSUME NEW r \in Requests, Begins(r), req'[r].pc = "served"
                 PROVE  req'[r].value \notin enforced[req'[r].inst] \ raced[req'[r].inst]
        OBVIOUS
    <2>1. /\ req'[r] # req[r] /\ req[r].pc \notin {"asked", "read"}
          /\ req \in [Requests -> RequestType] /\ Window
        BY <1>1 DEF Begins, Waiting, Ended, Window, Types
    <2>2. ~StoreReads(r) /\ ~StoreAnswers(r) /\ ~StoreFails(r) /\ req'[r] # NoRequest
        BY <2>1 DEF StoreReads, StoreAnswers, StoreFails, Waiting, NoRequest
    <2>3. PICK i \in Instances, v \in Values : Resolve(r, i, v)
        BY <1>1, <2>1, <2>2, WhoWaits
    <2>4. PICK pc : /\ pc = CASE KnownFresh(i, v) -> "served"
                             [] ~KnownFresh(i, v) /\ UnknownFresh(i, v) -> "refused"
                             [] OTHER -> "asked"
                    /\ req' = [req EXCEPT ![r] = [pc |-> pc, inst |-> i, value |-> v,
                                                  at |-> now, found |-> FALSE]]
        BY <2>3 DEF Resolve
    <2>5. req'[r].value = v /\ req'[r].inst = i /\ req'[r].pc = pc
        BY <2>1, <2>4
    <2>6. known[i][v] # None
        BY <2>4, <2>5 DEF KnownFresh, Fresh
    <2> QED BY <1>1, <2>5, <2>6 DEF Ended, NothingLeft
<1> QED BY <1>1, EndedStarts, EndedKept, PTL DEF Spec, EnforcedUnlessRaced
=============================================================================
