---------------------------- MODULE FlightProofs ----------------------------
(***************************************************************************)
(* Proofs about what is in flight: which transactions a ledger may still   *)
(* apply, and what the runs, the stores and the saved closes know of them. *)
(*                                                                         *)
(* A lookup that calls a transaction expired is right whenever the nodes   *)
(* remember long enough, however many runs and tabs there are.  The rest   *)
(* is about one tab in which one thing is done at a time: that is what the *)
(* code needs for it (two tabs, or a run that is left under way, break it).*)
(*                                                                         *)
(* The last part is about the plan: whose sequence number the hash is that *)
(* a page has, and what it has yet to learn when that is no longer so.     *)
(***************************************************************************)
EXTENDS CloseProofs

\* The nodes remember every transaction of the behaviour (Retention is days, and what
\* is looked up is hours old).
Remembers == MaxTime <= Retention

\* What landed did so in time.
Timely ==
    /\ ltime <= MaxTime
    /\ \A i \in Ids : Applied(i) => tx[i].at <= tx[i].until

\* A run that gave its transaction up as expired.
Lapsed(i) == ~Applied(i) /\ tx[i].until < ltime

LapsedOK(me) == me.pc \in {"list", "drop"} /\ me.outcome = "expired" => Lapsed(me.sub)

Expiry == Grounded /\ Timely /\ \A r \in Runs : LapsedOK(run[r])
-----------------------------------------------------------------------------
(***************************************************************************)
(* What a step does to the envelopes.                                      *)
(***************************************************************************)

LEMMA EnvelopesTyped ==
    ASSUME Grounded
    PROVE  /\ tx \in Seq(TxType) /\ Len(tx) \in Nat
           /\ \A i \in 1 .. Len(tx) : tx[i] \in TxType
           /\ open \in BOOLEAN /\ seqNum \in Nat /\ work \in Nat /\ ltime \in Nat
<1>1. tx \in Seq(TxType) /\ Len(tx) \in Nat
    BY LenIsNat
<1>2. \A i \in 1 .. Len(tx) : tx[i] \in TxType
    BY <1>1, ElementOfSeq
<1> QED BY <1>1, <1>2 DEF Grounded, TypeOK, LedgerTypeOK

\* The steps that touch them.
LEMMA WhoTouchesLedger ==
    ASSUME [Next]_vars
    PROVE  \/ UNCHANGED ledgerVars
           \/ Network
           \/ \E r \in Runs : KeepHash(r) \/ Send(r) \/ AnswerRefused(r)
<1>1. CASE Person
    BY <1>1 DEF Person, GateRead, Review, Leave, Crash, Start, StartRefused, AskCheck, AskGate,
                Dismiss
<1>2. ASSUME NEW r \in Runs, Engine(r), ~KeepHash(r), ~Send(r), ~AnswerRefused(r)
      PROVE  UNCHANGED ledgerVars
    <2>1. CASE Answered(r) \/ ReadRecorded(r) \/ EnsureSession(r) \/ EnsureFails(r)
               \/ SettleLeftOver(r)
        BY <2>1 DEF Answered, ReadRecorded, EnsureSession, EnsureFails, SettleLeftOver, GiveUp, Clear
    <2>2. CASE Fetching(r)
        BY <2>2 DEF Fetching, FetchRound, FetchStateChanged, FetchAccountNotFound,
                    MergeExplainsMissingAccount, FetchFails, OnlyRun
    <2>3. CASE Submitting(r)
        BY <1>2, <2>3 DEF Submitting, Sign, SignShort, SignFails, KeepSession, NotKept, HoldInStore,
                    SendNotOwner, AnswerConfirmed, AnswerUnknown, LookUp, OnlyRun, Clear, GiveUp
    <2>4. CASE Clearing(r)
        BY <2>4 DEF Clearing, ListHeld, DropHeld, DropFails, LeftOverGone, LeftOverConfirmed,
                    TxNotConfirmed, TxConfirmed, Checked, GateChecked, OnlyRun
    <2> QED BY <1>2, <2>1, <2>2, <2>3, <2>4 DEF Engine
<1> QED BY <1>1, <1>2 DEF Next, vars

\* No envelope is forgotten and none changes its terms.
Follows(T, U) ==
    /\ Len(T) <= Len(U)
    /\ \A i \in 1 .. Len(T) : U[i].seq = T[i].seq /\ U[i].until = T[i].until /\ U[i].merge = T[i].merge

\* Between two fates that no ledger gave.
Waiting(T, i) == T[i].fate \in {"kept", "sent"}

LEMMA FateReplaced ==
    ASSUME Grounded, NEW i \in 1 .. Len(tx), NEW f,
           tx' = [tx EXCEPT ![i].fate = f]
    PROVE  /\ Len(tx') = Len(tx) /\ Follows(tx, tx')
           /\ tx'[i].fate = f /\ tx'[i].at = tx[i].at
           /\ \A j \in 1 .. Len(tx) : j # i => tx'[j] = tx[j]
<1>1. tx \in Seq(TxType) /\ tx[i] \in TxType /\ Len(tx) \in Nat
    BY EnvelopesTyped
<1>2. Len(tx') = Len(tx) /\ \A j \in 1 .. Len(tx) : tx'[j] = IF j = i THEN [tx[i] EXCEPT !.fate = f] ELSE tx[j]
    BY <1>1
<1>3. /\ [tx[i] EXCEPT !.fate = f].fate = f
      /\ [tx[i] EXCEPT !.fate = f].seq = tx[i].seq
      /\ [tx[i] EXCEPT !.fate = f].until = tx[i].until
      /\ [tx[i] EXCEPT !.fate = f].merge = tx[i].merge
      /\ [tx[i] EXCEPT !.fate = f].at = tx[i].at
    BY <1>1 DEF TxType
<1> QED BY <1>1, <1>2, <1>3 DEF Follows

LEMMA KeepHashAppends ==
    ASSUME Grounded, NEW r \in Runs, KeepHash(r)
    PROVE  /\ Len(tx') = Len(tx) + 1 /\ Follows(tx, tx')
           /\ tx'[Len(tx) + 1].fate = "kept"
           /\ \A j \in 1 .. Len(tx) : tx'[j] = tx[j]
           /\ UNCHANGED <<open, seqNum, work, ltime, disturbed>>
<1>1. tx \in Seq(TxType) /\ Len(tx) \in Nat
    BY EnvelopesTyped
<1>2. tx' = Append(tx, NewTx(r)) /\ NewTx(r).fate = "kept"
    BY DEF KeepHash, NewTx
<1>3. /\ Len(tx') = Len(tx) + 1 /\ tx'[Len(tx) + 1] = NewTx(r)
      /\ \A j \in 1 .. Len(tx) : tx'[j] = tx[j]
    BY <1>1, <1>2
<1> QED BY <1>1, <1>2, <1>3 DEF Follows, KeepHash

LEMMA SendFate ==
    ASSUME Grounded, NEW r \in Runs, Send(r)
    PROVE  /\ run[r].sub \in 1 .. Len(tx)
           /\ tx' = [tx EXCEPT ![run[r].sub].fate =
                        IF tx[run[r].sub].fate = "kept" THEN "sent" ELSE tx[run[r].sub].fate]
           /\ UNCHANGED <<open, seqNum, work, ltime, disturbed>>
<1>1. run[r].sub \in 1 .. Len(tx)
    BY RunIsOK DEF Send, At, RunOK, Settling, Names
<1> QED BY <1>1, EnvelopesTyped DEF Send

LEMMA RefusedFate ==
    ASSUME Grounded, NEW r \in Runs, AnswerRefused(r)
    PROVE  /\ run[r].sub \in 1 .. Len(tx)
           /\ UNCHANGED <<open, seqNum, work, ltime, disturbed>>
           /\ \/ tx' = tx
              \/ /\ run[r].attempt = 0
                 /\ tx' = [tx EXCEPT ![run[r].sub].fate =
                            IF tx[run[r].sub].fate = "sent" THEN "kept" ELSE tx[run[r].sub].fate]
<1>1. run[r].sub \in 1 .. Len(tx)
    BY RunIsOK DEF AnswerRefused, At, RunOK, Settling, Names
<1> QED BY <1>1, EnvelopesTyped DEF AnswerRefused

LEMMA LandFate ==
    ASSUME Grounded, NEW i \in Ids, Land(i)
    PROVE  /\ CanLand(i) /\ tx[i].seq = seqNum + 1 /\ seqNum' = seqNum + 1
           /\ UNCHANGED <<ltime, disturbed>> /\ (open' => open)
           /\ Len(tx') = Len(tx) /\ Follows(tx, tx')
           /\ tx'[i].fate \in {"success", "failed"} /\ tx'[i].at = ltime
           /\ \A j \in 1 .. Len(tx) : j # i => tx'[j] = tx[j]
<1> DEFINE good == IF tx[i].merge THEN work = 0 ELSE work > 0
           e == [tx[i] EXCEPT !.fate = IF good THEN "success" ELSE "failed", !.at = ltime]
<1>1. tx \in Seq(TxType) /\ tx[i] \in TxType /\ Len(tx) \in Nat /\ i \in 1 .. Len(tx)
    BY EnvelopesTyped DEF Ids
<1>2. tx' = [tx EXCEPT ![i] = e]
    BY <1>1 DEF Land
<1>3. /\ e.fate \in {"success", "failed"} /\ e.at = ltime
      /\ e.seq = tx[i].seq /\ e.until = tx[i].until /\ e.merge = tx[i].merge
    BY <1>1 DEF TxType
<1>4. open
    BY DEF Land, CanLand, Spent
<1> HIDE DEF e
<1>5. Len(tx') = Len(tx) /\ \A j \in 1 .. Len(tx) : tx'[j] = IF j = i THEN e ELSE tx[j]
    BY <1>1, <1>2
<1> QED BY <1>1, <1>3, <1>4, <1>5 DEF Follows, Land

\* One step of the envelopes and of what decides whether they can land.
LEMMA LedgerStep ==
    ASSUME Grounded, [Next]_vars
    PROVE  /\ Follows(tx, tx') /\ Len(tx') \in Nat
           /\ seqNum <= seqNum' /\ seqNum' \in Nat /\ (open' => open)
           /\ ltime <= ltime' /\ ltime' \in Nat /\ (ltime <= MaxTime => ltime' <= MaxTime)
           /\ \A i \in 1 .. Len(tx) :
                 \/ tx'[i] = tx[i]
                 \/ CanLand(i) /\ tx'[i].fate \in {"success", "failed"} /\ tx'[i].at = ltime
                 \/ Waiting(tx, i) /\ Waiting(tx', i)
           /\ \A i \in (1 .. Len(tx')) \ (1 .. Len(tx)) : tx'[i].fate = "kept"
<1>0. /\ tx \in Seq(TxType) /\ Len(tx) \in Nat /\ (\A i \in 1 .. Len(tx) : tx[i] \in TxType)
      /\ seqNum \in Nat /\ ltime \in Nat
    BY EnvelopesTyped
<1>1. CASE UNCHANGED ledgerVars
    BY <1>0, <1>1 DEF ledgerVars, Follows
<1>2. CASE Disturb \/ Tick
    BY <1>0, <1>2, LedgerAssumption DEF Disturb, Tick, Follows
<1>3. CASE \E i \in Ids : Land(i)
    <2>1. PICK i \in Ids : Land(i)
        BY <1>3
    <2>2. /\ CanLand(i) /\ seqNum' = seqNum + 1 /\ UNCHANGED ltime /\ (open' => open)
          /\ Len(tx') = Len(tx) /\ Follows(tx, tx')
          /\ tx'[i].fate \in {"success", "failed"} /\ tx'[i].at = ltime
          /\ \A j \in 1 .. Len(tx) : j # i => tx'[j] = tx[j]
        BY <2>1, LandFate
    <2> QED BY <1>0, <2>2
<1>4. CASE \E r \in Runs : KeepHash(r)
    <2>1. PICK r \in Runs : KeepHash(r)
        BY <1>4
    <2>2. /\ Len(tx') = Len(tx) + 1 /\ Follows(tx, tx') /\ tx'[Len(tx) + 1].fate = "kept"
          /\ (\A j \in 1 .. Len(tx) : tx'[j] = tx[j]) /\ UNCHANGED <<open, seqNum, ltime>>
        BY <2>1, KeepHashAppends
    <2> QED BY <1>0, <2>2
<1>5. CASE \E r \in Runs : Send(r) \/ AnswerRefused(r)
    <2>1. PICK r \in Runs : Send(r) \/ AnswerRefused(r)
        BY <1>5
    <2> DEFINE i == run[r].sub
    <2>2. /\ i \in 1 .. Len(tx) /\ UNCHANGED <<open, seqNum, ltime>>
          /\ \/ tx' = tx
             \/ \E f : tx' = [tx EXCEPT ![i].fate = f] /\ (f = tx[i].fate \/ (Waiting(tx, i) /\ f \in {"kept", "sent"}))
        BY <2>1, SendFate, RefusedFate DEF Waiting
    <2> HIDE DEF i
    <2>3. CASE tx' = tx
        BY <1>0, <2>2, <2>3 DEF Follows
    <2>4. ASSUME NEW f, tx' = [tx EXCEPT ![i].fate = f],
                 f = tx[i].fate \/ (Waiting(tx, i) /\ f \in {"kept", "sent"})
          PROVE  /\ Len(tx') = Len(tx) /\ Follows(tx, tx')
                 /\ \A j \in 1 .. Len(tx) : tx'[j] = tx[j] \/ (Waiting(tx, j) /\ Waiting(tx', j))
        <3>1. /\ Len(tx') = Len(tx) /\ Follows(tx, tx') /\ tx'[i].fate = f
              /\ \A j \in 1 .. Len(tx) : j # i => tx'[j] = tx[j]
            BY <2>2, <2>4, FateReplaced
        <3>2. CASE f = tx[i].fate
            <4>1. tx[i] \in TxType
                BY <1>0, <2>2
            <4>2. [tx[i] EXCEPT !.fate = tx[i].fate] = tx[i]
                BY <4>1 DEF TxType
            <4>3. tx' = tx
                BY <1>0, <2>2, <2>4, <3>2, <4>2
            <4> QED BY <3>1, <4>3
        <3>3. CASE Waiting(tx, i) /\ f \in {"kept", "sent"}
            BY <3>1, <3>3 DEF Waiting
        <3> QED BY <2>4, <3>2, <3>3
    <2>5. /\ Len(tx') = Len(tx) /\ Follows(tx, tx')
          /\ \A j \in 1 .. Len(tx) : tx'[j] = tx[j] \/ (Waiting(tx, j) /\ Waiting(tx', j))
        BY <1>0, <2>2, <2>3, <2>4
    <2> QED BY <1>0, <2>2, <2>5
<1> QED BY <1>1, <1>2, <1>3, <1>4, <1>5, WhoTouchesLedger DEF Network
-----------------------------------------------------------------------------
(***************************************************************************)
(* Expiry: what a lookup gives up never ran, and never will.               *)
(***************************************************************************)

LEMMA ExpiredIsLapsed ==
    ASSUME Remembers, Grounded, Timely, NEW i \in 1 .. Len(tx), "expired" \in Resolution(i)
    PROVE  Lapsed(i)
<1>1. PICK latest \in 0 .. ltime, now \in 0 .. MaxTime :
          ~Seen(i, latest) /\ MinOf(now, latest) > tx[i].until + Margin
    BY DEF Resolution
<1>2. tx[i].until \in Nat /\ tx[i].at \in Nat /\ ltime \in Nat
    BY EnvelopesTyped DEF TxType
<1>3. latest > tx[i].until
    BY <1>1, <1>2, LedgerAssumption DEF MinOf
<1>4. ASSUME Applied(i) PROVE FALSE
    <2>1. tx[i].at <= tx[i].until
        BY <1>4 DEF Timely, Ids
    <2>2. latest - Retention <= 0
        BY <1>2, LedgerAssumption DEF Timely, Remembers
    <2> QED BY <1>1, <1>2, <1>3, <1>4, <2>1, <2>2, LedgerAssumption DEF Seen
<1> QED BY <1>2, <1>3, <1>4 DEF Lapsed

LEMMA LapsedStays ==
    ASSUME Grounded, [Next]_vars, NEW i \in 1 .. Len(tx), Lapsed(i)
    PROVE  Lapsed(i)'
<1>1. tx[i] \in TxType /\ ltime \in Nat /\ Len(tx) \in Nat
    BY EnvelopesTyped
<1>2. /\ tx'[i].until = tx[i].until /\ ltime <= ltime' /\ ltime' \in Nat
      /\ tx'[i] = tx[i] \/ CanLand(i) \/ (Waiting(tx, i) /\ Waiting(tx', i))
    BY LedgerStep DEF Follows
<1>3. ~CanLand(i)
    BY DEF Lapsed, CanLand, Spent
<1>4. tx'[i].until < ltime'
    BY <1>1, <1>2 DEF Lapsed, TxType
<1>5. ~Applied(i)'
    BY <1>2, <1>3 DEF Lapsed, Applied, Waiting
<1> QED BY <1>4, <1>5 DEF Lapsed

LEMMA TimelyStays ==
    ASSUME Grounded, Timely, [Next]_vars
    PROVE  Timely'
<1>1. /\ Len(tx) \in Nat /\ (\A i \in 1 .. Len(tx) : tx[i] \in TxType) /\ ltime \in Nat
    BY EnvelopesTyped
<1>2. ltime' <= MaxTime
    BY LedgerStep DEF Timely
<1>3. ASSUME NEW i \in 1 .. Len(tx'), Applied(i)'
      PROVE  tx'[i].at <= tx'[i].until
    <2>1. CASE i \notin 1 .. Len(tx)
        BY <1>3, <2>1, LedgerStep DEF Applied
    <2>2. CASE i \in 1 .. Len(tx)
        <3>1. /\ tx'[i].until = tx[i].until
              /\ \/ tx'[i] = tx[i]
                 \/ CanLand(i) /\ tx'[i].at = ltime
                 \/ Waiting(tx', i)
            BY <2>2, LedgerStep DEF Follows
        <3>2. CASE tx'[i] = tx[i]
            BY <1>3, <2>2, <3>2 DEF Timely, Ids, Applied
        <3>3. CASE CanLand(i) /\ tx'[i].at = ltime
            BY <1>1, <2>2, <3>1, <3>3 DEF CanLand, Spent, TxType
        <3>4. CASE Waiting(tx', i)
            BY <1>3, <3>4 DEF Waiting, Applied
        <3> QED BY <3>1, <3>2, <3>3, <3>4
    <2> QED BY <2>1, <2>2
<1> QED BY <1>2, <1>3 DEF Timely, Ids

\* How a run comes to clear a hash as expired: it did so already, or a lookup said so.
GivenUp(me, you) ==
    you.pc \in {"list", "drop"} /\ you.outcome = "expired" =>
        /\ you.sub = me.sub
        /\ \/ me.pc \in {"list", "drop"} /\ me.outcome = "expired"
           \/ Settling(me) /\ "expired" \in Resolution(me.sub)

LEMMA EndedGivesUpNothing ==
    ASSUME Grounded, NEW r \in Runs, NEW cause, NEW it, NEW m, Ended(r, cause, it, m)
    PROVE  \A q \in Runs : GivenUp(run[q], run'[q])
<1>1. run \in [Runs -> RunType]
    BY RunIsOK
<1>2. run'[r].pc = "idle" /\ \A q \in Runs : q # r => run'[q] = run[q]
    BY <1>1 DEF Ended, Idle
<1> QED BY <1>2 DEF GivenUp

LEMMA EndGivesUpNothing ==
    ASSUME Grounded, NEW r \in Runs, NEW cause, End(r, cause)
    PROVE  \A q \in Runs : GivenUp(run[q], run'[q])
BY EndedGivesUpNothing DEF End

LEMMA BeginGivesUpNothing ==
    ASSUME NEW me, me \in RunType, NEW hash
    PROVE  Begin(me, hash).pc \in {"sign", "fetch"}
BY DEF Begin, RunType

LEMMA WhoGivesUp ==
    ASSUME Grounded, [Next]_vars
    PROVE  \A q \in Runs : GivenUp(run[q], run'[q])
<1>0. run \in [Runs -> RunType]
    BY DEF Grounded, TypeOK
<1>1. CASE UNCHANGED run
    BY <1>1 DEF GivenUp
<1>2. CASE Person
    <2>1. CASE \E t \in Tabs : Leave(t) \/ Crash(t)
        <3>1. PICK t \in Tabs : Leave(t) \/ Crash(t)
            BY <2>1
        <3> SUFFICES ASSUME NEW q \in Runs PROVE GivenUp(run[q], run'[q])
            OBVIOUS
        <3>2. CASE Leave(t)
            <4>1. \/ run'[q] = run[q]
                  \/ run'[q] = Idle
                  \/ run'[q] = [run[q] EXCEPT !.mine = FALSE]
                BY <3>2 DEF Leave
            <4>2. run[q] \in RunType /\ Idle.pc = "idle"
                BY <1>0 DEF Idle
            <4>3. CASE run'[q] = [run[q] EXCEPT !.mine = FALSE]
                <5>1. run'[q].pc = run[q].pc /\ run'[q].outcome = run[q].outcome /\ run'[q].sub = run[q].sub
                    BY <4>2, <4>3 DEF RunType
                <5> QED BY <5>1 DEF GivenUp
            <4> QED BY <4>1, <4>2, <4>3 DEF GivenUp
        <3>3. CASE Crash(t)
            <4>1. run'[q] = run[q] \/ run'[q] = Idle
                BY <1>0, <3>3 DEF Crash
            <4>2. Idle.pc = "idle"
                BY DEF Idle
            <4> QED BY <4>1, <4>2 DEF GivenUp
        <3> QED BY <3>1, <3>2, <3>3
    <2>2. CASE \E r \in Runs : Start(r) \/ StartRefused(r)
        <3>1. PICK r \in Runs : Start(r) \/ StartRefused(r)
            BY <2>2
        <3>2. CASE Start(r)
            <4>1. run'[r].pc \notin {"list", "drop"} /\ \A q \in Runs : q # r => run'[q] = run[q]
                BY <1>0, <3>2 DEF Start, Idle
            <4> QED BY <4>1 DEF GivenUp
        <3>3. CASE StartRefused(r)
            <4>1. run'[r].pc \notin {"list", "drop"} /\ \A q \in Runs : q # r => run'[q] = run[q]
                BY <1>0, <3>3 DEF StartRefused, Idle
            <4> QED BY <4>1 DEF GivenUp
        <3> QED BY <3>1, <3>2, <3>3
    <2>3. CASE \E r \in Runs : AskCheck(r) \/ AskGate(r)
        <3>1. PICK r \in Runs : AskCheck(r) \/ AskGate(r)
            BY <2>3
        <3>2. \E who, i, s : Ask(r, who, i, s)
            BY <3>1 DEF AskCheck, AskGate
        <3>3. run'[r].pc = "asked" /\ \A q \in Runs : q # r => run'[q] = run[q]
            BY <1>0, <3>2 DEF Ask, Idle
        <3> QED BY <3>3 DEF GivenUp
    <2> QED BY <1>1, <1>2, <2>1, <2>2, <2>3 DEF Person, GateRead, Review, Dismiss
<1>3. ASSUME NEW r \in Runs, Engine(r) PROVE \A q \in Runs : GivenUp(run[q], run'[q])
    <2>1. CASE Answered(r)
        <3>1. PICK o \in Resolution(run[r].sub) :
                  \/ run' = [run EXCEPT ![r] = Idle]
                  \/ run' = [run EXCEPT ![r].pc = "list", ![r].outcome = o]
            BY <2>1 DEF Answered
        <3>2. /\ \A q \in Runs : q # r => run'[q] = run[q]
              /\ run[r].pc = "asked"
              /\ run'[r].pc = "idle" \/ (run'[r].sub = run[r].sub /\ run'[r].outcome = o)
            BY <1>0, <2>1, <3>1 DEF Answered, At, Idle, RunType
        <3> QED BY <3>1, <3>2 DEF GivenUp, Settling
    <2>2. CASE ReadRecorded(r)
        BY <1>0, <2>2 DEF ReadRecorded, GivenUp, RunType
    <2>3. CASE EnsureSession(r)
        <3> DEFINE mine == [run[r] EXCEPT !.rec = IF Owns(r) THEN SessionOf[r] ELSE NoSession]
                   left == [mine EXCEPT !.pc = "left", !.sub = tab[TabOf[r]].held,
                                        !.hash = IF mine.paused THEN NoPlan ELSE tab[TabOf[r]].plan]
        <3>0. run[r] \in RunType /\ SessionOf[r] \in Sessions
            BY <1>0, EngineAssumption
        <3>1. mine \in RunType
            BY <3>0 DEF RunType
        <3>2. run' = [run EXCEPT ![r] = IF tab[TabOf[r]].held = 0
                                          THEN Begin(mine, tab[TabOf[r]].plan) ELSE left]
            BY <1>0, <2>3 DEF EnsureSession
        <3>3. Begin(mine, tab[TabOf[r]].plan).pc \in {"sign", "fetch"} /\ left.pc = "left"
            BY <3>1, BeginGivesUpNothing DEF RunType
        <3> HIDE DEF mine, left
        <3>4. run'[r].pc \notin {"list", "drop"} /\ \A q \in Runs : q # r => run'[q] = run[q]
            BY <1>0, <3>2, <3>3
        <3> QED BY <3>4 DEF GivenUp
    <2>4. CASE EnsureFails(r)
        BY <2>4, EndGivesUpNothing DEF EnsureFails
    <2>5. CASE SettleLeftOver(r)
        <3>1. CASE GiveUp(r)
            BY <3>1, EndGivesUpNothing DEF GiveUp
        <3>2. CASE \E o \in Resolution(run[r].sub) : Clear(r, "left", o)
            BY <1>0, <2>5, <3>2 DEF SettleLeftOver, At, Clear, ClearHold, GivenUp, Settling, RunType
        <3> QED BY <2>5, <3>1, <3>2 DEF SettleLeftOver
    <2>6. CASE Fetching(r)
        <3>1. CASE FetchRound(r)
            BY <1>0, <3>1 DEF FetchRound, GivenUp, RunType
        <3>2. CASE \E cause : End(r, cause)
            BY <3>2, EndGivesUpNothing
        <3>3. CASE At(r, "fetch") /\ (run' = [run EXCEPT ![r].attempt = @ + 1] \/ run' = [run EXCEPT ![r].pc = "explain"])
            <4>0. run[r].pc = "fetch" /\ run[r] \in RunType
                BY <1>0, <3>3 DEF At
            <4>1. run'[r].pc \in {"fetch", "explain"} /\ \A q \in Runs : q # r => run'[q] = run[q]
                BY <1>0, <4>0, <3>3 DEF RunType
            <4> QED BY <4>1 DEF GivenUp
        <3> QED BY <2>6, <3>1, <3>2, <3>3 DEF Fetching, FetchStateChanged, FetchAccountNotFound,
                    MergeExplainsMissingAccount, FetchFails
    <2>7. CASE Submitting(r)
        <3>1. CASE Sign(r) \/ KeepSession(r) \/ KeepHash(r) \/ HoldInStore(r)
            <4>1. run'[r].pc \in {"keep", "save", "saved", "send"} /\ \A q \in Runs : q # r => run'[q] = run[q]
                BY <1>0, <3>1 DEF Sign, KeepSession, KeepHash, HoldInStore, RunType
            <4> QED BY <4>1 DEF GivenUp
        <3>2. CASE Send(r) \/ SendNotOwner(r) \/ AnswerUnknown(r)
            <4>1. run'[r].pc \in {"answer", "lookup", "send"} /\ \A q \in Runs : q # r => run'[q] = run[q]
                BY <1>0, <3>2 DEF Send, SendNotOwner, AnswerUnknown, RunType
            <4> QED BY <4>1 DEF GivenUp
        <3>3. CASE \E cause : End(r, cause)
            BY <3>3, EndGivesUpNothing
        <3>4. CASE AnswerConfirmed(r) \/ AnswerRefused(r)
            <4>1. /\ run'[r].pc = "lookup" \/ run'[r].outcome \in {"confirmed", "refused"}
                  /\ \A q \in Runs : q # r => run'[q] = run[q]
                BY <1>0, <3>4 DEF AnswerConfirmed, AnswerRefused, Clear, ClearHold, RunType
            <4> QED BY <4>1 DEF GivenUp
        <3>5. CASE LookUp(r)
            <4>1. CASE \E o \in {"confirmed", "failed"} : Clear(r, "tx", o)
                BY <1>0, <4>1 DEF Clear, ClearHold, GivenUp, RunType
            <4> QED BY <3>3, <3>5, <4>1 DEF LookUp, GiveUp
        <3> QED BY <2>7, <3>1, <3>2, <3>3, <3>4, <3>5 DEF Submitting, SignShort, SignFails, NotKept
    <2>8. CASE Clearing(r)
        <3>1. CASE ListHeld(r) \/ DropHeld(r) \/ DropFails(r)
            <4>1. /\ run[r].pc \in {"list", "drop"} /\ run'[r].outcome = run[r].outcome
                  /\ run'[r].sub = run[r].sub
                <5>1. CASE ListHeld(r)
                    BY <1>0, <5>1 DEF ListHeld, At, RunType
                <5>2. CASE DropHeld(r)
                    BY <1>0, <5>2 DEF DropHeld, At, RunType
                <5>3. CASE DropFails(r)
                    BY <1>0, <5>3 DEF DropFails, RunType
                <5> QED BY <3>1, <5>1, <5>2, <5>3
            <4>2. \A q \in Runs : q # r => run'[q] = run[q]
                BY <1>0, <3>1 DEF ListHeld, DropHeld, DropFails
            <4> QED BY <4>1, <4>2 DEF GivenUp
        <3>2. CASE \E cause, it, m : Ended(r, cause, it, m)
            BY <3>2, EndedGivesUpNothing
        <3>3. CASE \E hash : run' = [run EXCEPT ![r] = Begin(@, hash)]
            <4>1. PICK hash : run' = [run EXCEPT ![r] = Begin(run[r], hash)]
                BY <1>0, <3>3
            <4>2. Begin(run[r], hash).pc \in {"sign", "fetch"}
                BY <1>0, BeginGivesUpNothing
            <4> QED BY <1>0, <4>1, <4>2 DEF GivenUp
        <3>4. CASE run' = [run EXCEPT ![r] = Idle]
            BY <1>0, <3>4 DEF Idle, GivenUp
        <3>5. ASSUME NEW you, you.pc \in {"sign", "fetch"}, run' = [run EXCEPT ![r] = you]
              PROVE  \A q \in Runs : GivenUp(run[q], run'[q])
            BY <1>0, <3>5 DEF GivenUp
        <3>6. CASE TxConfirmed(r)
            <4> DEFINE m == IF tx[run[r].sub].merge THEN run[r].sub ELSE run[r].merge
                       after == [run[r] EXCEPT !.queue = Tail(run[r].queue), !.merge = m, !.hash = NoPlan,
                                               !.sub = 0, !.attempt = 0, !.paused = FALSE]
                       next == [after EXCEPT !.pc = "sign"]
                       again == [after EXCEPT !.pc = "fetch", !.round = after.round + 1,
                                              !.bound = NextBound(r)]
            <4>1. \/ run' = [run EXCEPT ![r] = next]
                  \/ \E cause : Ended(r, cause, PlanCleared(r), m)
                  \/ run' = [run EXCEPT ![r] = again]
                BY <1>0, <3>6 DEF TxConfirmed
            <4>2. next.pc = "sign" /\ again.pc = "fetch"
                BY <1>0 DEF RunType
            <4> HIDE DEF m, next, again
            <4> QED BY <3>2, <3>5, <4>1, <4>2
        <3> QED BY <2>8, <3>1, <3>2, <3>3, <3>4, <3>5, <3>6
                DEF Clearing, LeftOverGone, LeftOverConfirmed, TxNotConfirmed, Checked, GateChecked, End
    <2> QED BY <1>3, <2>1, <2>2, <2>3, <2>4, <2>5, <2>6, <2>7, <2>8 DEF Engine
<1> QED BY <1>1, <1>2, <1>3 DEF Next, Network, vars

LEMMA ExpiryStays == ASSUME Remembers, Expiry, [Next]_vars PROVE Expiry'
<1>0. Grounded /\ Timely
    BY DEF Expiry
<1>1. Grounded' /\ Timely'
    BY <1>0, NextKeeps, TimelyStays DEF Expiry
<1>2. ASSUME NEW q \in Runs, run'[q].pc \in {"list", "drop"} /\ run'[q].outcome = "expired"
      PROVE  Lapsed(run[q].sub)'
    <2>1. /\ run'[q].sub = run[q].sub
          /\ \/ run[q].pc \in {"list", "drop"} /\ run[q].outcome = "expired"
             \/ Settling(run[q]) /\ "expired" \in Resolution(run[q].sub)
        BY <1>0, <1>2, WhoGivesUp DEF GivenUp
    <2>2. PICK i \in 1 .. Len(tx) : i = run[q].sub
        BY <1>0, <2>1, RunIsOK DEF RunOK, Settling, Names
    <2>3. Lapsed(i)
        BY <1>0, <2>1, <2>2, ExpiredIsLapsed DEF Expiry, LapsedOK
    <2>4. Lapsed(i)'
        BY <1>0, <2>2, <2>3, LapsedStays
    <2> QED BY <2>1, <2>2, <2>4 DEF Lapsed, Applied
<1> QED BY <1>1, <1>2 DEF Expiry, LapsedOK

LEMMA InitExpiry == Init => Expiry
<1> SUFFICES ASSUME Init PROVE Expiry
    OBVIOUS
<1>1. Timely
    BY LedgerAssumption DEF Init, LedgerInit, Timely, Ids
<1>2. \A r \in Runs : LapsedOK(run[r])
    BY DEF Init, Idle, LapsedOK
<1> QED BY <1>1, <1>2, InitGrounded DEF Expiry

\* A transaction that a run gives up as expired (resolveSubmission, settleLeftOver) never
\* ran and never will, for any runs, tabs and schedules, if the nodes remember for as
\* long as the close takes.
THEOREM ExpiredIsFinal == ASSUME Remembers PROVE Spec => []ExpiredNeverRan
<1>1. Expiry => ExpiredNeverRan
    BY DEF Expiry, LapsedOK, Lapsed, ExpiredNeverRan, At, CanLand, Spent
<1> QED BY <1>1, InitExpiry, ExpiryStays, PTL DEF Spec
-----------------------------------------------------------------------------
(***************************************************************************)
(* One run: one tab, in which one thing is done at a time.                 *)
(***************************************************************************)

OneAtATime == \E r \in Runs : Runs = {r}

Live == {i \in Ids : CanLand(i)}

\* The run is executing its close, and the page shows that.
Executing(me) ==
    /\ me.mine
    /\ \/ me.pc \in {"recorded", "ensure", "left", "fetch", "explain", "sign", "keep", "save", "saved",
                     "send", "answer", "lookup"}
       \/ me.pc \in {"list", "drop"} /\ me.who \in {"left", "tx"}

\* What a run, its tab and its saved close know of a transaction that can land.
Known(me, it, u, i) ==
    /\ u = i
    /\ it.held \in {0, i}
    /\ it.gate # NoSession => it.gateTx = i
    /\ me.pc \in {"idle", "asked", "send", "answer", "lookup"}
    /\ me.pc # "idle" => me.sub = i
    /\ \/ it.phase = "loading"
       \/ it.phase = "planning" /\ it.gate # NoSession
       \/ it.phase = "unconfirmed" /\ it.held = i
       \/ it.phase = "executing" /\ it.held = i /\ me.mine /\ me.pc \in {"send", "answer", "lookup"}

FlightOK(me, it, u, L) ==
    /\ \A i \in L : Known(me, it, u, i)
    /\ Executing(me) => it.phase = "executing" /\ it.gate = NoSession
    /\ me.mine /\ me.pc \in {"saved", "send", "answer"} => u = me.sub
    /\ me.mine /\ me.pc \in {"send", "answer"} => it.held = me.sub

Flying(r) == FlightOK(run[r], tab[TabOf[r]], unconfirmed[SessionOf[r]], Live)

\* Only the run's saved close holds a hash, and only its tab gets past the review.
Alone(r) ==
    /\ \A s \in Sessions : unconfirmed[s] # 0 => s = SessionOf[r]
    /\ \A t \in Tabs : t # TabOf[r] => tab[t].phase \in {"loading", "planning", "review"}

Flight == Expiry /\ \A r \in Runs : Flying(r) /\ Alone(r)

-----------------------------------------------------------------------------
(***************************************************************************)
(* What a step may do to the transactions that can land, to the hashes the *)
(* saved closes hold and to the tabs.                                      *)
(***************************************************************************)

\* Only a send makes a transaction one that can land.
LEMMA LiveStep ==
    ASSUME Grounded, [Next]_vars, NEW i \in Live'
    PROVE  i \in Live \/ \E r \in Runs : Send(r) /\ i = run[r].sub
<1>0. /\ Len(tx) \in Nat /\ (\A j \in 1 .. Len(tx) : tx[j] \in TxType) /\ seqNum \in Nat /\ ltime \in Nat
    BY EnvelopesTyped
<1>1. i \in 1 .. Len(tx') /\ tx'[i].fate = "sent" /\ open' /\ tx'[i].seq > seqNum' /\ tx'[i].until >= ltime'
    <2>1. i \in 1 .. Len(tx') /\ tx'[i].fate = "sent" /\ ~Spent(i)'
        BY DEF Live, CanLand, Ids
    <2>2. tx'[i] \in TxType /\ seqNum' \in Nat /\ ltime' \in Nat
        <3>1. Grounded'
            BY NextKeeps
        <3>2. tx' \in Seq(TxType)
            BY <3>1 DEF Grounded, TypeOK, LedgerTypeOK
        <3>3. Len(tx') \in Nat
            BY LedgerStep
        <3> QED BY <2>1, <3>2, <3>3, ElementOfSeq, LedgerStep
    <2> QED BY <2>1, <2>2 DEF Spent, TxType
<1>2. i \in 1 .. Len(tx)
    BY <1>1, LedgerStep
<1>3. ~Spent(i)
    <2>1. /\ tx'[i].seq = tx[i].seq /\ tx'[i].until = tx[i].until /\ seqNum <= seqNum' /\ ltime <= ltime'
          /\ seqNum' \in Nat /\ ltime' \in Nat /\ open
        BY <1>1, <1>2, LedgerStep DEF Follows
    <2>2. tx[i].seq \in Nat /\ tx[i].until \in Nat
        BY <1>0, <1>2 DEF TxType
    <2> QED BY <1>0, <1>1, <2>1, <2>2 DEF Spent
<1>4. tx[i].fate = "sent" \/ \E r \in Runs : Send(r) /\ i = run[r].sub
    <2>1. CASE UNCHANGED ledgerVars
        BY <1>1, <2>1 DEF ledgerVars
    <2>2. CASE Network
        <3>1. ASSUME NEW j \in Ids, Land(j) PROVE tx[i].fate = "sent"
            BY <1>1, <1>2, <3>1, LandFate
        <3>2. ASSUME Disturb \/ Tick PROVE tx[i].fate = "sent"
            BY <1>1, <3>2 DEF Disturb, Tick
        <3> QED BY <2>2, <3>1, <3>2 DEF Network
    <2>3. ASSUME NEW r \in Runs, KeepHash(r) PROVE tx[i].fate = "sent"
        BY <1>1, <1>2, <2>3, KeepHashAppends
    <2>4. ASSUME NEW r \in Runs, Send(r), i # run[r].sub PROVE tx[i].fate = "sent"
        <3>1. run[r].sub \in 1 .. Len(tx) /\ \E f : tx' = [tx EXCEPT ![run[r].sub].fate = f]
            BY <2>4, SendFate
        <3> QED BY <1>1, <1>2, <2>4, <3>1, FateReplaced
    <2>5. ASSUME NEW r \in Runs, AnswerRefused(r) PROVE tx[i].fate = "sent"
        <3>1. run[r].sub \in 1 .. Len(tx) /\ (tx' = tx \/
                tx' = [tx EXCEPT ![run[r].sub].fate =
                          IF tx[run[r].sub].fate = "sent" THEN "kept" ELSE tx[run[r].sub].fate])
            BY <2>5, RefusedFate
        <3>2. CASE tx' = tx
            BY <1>1, <3>2
        <3>3. CASE i = run[r].sub /\ tx' # tx
            BY <1>1, <3>1, <3>3, FateReplaced
        <3>4. CASE i # run[r].sub /\ tx' # tx
            BY <1>1, <1>2, <3>1, <3>4, FateReplaced
        <3> QED BY <3>2, <3>3, <3>4
    <2> QED BY <2>1, <2>2, <2>3, <2>4, <2>5, WhoTouchesLedger
<1> QED BY <1>2, <1>3, <1>4 DEF Live, CanLand, Ids

\* Only a run that keeps a hash writes one, into its own saved close.
LEMMA RecordStep ==
    ASSUME Grounded, [Next]_vars, NEW s \in Sessions
    PROVE  unconfirmed'[s] \in {0, unconfirmed[s]} \/ \E r \in Runs : KeepHash(r) /\ s = SessionOf[r]
<1>0. unconfirmed \in [Sessions -> Nat]
    BY DEF Grounded, TypeOK, SavedTypeOK
<1>1. UNCHANGED savedVars => unconfirmed'[s] \in {0, unconfirmed[s]}
    BY DEF savedVars
<1>2. Person => unconfirmed'[s] \in {0, unconfirmed[s]}
    BY <1>0 DEF Person, GateRead, Review, Leave, Crash, Start, StartRefused, AskCheck, AskGate,
                Dismiss, DeleteSettledSession, DeleteSession, savedVars
<1>3. ASSUME NEW r \in Runs, Engine(r), ~KeepHash(r)
      PROVE  unconfirmed'[s] \in {0, unconfirmed[s]}
    <2>0. RecordProgress(r) => unconfirmed' = unconfirmed
        BY DEF RecordProgress, RecordConfirmed, savedVars
    <2>1. CASE Answered(r) \/ ReadRecorded(r) \/ EnsureSession(r) \/ EnsureFails(r)
               \/ SettleLeftOver(r)
        BY <2>1 DEF Answered, ReadRecorded, EnsureSession, EnsureFails, SettleLeftOver, GiveUp, Clear,
                    SaveSession, savedVars
    <2>2. CASE Fetching(r)
        BY <2>2 DEF Fetching, FetchRound, FetchStateChanged, FetchAccountNotFound,
                    MergeExplainsMissingAccount, FetchFails, OnlyRun, savedVars
    <2>3. CASE Submitting(r)
        BY <1>3, <2>3 DEF Submitting, Sign, SignShort, SignFails, KeepSession, NotKept, HoldInStore,
                    Send, SendNotOwner, AnswerConfirmed, AnswerRefused, AnswerUnknown, LookUp, OnlyRun,
                    Clear, GiveUp, SaveSession, savedVars
    <2>4. CASE Clearing(r)
        <3>1. CASE DropHeld(r)
            BY <1>0, <3>1 DEF DropHeld, SaveUnconfirmed
        <3>2. CASE GateChecked(r)
            BY <1>0, <2>0, <3>2 DEF GateChecked, DeleteSession, savedVars
        <3> QED BY <2>0, <2>4, <3>1, <3>2 DEF Clearing, ListHeld, DropFails, LeftOverGone,
                    LeftOverConfirmed, TxNotConfirmed, TxConfirmed, Checked, OnlyRun, savedVars
    <2> QED BY <1>3, <2>1, <2>2, <2>3, <2>4 DEF Engine
<1>4. UNCHANGED savedVars \/ Person \/ \E r \in Runs : Engine(r)
    BY DEF Next, Network, vars
<1>5. ASSUME NEW r \in Runs, KeepHash(r), s # SessionOf[r]
      PROVE  unconfirmed'[s] = unconfirmed[s]
    BY <1>0, <1>5 DEF KeepHash, SaveUnconfirmed
<1> QED BY <1>1, <1>2, <1>3, <1>4, <1>5

\* A tab without a run of its own only loads, reads and reviews.
LEMMA TabStep ==
    ASSUME Grounded, [Next]_vars, NEW t \in Tabs, \A r \in Runs : TabOf[r] # t
    PROVE  tab'[t] = tab[t] \/ tab'[t].phase \in {"loading", "planning", "review"}
<1>0. tab \in [Tabs -> TabType]
    BY DEF Grounded, TypeOK
<1>1. CASE UNCHANGED tab
    BY <1>1
<1>2. CASE Person
    <2>1. ASSUME NEW u \in Tabs, GateRead(u) \/ Review(u) \/ Leave(u) \/ Crash(u)
          PROVE  tab'[t] = tab[t] \/ tab'[t].phase \in {"loading", "planning", "review"}
        <3>0. tab[t] \in TabType
            BY <1>0
        <3>1. CASE GateRead(u)
            <4>1. CASE u = t
                BY <1>0, <3>0, <3>1, <4>1 DEF GateRead, TabType
            <4> QED BY <1>0, <3>1, <4>1 DEF GateRead
        <3>2. CASE Review(u)
            <4>1. CASE u = t
                BY <1>0, <3>0, <3>2, <4>1 DEF Review, TabType
            <4> QED BY <1>0, <3>2, <4>1 DEF Review
        <3>3. CASE Leave(u) \/ Crash(u)
            BY <1>0, <3>3 DEF Leave, Crash, FreshTab
        <3> QED BY <2>1, <3>1, <3>2, <3>3
    <2>2. ASSUME NEW r \in Runs, Start(r) \/ StartRefused(r) \/ AskCheck(r) \/ AskGate(r)
          PROVE  tab'[t] = tab[t]
        BY <1>0, <2>2 DEF Start, StartRefused, AskCheck, AskGate
    <2> QED BY <1>1, <1>2, <2>1, <2>2 DEF Person, Dismiss
<1>3. ASSUME NEW r \in Runs, Engine(r) PROVE tab'[t] = tab[t]
    <2>0. ASSUME NEW it, tab' = [tab EXCEPT ![TabOf[r]] = it] PROVE tab'[t] = tab[t]
        BY <1>0, <2>0
    <2>1. ASSUME NEW cause, NEW it, NEW m, Ended(r, cause, it, m) PROVE tab'[t] = tab[t]
        BY <1>0, <2>1 DEF Ended
    <2>2. ASSUME NEW who, NEW o, ClearHold(r, who, o) PROVE tab'[t] = tab[t]
        BY <1>0, <2>2 DEF ClearHold
    <2>3. CASE Answered(r) \/ ReadRecorded(r) \/ EnsureSession(r) \/ EnsureFails(r)
               \/ SettleLeftOver(r)
        BY <1>0, <2>1, <2>2, <2>3 DEF Answered, ReadRecorded, EnsureSession, EnsureFails,
           SettleLeftOver, GiveUp, Clear, End
    <2>4. CASE Fetching(r)
        BY <2>1, <2>4 DEF Fetching, FetchRound, FetchStateChanged, FetchAccountNotFound,
                    MergeExplainsMissingAccount, FetchFails, OnlyRun, End
    <2>5. CASE Submitting(r)
        BY <1>0, <2>1, <2>2, <2>5 DEF Submitting, Sign, SignShort, SignFails, KeepSession, KeepHash,
                    NotKept, HoldInStore, Send, SendNotOwner, AnswerConfirmed, AnswerRefused,
                    AnswerUnknown, LookUp, OnlyRun, Clear, GiveUp, End
    <2>6. CASE Clearing(r)
        <3>1. CASE Checked(r) \/ GateChecked(r)
            BY <1>0, <3>1 DEF Checked, GateChecked
        <3>2. CASE TxConfirmed(r) \/ LeftOverConfirmed(r)
            BY <2>0, <2>1, <3>2 DEF TxConfirmed, LeftOverConfirmed, ClearPlanHash
        <3> QED BY <2>1, <2>6, <3>1, <3>2 DEF Clearing, ListHeld, DropHeld, DropFails, LeftOverGone,
                    TxNotConfirmed, OnlyRun, End
    <2> QED BY <1>3, <2>3, <2>4, <2>5, <2>6 DEF Engine
<1> QED BY <1>1, <1>2, <1>3 DEF Next, Network, vars

LEMMA AloneStays ==
    ASSUME Grounded, [Next]_vars, NEW r \in Runs, Runs = {r}, Alone(r)
    PROVE  Alone(r)'
<1>1. ASSUME NEW s \in Sessions, unconfirmed'[s] # 0 PROVE s = SessionOf[r]
    BY <1>1, RecordStep DEF Alone
<1>2. ASSUME NEW t \in Tabs, t # TabOf[r] PROVE tab'[t].phase \in {"loading", "planning", "review"}
    BY <1>2, TabStep DEF Alone
<1> QED BY <1>1, <1>2 DEF Alone

-----------------------------------------------------------------------------
(***************************************************************************)
(* The parts of the flight invariant.                                      *)
(***************************************************************************)

LEMMA SameLive == ASSUME UNCHANGED ledgerVars PROVE Live' = Live
BY DEF ledgerVars, Live, Ids, CanLand, Spent

LEMMA LiveIsNamed == ASSUME Grounded, NEW i \in Live PROVE i \in Nat /\ i # 0 /\ i \in 1 .. Len(tx)
BY EnvelopesTyped DEF Live, Ids

\* Where nothing can land.
LEMMA NoneLive ==
    ASSUME NEW r \in Runs, Flying(r),
           run[r].pc \notin {"idle", "asked", "send", "answer", "lookup"}
    PROVE  Live = {}
BY DEF Flying, FlightOK, Known

LEMMA Quiet ==
    ASSUME NEW r \in Runs, Live' = {},
           run'[r].pc \notin {"saved", "send", "answer"},
           Executing(run'[r]) => tab'[TabOf[r]].phase = "executing" /\ tab'[TabOf[r]].gate = NoSession
    PROVE  Flying(r)'
BY DEF Flying, FlightOK

LEMMA FlightOKShrinks ==
    ASSUME NEW me, NEW it, NEW u, NEW L, NEW M, M \subseteq L, FlightOK(me, it, u, L)
    PROVE  FlightOK(me, it, u, M)
BY DEF FlightOK

\* What a lookup settles cannot land, and never will.
LEMMA SettledCannotLand ==
    ASSUME Remembers, Grounded, Timely, NEW i \in 1 .. Len(tx), NEW o \in Resolution(i), o # "unknown"
    PROVE  i \notin Live
<1>1. CASE o = "expired"
    BY <1>1, ExpiredIsLapsed DEF Lapsed, Live, CanLand, Spent
<1>2. CASE o = "confirmed" \/ o = "failed"
    <2>1. tx[i].fate \in {"success", "failed"}
        BY <1>2 DEF Resolution
    <2> QED BY <2>1 DEF Live, CanLand
<1> QED BY <1>1, <1>2, ResolutionSettles

\* The only transaction that can land is the one a run that asks or sends has in hand.
LEMMA LiveIsInHand ==
    ASSUME NEW r \in Runs, Flying(r), run[r].pc # "idle", run[r].sub \notin Live
    PROVE  Live = {}
BY DEF Flying, FlightOK, Known

LEMMA EndedFlies ==
    ASSUME Grounded, NEW r \in Runs, Flying(r), Live' = Live,
           UNCHANGED savedVars, run[r].pc \notin {"idle", "asked"},
           NEW cause, NEW it \in TabType, NEW m, Ended(r, cause, it, m),
           it.phase = tab[TabOf[r]].phase, it.held = tab[TabOf[r]].held,
           it.gate = tab[TabOf[r]].gate, it.gateTx = tab[TabOf[r]].gateTx,
           Live = {} \/ cause = "unknown"
    PROVE  Flying(r)'
<1> DEFINE t == TabOf[r]
<1>0. run \in [Runs -> RunType] /\ tab \in [Tabs -> TabType] /\ t \in Tabs /\ run[r] \in RunType
    BY RunIsOK, TabIsOK
<1>1. run'[r].pc = "idle" /\ ~Executing(run'[r])
    BY <1>0 DEF Ended, Idle, Executing
<1>2. CASE Live = {}
    BY <1>1, <1>2, Quiet
<1>3. CASE cause = "unknown" /\ Live # {}
    <2>1. tab'[t].held = it.held /\ tab'[t].gate = it.gate /\ tab'[t].gateTx = it.gateTx
        BY <1>0 DEF Ended, TabType
    <2>2. tab'[t].phase = IF Owns(r) THEN "unconfirmed" ELSE it.phase
        BY <1>0, <1>3 DEF Ended, TabType, EndPhase
    <2>3. Executing(run[r]) \/ ~Owns(r)
        BY <1>3, NoneLive DEF Executing, Owns
    <2>4. UNCHANGED unconfirmed
        BY DEF savedVars
    <2> HIDE DEF t
    <2>5. ASSUME NEW i \in Live PROVE Known(run'[r], tab'[t], unconfirmed[SessionOf[r]], i)
        <3>1. Known(run[r], tab[t], unconfirmed[SessionOf[r]], i)
            BY DEF Flying, FlightOK, t
        <3>2. Executing(run[r]) => tab[t].phase = "executing"
            BY DEF Flying, FlightOK, t
        <3>3. Owns(r) => tab[t].held = i
            BY <2>3, <3>1, <3>2 DEF Known
        <3> QED BY <1>1, <2>1, <2>2, <3>1, <3>3 DEF Known, Owns, t
    <2> QED BY <1>1, <2>4, <2>5 DEF Flying, FlightOK, t
<1> QED BY <1>2, <1>3

LEMMA EndFlies ==
    ASSUME Grounded, NEW r \in Runs, Flying(r), UNCHANGED <<ledgerVars, savedVars>>,
           run[r].pc \notin {"idle", "asked"}, NEW cause, End(r, cause),
           Live = {} \/ cause = "unknown"
    PROVE  Flying(r)'
<1>1. tab[TabOf[r]] \in TabType
    BY RunIsOK, TabIsOK
<1> QED BY <1>1, SameLive, EndedFlies DEF End

\* A hash that is settled leaves the store: nothing can land any more.
LEMMA ClearHoldFlies ==
    ASSUME Grounded, NEW r \in Runs, Flying(r), Live' = {}, NEW who \in {"left", "tx"}, NEW o,
           run[r].pc \in {"left", "answer", "lookup"}, ClearHold(r, who, o)
    PROVE  Flying(r)'
<1>0. run \in [Runs -> RunType] /\ tab \in [Tabs -> TabType] /\ TabOf[r] \in Tabs /\ run[r] \in RunType
      /\ tab[TabOf[r]] \in TabType
    BY RunIsOK, TabIsOK
<1>1. run'[r].pc = "list" /\ run'[r].mine = run[r].mine
    BY <1>0 DEF ClearHold, RunType
<1>2. tab'[TabOf[r]].phase = tab[TabOf[r]].phase /\ tab'[TabOf[r]].gate = tab[TabOf[r]].gate
    BY <1>0 DEF ClearHold, TabType
<1>3. Executing(run'[r]) => Executing(run[r])
    BY <1>1 DEF Executing
<1> QED BY <1>1, <1>2, <1>3, Quiet DEF Flying, FlightOK
-----------------------------------------------------------------------------
(***************************************************************************)
(* One step of the pages.                                                  *)
(***************************************************************************)

LEMMA GateReadFlies ==
    ASSUME ~ReadFails, Grounded, NEW r \in Runs, Flying(r), Alone(r), NEW t \in Tabs, GateRead(t)
    PROVE  Flying(r)'
<1>0. /\ tab \in [Tabs -> TabType] /\ TabOf[r] \in Tabs /\ tab[t] \in TabType
      /\ UNCHANGED <<run, unconfirmed>> /\ Live' = Live
    BY RunIsOK, TabIsOK, SameLive DEF GateRead, savedVars
<1>1. CASE t # TabOf[r]
    <2>1. tab'[TabOf[r]] = tab[TabOf[r]]
        BY <1>0, <1>1 DEF GateRead
    <2> QED BY <1>0, <2>1 DEF Flying
<1>2. CASE t = TabOf[r]
    <2>1. PICK s \in FindUnresolved :
              tab' = [tab EXCEPT ![t].phase = "planning", ![t].held = 0, ![t].gate = s,
                                 ![t].gateTx = IF s = NoSession THEN 0 ELSE unconfirmed[s]]
        BY DEF GateRead
    <2>2. /\ tab'[t].phase = "planning" /\ tab'[t].held = 0 /\ tab'[t].gate = s
          /\ tab'[t].gateTx = IF s = NoSession THEN 0 ELSE unconfirmed[s]
        BY <1>0, <2>1 DEF TabType
    <2>3. tab[t].phase = "loading"
        BY DEF GateRead
    <2>4. ~Executing(run[r])
        BY <1>2, <2>3 DEF Flying, FlightOK
    <2>5. ~(run[r].mine /\ run[r].pc \in {"saved", "send", "answer"})
        BY <2>4 DEF Executing
    <2>6. ASSUME NEW i \in Live
          PROVE  Known(run[r], tab'[t], unconfirmed[SessionOf[r]], i)
        <3>1. /\ unconfirmed[SessionOf[r]] = i /\ run[r].pc \in {"idle", "asked", "send", "answer", "lookup"}
              /\ run[r].pc # "idle" => run[r].sub = i
            BY DEF Flying, FlightOK, Known
        <3>2. SessionOf[r] \in Held /\ NoSession \notin Sessions
            BY <3>1, LiveIsNamed, RunIsOK, EngineAssumption DEF Held
        <3>3. s \in Held
            BY <3>2 DEF FindUnresolved
        <3>4. s = SessionOf[r] /\ s # NoSession
            BY <3>2, <3>3 DEF Alone, Held
        <3> QED BY <2>2, <3>1, <3>4 DEF Known
    <2> QED BY <1>0, <1>2, <2>2, <2>4, <2>5, <2>6 DEF Flying, FlightOK
<1> QED BY <1>1, <1>2

LEMMA ReviewFlies ==
    ASSUME Grounded, NEW r \in Runs, Flying(r), NEW t \in Tabs, Review(t)
    PROVE  Flying(r)'
<1>0. /\ tab \in [Tabs -> TabType] /\ TabOf[r] \in Tabs /\ tab[t] \in TabType
      /\ UNCHANGED <<run, unconfirmed>> /\ Live' = Live
    BY RunIsOK, TabIsOK, SameLive DEF Review, savedVars
<1>1. CASE t # TabOf[r]
    <2>1. tab'[TabOf[r]] = tab[TabOf[r]]
        BY <1>0, <1>1 DEF Review
    <2> QED BY <1>0, <2>1 DEF Flying
<1>2. CASE t = TabOf[r]
    <2>1. tab[t].phase = "planning" /\ tab[t].gate = NoSession
        BY DEF Review, Shown
    <2>2. Live = {} /\ ~Executing(run[r])
        BY <1>2, <2>1 DEF Flying, FlightOK, Known
    <2>3. ~(run[r].mine /\ run[r].pc \in {"saved", "send", "answer"})
        BY <2>2 DEF Executing
    <2> QED BY <1>0, <2>2, <2>3 DEF Flying, FlightOK
<1> QED BY <1>1, <1>2

LEMMA LeaveFlies ==
    ASSUME Grounded, NEW r \in Runs, Flying(r), NEW t \in Tabs, Leave(t) \/ Crash(t)
    PROVE  Flying(r)'
<1>0. /\ run \in [Runs -> RunType] /\ tab \in [Tabs -> TabType] /\ TabOf[r] \in Tabs /\ run[r] \in RunType
      /\ UNCHANGED unconfirmed /\ Live' = Live
    BY RunIsOK, TabIsOK, SameLive DEF Leave, Crash, savedVars
<1>1. CASE t # TabOf[r]
    <2>1. tab'[TabOf[r]] = tab[TabOf[r]] /\ run'[r] = run[r]
        BY <1>0, <1>1 DEF Leave, Crash
    <2> QED BY <1>0, <2>1 DEF Flying
<1>2. CASE t = TabOf[r]
    <2>1. tab'[t] = FreshTab
        BY <1>0 DEF Leave, Crash
    <2>2. tab'[t].phase = "loading" /\ tab'[t].held = 0 /\ tab'[t].gate = NoSession
        BY <2>1 DEF FreshTab
    <2>3. run'[r] = Idle \/ run'[r] = [run[r] EXCEPT !.mine = FALSE]
        BY <1>0, <1>2 DEF Leave, Crash
    <2>4. run'[r].mine = FALSE /\ (run'[r].pc = "idle" \/ (run'[r].pc = run[r].pc /\ run'[r].sub = run[r].sub))
        BY <1>0, <2>3 DEF Idle, RunType
    <2>5. \A i \in Live : Known(run[r], tab[t], unconfirmed[SessionOf[r]], i)
        BY <1>2 DEF Flying, FlightOK
    <2> HIDE DEF Live
    <2>6. \A i \in Live : Known(run'[r], tab'[t], unconfirmed[SessionOf[r]], i)
        BY <2>2, <2>4, <2>5 DEF Known
    <2> QED BY <1>0, <1>2, <2>4, <2>6 DEF Flying, FlightOK, Executing
<1> QED BY <1>1, <1>2

LEMMA StartFlies ==
    ASSUME Grounded, NEW r \in Runs, Flying(r), Start(r) \/ StartRefused(r)
    PROVE  Flying(r)'
<1>0. /\ run \in [Runs -> RunType] /\ tab \in [Tabs -> TabType] /\ TabOf[r] \in Tabs /\ run[r] \in RunType
      /\ tab[TabOf[r]] \in TabType /\ Live' = Live /\ run[r].pc = "idle" /\ Offered(TabOf[r])
    BY RunIsOK, TabIsOK, SameLive DEF Start, StartRefused, CanBegin, At
<1>1. Live = {}
    <2>1. ASSUME NEW i \in Live PROVE FALSE
        <3>1. Known(run[r], tab[TabOf[r]], unconfirmed[SessionOf[r]], i) /\ i # 0
            BY LiveIsNamed DEF Flying, FlightOK
        <3> QED BY <1>0, <3>1 DEF Known, Offered, Shown
    <2> QED BY <2>1
<1>2. CASE Start(r)
    <2>1. run'[r].pc = "recorded"
        BY <1>0, <1>2 DEF Start, RunType
    <2>2. tab'[TabOf[r]].phase = "executing" /\ tab'[TabOf[r]].gate = NoSession
        BY <1>0, <1>2 DEF Start, TabType, Offered, Shown
    <2> QED BY <1>0, <1>1, <2>1, <2>2, Quiet
<1>3. CASE StartRefused(r)
    <2>1. run'[r].pc = "idle"
        BY <1>0, <1>3 DEF StartRefused, Idle
    <2> QED BY <1>0, <1>1, <2>1, Quiet DEF Executing
<1> QED BY <1>2, <1>3

LEMMA AskFlies ==
    ASSUME Grounded, NEW r \in Runs, Flying(r), AskCheck(r) \/ AskGate(r)
    PROVE  Flying(r)'
<1>0. /\ run \in [Runs -> RunType] /\ run[r].pc = "idle" /\ Live' = Live /\ UNCHANGED <<tab, unconfirmed>>
    BY RunIsOK, SameLive DEF AskCheck, AskGate, CanBegin, At, savedVars
<1>1. PICK who, i, s : Ask(r, who, i, s) /\ (\/ tab[TabOf[r]].phase = "unconfirmed" /\ i = tab[TabOf[r]].held
                                             \/ tab[TabOf[r]].gate # NoSession /\ i = tab[TabOf[r]].gateTx)
    BY DEF AskCheck, AskGate
<1>2. run'[r].pc = "asked" /\ run'[r].sub = i
    BY <1>0, <1>1 DEF Ask, Idle
<1>3. \A j \in Live : Known(run[r], tab[TabOf[r]], unconfirmed[SessionOf[r]], j)
    BY DEF Flying, FlightOK
<1> HIDE DEF Live
<1>4. \A j \in Live : Known(run'[r], tab[TabOf[r]], unconfirmed[SessionOf[r]], j)
    BY <1>0, <1>1, <1>2, <1>3 DEF Known
<1> QED BY <1>0, <1>2, <1>4 DEF Flying, FlightOK, Executing

LEMMA DismissFlies ==
    ASSUME Grounded, NEW r \in Runs, Flying(r), NEW s \in Sessions, Dismiss(s)
    PROVE  Flying(r)'
<1>1. Live' = Live /\ UNCHANGED <<run, tab>>
    BY SameLive DEF Dismiss
<1>2. unconfirmed'[SessionOf[r]] = unconfirmed[SessionOf[r]]
    BY RunIsOK DEF Dismiss, DeleteSettledSession, DeleteSession, Grounded, TypeOK, SavedTypeOK
<1> QED BY <1>1, <1>2 DEF Flying

LEMMA NetworkFlies ==
    ASSUME Grounded, NEW r \in Runs, Runs = {r}, Flying(r), Network
    PROVE  Flying(r)'
<1>1. UNCHANGED <<run, tab, unconfirmed>>
    BY DEF Network, savedVars
<1>2. \A q \in Runs : ~Send(q)
    <2>1. SUFFICES ASSUME Send(r) PROVE FALSE
        OBVIOUS
    <2>2. run[r].pc = "send" /\ run'[r].pc = "answer"
        BY <2>1, RunIsOK DEF Send, At, RunType
    <2> QED BY <1>1, <2>2
<1>3. Live' \subseteq Live
    BY <1>2, LiveStep DEF Next
<1> QED BY <1>1, <1>3, FlightOKShrinks DEF Flying

-----------------------------------------------------------------------------
(***************************************************************************)
(* One step of the run.                                                    *)
(***************************************************************************)

\* A step that only moves the run on, where nothing can land.
LEMMA QuietStep ==
    ASSUME Grounded, NEW r \in Runs, Flying(r), UNCHANGED ledgerVars,
           run[r].pc \notin {"idle", "asked", "send", "answer", "lookup"},
           run'[r].pc \notin {"saved", "send", "answer"},
           Executing(run'[r]) => Executing(run[r]),
           tab'[TabOf[r]].phase = tab[TabOf[r]].phase, tab'[TabOf[r]].gate = tab[TabOf[r]].gate
    PROVE  Flying(r)'
BY NoneLive, SameLive, Quiet DEF Flying, FlightOK

LEMMA AnsweredFlies ==
    ASSUME Remembers, Grounded, Timely, NEW r \in Runs, Flying(r), Answered(r)
    PROVE  Flying(r)'
<1>0. /\ run \in [Runs -> RunType] /\ tab \in [Tabs -> TabType] /\ TabOf[r] \in Tabs /\ run[r] \in RunType
      /\ run[r].pc = "asked" /\ run[r].who \in {"check", "gate"} /\ run[r].sub \in 1 .. Len(tx)
      /\ Live' = Live /\ UNCHANGED unconfirmed
    BY RunIsOK, TabIsOK, SameLive DEF Answered, At, RunOK, Settling, Names, savedVars
<1>1. CASE run' = [run EXCEPT ![r] = Idle] /\ tab' = tab
    <2>1. run'[r].pc = "idle"
        BY <1>0, <1>1 DEF Idle
    <2>2. \A i \in Live : Known(run[r], tab[TabOf[r]], unconfirmed[SessionOf[r]], i)
        BY DEF Flying, FlightOK
    <2> HIDE DEF Live
    <2>3. \A i \in Live : Known(run'[r], tab[TabOf[r]], unconfirmed[SessionOf[r]], i)
        BY <1>0, <2>1, <2>2 DEF Known
    <2> QED BY <1>0, <1>1, <2>1, <2>3 DEF Flying, FlightOK, Executing
<1>2. CASE \E o \in Resolution(run[r].sub) :
              o # "unknown" /\ run' = [run EXCEPT ![r].pc = "list", ![r].outcome = o]
    <2>1. Live = {}
        BY <1>0, <1>2, SettledCannotLand, LiveIsInHand
    <2>2. run'[r].pc = "list" /\ run'[r].who = run[r].who
        BY <1>0, <1>2 DEF RunType
    <2>3. ~Executing(run'[r])
        BY <1>0, <2>2 DEF Executing
    <2> QED BY <1>0, <2>1, <2>2, <2>3, Quiet
<1> QED BY <1>1, <1>2 DEF Answered

LEMMA ReadRecordedFlies ==
    ASSUME Grounded, NEW r \in Runs, Flying(r), ReadRecorded(r)
    PROVE  Flying(r)'
<1>0. /\ run \in [Runs -> RunType] /\ tab \in [Tabs -> TabType] /\ TabOf[r] \in Tabs /\ run[r] \in RunType
      /\ tab[TabOf[r]] \in TabType
    BY RunIsOK, TabIsOK
<1>1. run[r].pc = "recorded" /\ run'[r].pc = "ensure" /\ run'[r].mine = run[r].mine
    BY <1>0 DEF ReadRecorded, At, RunType
<1>2. tab'[TabOf[r]].phase = tab[TabOf[r]].phase /\ tab'[TabOf[r]].gate = tab[TabOf[r]].gate
    BY <1>0 DEF ReadRecorded, TabType
<1> QED BY <1>1, <1>2, QuietStep DEF ReadRecorded, Executing

\* Where a run goes on from what was left over.
LEMMA BeginGoesOn ==
    ASSUME NEW me \in RunType, NEW hash
    PROVE  Begin(me, hash).pc \in {"sign", "fetch"} /\ Begin(me, hash).mine = me.mine
BY DEF Begin, RunType

LEMMA EnsureSessionFlies ==
    ASSUME Grounded, NEW r \in Runs, Flying(r), EnsureSession(r)
    PROVE  Flying(r)'
<1> DEFINE mine == [run[r] EXCEPT !.rec = IF Owns(r) THEN SessionOf[r] ELSE NoSession]
           left == [mine EXCEPT !.pc = "left", !.sub = tab[TabOf[r]].held,
                                !.hash = IF mine.paused THEN NoPlan ELSE tab[TabOf[r]].plan]
<1>0. /\ run \in [Runs -> RunType] /\ mine \in RunType /\ run[r] \in RunType
      /\ run[r].pc = "ensure" /\ mine.mine = run[r].mine
    <2>1. run \in [Runs -> RunType] /\ run[r] \in RunType /\ SessionOf[r] \in Sessions
        BY RunIsOK
    <2>2. mine \in RunType /\ mine.mine = run[r].mine
        BY <2>1 DEF RunType
    <2>3. run[r].pc = "ensure"
        BY DEF EnsureSession, At
    <2> QED BY <2>1, <2>2, <2>3
<1>1. run' = [run EXCEPT ![r] = IF tab[TabOf[r]].held = 0
                                  THEN Begin(mine, tab[TabOf[r]].plan) ELSE left]
    BY <1>0 DEF EnsureSession
<1>2. left.pc = "left" /\ left.mine = mine.mine
    BY <1>0 DEF RunType
<1> HIDE DEF mine, left
<1>3. run'[r].pc \in {"sign", "fetch", "left"} /\ run'[r].mine = run[r].mine
    BY <1>0, <1>1, <1>2, BeginGoesOn
<1> QED BY <1>0, <1>3, QuietStep DEF EnsureSession, Executing

LEMMA SettleLeftOverFlies ==
    ASSUME Grounded, NEW r \in Runs, Flying(r), SettleLeftOver(r)
    PROVE  Flying(r)'
<1>0. run[r].pc = "left" /\ Live = {}
    BY NoneLive DEF SettleLeftOver, At
<1>1. CASE GiveUp(r)
    BY <1>0, <1>1, EndFlies DEF GiveUp
<1>2. CASE \E o : Clear(r, "left", o)
    BY <1>0, <1>2, SameLive, ClearHoldFlies DEF Clear
<1> QED BY <1>1, <1>2 DEF SettleLeftOver

LEMMA FetchingFlies ==
    ASSUME Grounded, NEW r \in Runs, Flying(r), Fetching(r)
    PROVE  Flying(r)'
<1>0. /\ run \in [Runs -> RunType] /\ run[r] \in RunType
      /\ run[r].pc \in {"fetch", "explain"}
    BY RunIsOK DEF Fetching, FetchRound, FetchStateChanged, FetchAccountNotFound,
                   MergeExplainsMissingAccount, FetchFails, At
<1>1. Live = {}
    BY <1>0, NoneLive
<1>2. CASE FetchRound(r)
    <2>1. run'[r].pc = "sign" /\ run'[r].mine = run[r].mine
        BY <1>0, <1>2 DEF FetchRound, RunType
    <2> QED BY <1>0, <1>2, <2>1, QuietStep DEF FetchRound, OnlyRun, Executing
<1>3. CASE \E cause : End(r, cause) /\ UNCHANGED <<ledgerVars, savedVars>>
    BY <1>0, <1>1, <1>3, EndFlies
<1>4. CASE /\ run' = [run EXCEPT ![r].attempt = @ + 1] \/ run' = [run EXCEPT ![r].pc = "explain"]
           /\ UNCHANGED <<ledgerVars, tab>>
    <2>1. run'[r].pc \in {run[r].pc, "explain"} /\ run'[r].mine = run[r].mine
        BY <1>0, <1>4 DEF RunType
    <2> QED BY <1>0, <1>4, <2>1, QuietStep DEF Executing
<1> QED BY <1>2, <1>3, <1>4 DEF Fetching, FetchStateChanged, FetchAccountNotFound,
           MergeExplainsMissingAccount, FetchFails

\* Up to the hash that is kept, nothing can land.
LEMMA PreparingFlies ==
    ASSUME Grounded, NEW r \in Runs, Flying(r),
           Sign(r) \/ SignShort(r) \/ SignFails(r) \/ KeepSession(r) \/ NotKept(r)
    PROVE  Flying(r)'
<1>0. /\ run \in [Runs -> RunType] /\ run[r] \in RunType /\ run[r].pc \in {"sign", "keep", "save"}
    BY RunIsOK DEF Sign, SignShort, SignFails, KeepSession, NotKept, At
<1>1. CASE Sign(r) \/ KeepSession(r)
    <2>1. run'[r].pc \in {"keep", "save"} /\ run'[r].mine = run[r].mine
        BY <1>0, <1>1 DEF Sign, KeepSession, RunType
    <2> QED BY <1>0, <1>1, <2>1, QuietStep DEF Sign, KeepSession, OnlyRun, Executing
<1>2. CASE SignShort(r) \/ SignFails(r) \/ NotKept(r)
    BY <1>0, <1>2, NoneLive, EndFlies DEF SignShort, SignFails, NotKept
<1> QED BY <1>1, <1>2

LEMMA KeepHashFlies ==
    ASSUME Grounded, NEW r \in Runs, Runs = {r}, Flying(r), KeepHash(r)
    PROVE  Flying(r)'
<1>0. /\ run \in [Runs -> RunType] /\ run[r] \in RunType /\ run[r].pc = "save" /\ Live = {}
      /\ UNCHANGED tab
    BY RunIsOK, NoneLive DEF KeepHash, At
<1>1. run'[r].pc = "saved" /\ run'[r].mine = run[r].mine /\ run'[r].sub = Len(tx) + 1
    BY <1>0 DEF KeepHash, RunType
<1>2. unconfirmed'[SessionOf[r]] = Len(tx) + 1
    BY RunIsOK DEF KeepHash, SaveUnconfirmed, Grounded, TypeOK, SavedTypeOK
<1>3. Live' = {}
    <2>1. Next /\ ~Send(r)
        BY <1>0 DEF Next, Engine, Submitting, Send, At
    <2> QED BY <1>0, <2>1, LiveStep
<1> HIDE DEF Live
<1> QED BY <1>0, <1>1, <1>2, <1>3 DEF Flying, FlightOK, Executing

LEMMA HoldInStoreFlies ==
    ASSUME Grounded, NEW r \in Runs, Flying(r), HoldInStore(r)
    PROVE  Flying(r)'
<1>0. /\ run \in [Runs -> RunType] /\ run[r] \in RunType /\ run[r].pc = "saved" /\ Live = {}
      /\ tab \in [Tabs -> TabType] /\ TabOf[r] \in Tabs /\ tab[TabOf[r]] \in TabType
      /\ UNCHANGED unconfirmed /\ Live' = Live
    BY RunIsOK, TabIsOK, NoneLive, SameLive DEF HoldInStore, At, savedVars
<1>1. run'[r].pc = "send" /\ run'[r].mine = run[r].mine /\ run'[r].sub = run[r].sub
    BY <1>0 DEF HoldInStore, RunType
<1>2. /\ tab'[TabOf[r]].held = run[r].sub /\ tab'[TabOf[r]].phase = tab[TabOf[r]].phase
      /\ tab'[TabOf[r]].gate = tab[TabOf[r]].gate
    BY <1>0 DEF HoldInStore, TabType
<1> HIDE DEF Live
<1> QED BY <1>0, <1>1, <1>2 DEF Flying, FlightOK, Executing

LEMMA SendFlies ==
    ASSUME Grounded, NEW r \in Runs, Runs = {r}, Flying(r), Send(r)
    PROVE  Flying(r)'
<1>0. /\ run \in [Runs -> RunType] /\ run[r] \in RunType /\ run[r].pc = "send" /\ run[r].mine
      /\ UNCHANGED <<tab, unconfirmed>>
    BY RunIsOK DEF Send, At, Owns, savedVars
<1>1. run'[r].pc = "answer" /\ run'[r].mine /\ run'[r].sub = run[r].sub
    BY <1>0 DEF Send, RunType
<1>2. /\ tab[TabOf[r]].phase = "executing" /\ tab[TabOf[r]].gate = NoSession
      /\ tab[TabOf[r]].held = run[r].sub /\ unconfirmed[SessionOf[r]] = run[r].sub
      /\ \A i \in Live : i = run[r].sub
    BY <1>0 DEF Flying, FlightOK, Known, Executing
<1>3. ASSUME NEW i \in Live' PROVE i = run[r].sub
    <2>1. [Next]_vars
        BY DEF Next, Engine, Submitting
    <2> QED BY <1>2, <2>1, LiveStep
<1> HIDE DEF Live
<1>4. \A i \in Live' : Known(run'[r], tab'[TabOf[r]], unconfirmed'[SessionOf[r]], i)
    BY <1>0, <1>1, <1>2, <1>3 DEF Known
<1> QED BY <1>0, <1>1, <1>2, <1>4 DEF Flying, FlightOK

\* What a run does while its transaction may land, and does not settle it.
LEMMA AwaitingFlies ==
    ASSUME Grounded, NEW r \in Runs, Flying(r),
           UNCHANGED <<ledgerVars, savedVars, tab>>,
           \/ run[r].pc = "send" /\ ~run[r].mine /\ run'[r].pc = "lookup"
           \/ run[r].pc = "answer" /\ run'[r].pc \in {"send", "lookup"},
           run'[r].mine = run[r].mine, run'[r].sub = run[r].sub
    PROVE  Flying(r)'
<1>0. UNCHANGED unconfirmed /\ Live' = Live
    BY SameLive DEF savedVars
<1>1. \A i \in Live : Known(run[r], tab[TabOf[r]], unconfirmed[SessionOf[r]], i)
    BY DEF Flying, FlightOK
<1> HIDE DEF Live
<1>2. \A i \in Live : Known(run'[r], tab[TabOf[r]], unconfirmed[SessionOf[r]], i)
    BY <1>1 DEF Known
<1> QED BY <1>0, <1>2 DEF Flying, FlightOK, Executing

LEMMA AnswersFly ==
    ASSUME Grounded, NEW r \in Runs, Runs = {r}, Flying(r),
           SendNotOwner(r) \/ AnswerConfirmed(r) \/ AnswerRefused(r) \/ AnswerUnknown(r)
    PROVE  Flying(r)'
<1>0. run \in [Runs -> RunType] /\ run[r] \in RunType
    BY RunIsOK
<1>1. CASE SendNotOwner(r)
    <2>1. run'[r].pc = "lookup" /\ run'[r].mine = run[r].mine /\ run'[r].sub = run[r].sub
        BY <1>0, <1>1 DEF SendNotOwner, RunType
    <2> QED BY <1>1, <2>1, AwaitingFlies DEF SendNotOwner, At, Owns, OnlyRun
<1>2. CASE AnswerUnknown(r)
    <2>1. run'[r].pc \in {"send", "lookup"} /\ run'[r].mine = run[r].mine /\ run'[r].sub = run[r].sub
        BY <1>0, <1>2 DEF AnswerUnknown, RunType
    <2> QED BY <1>2, <2>1, AwaitingFlies DEF AnswerUnknown, At, OnlyRun
<1>3. CASE AnswerConfirmed(r)
    <2>1. run[r].sub \notin Live /\ run[r].pc = "answer"
        BY <1>3 DEF AnswerConfirmed, Live, CanLand, At
    <2> QED BY <1>3, <2>1, LiveIsInHand, SameLive, ClearHoldFlies DEF AnswerConfirmed, Clear
<1>4. CASE AnswerRefused(r)
    <2>0. run[r].pc = "answer"
        BY <1>4 DEF AnswerRefused, At
    <2>1. CASE run' = [run EXCEPT ![r].pc = "lookup"] /\ UNCHANGED <<tx, tab>>
        <3>1. run'[r].pc = "lookup" /\ run'[r].mine = run[r].mine /\ run'[r].sub = run[r].sub
            BY <1>0, <2>1 DEF RunType
        <3>2. UNCHANGED <<ledgerVars, savedVars, tab>>
            BY <1>4, <2>1 DEF AnswerRefused, ledgerVars
        <3> QED BY <2>0, <3>1, <3>2, AwaitingFlies
    <2>2. CASE /\ tx[run[r].sub].fate \in {"sent", "failed"}
               /\ tx' = [tx EXCEPT ![run[r].sub].fate = IF @ = "sent" THEN "kept" ELSE @]
               /\ ClearHold(r, "tx", "refused")
        <3>1. Next /\ ~Send(r) /\ run[r].sub \in 1 .. Len(tx)
            BY <1>4, <2>0, RefusedFate DEF Next, Engine, Submitting, Send, At
        <3>2. tx' = [tx EXCEPT ![run[r].sub].fate =
                        IF tx[run[r].sub].fate = "sent" THEN "kept" ELSE tx[run[r].sub].fate]
            BY <2>2, <3>1, EnvelopesTyped
        <3>3. tx'[run[r].sub].fate # "sent"
            BY <3>1, <3>2, FateReplaced
        <3>4. run[r].sub \notin Live'
            BY <3>3 DEF Live, CanLand
        <3>5. ASSUME NEW i \in Live' PROVE FALSE
            <4>1. i \in Live
                BY <3>1, LiveStep
            <4>2. i = run[r].sub
                BY <2>0, <4>1 DEF Flying, FlightOK, Known
            <4> QED BY <3>4, <4>2
        <3>6. Live' = {}
            BY <3>5
        <3> HIDE DEF Live
        <3> QED BY <2>0, <2>2, <3>6, ClearHoldFlies
    <2> QED BY <1>4, <2>1, <2>2 DEF AnswerRefused
<1> QED BY <1>1, <1>2, <1>3, <1>4

LEMMA LookUpFlies ==
    ASSUME Remembers, Grounded, Timely, NEW r \in Runs, Flying(r), LookUp(r)
    PROVE  Flying(r)'
<1>0. run[r].pc = "lookup" /\ run[r].sub \in 1 .. Len(tx)
    BY RunIsOK DEF LookUp, At, RunOK, Settling, Names
<1>1. CASE GiveUp(r)
    BY <1>0, <1>1, EndFlies DEF GiveUp
<1>2. CASE \E o \in Resolution(run[r].sub) : o # "unknown" /\ Clear(r, "tx", o)
    <2>1. Live = {}
        BY <1>0, <1>2, SettledCannotLand, LiveIsInHand
    <2> QED BY <1>0, <1>2, <2>1, SameLive, ClearHoldFlies DEF Clear
<1> QED BY <1>1, <1>2 DEF LookUp

LEMMA ListingFlies ==
    ASSUME Grounded, NEW r \in Runs, Flying(r), ListHeld(r) \/ DropHeld(r) \/ DropFails(r)
    PROVE  Flying(r)'
<1>0. /\ run \in [Runs -> RunType] /\ run[r] \in RunType /\ run[r].pc \in {"list", "drop"}
      /\ UNCHANGED <<ledgerVars, tab>>
    BY RunIsOK DEF ListHeld, DropHeld, DropFails, At, OnlyRun
<1>1. run'[r].pc = "drop" /\ run'[r].mine = run[r].mine /\ run'[r].who = run[r].who
    BY <1>0 DEF ListHeld, DropHeld, DropFails, At, RunType
<1> QED BY <1>0, <1>1, QuietStep DEF Executing

\* Once its hash is dropped everywhere, a run goes on, ends, or its check does.
LEMMA DroppedFlies ==
    ASSUME Grounded, NEW r \in Runs, Flying(r),
           \/ LeftOverGone(r) \/ LeftOverConfirmed(r) \/ TxNotConfirmed(r) \/ TxConfirmed(r)
           \/ Checked(r) \/ GateChecked(r)
    PROVE  Flying(r)'
<1>0. /\ run \in [Runs -> RunType] /\ run[r] \in RunType /\ run[r].pc = "drop"
      /\ tab \in [Tabs -> TabType] /\ TabOf[r] \in Tabs /\ tab[TabOf[r]] \in TabType
      /\ UNCHANGED ledgerVars
    BY RunIsOK, TabIsOK DEF LeftOverGone, LeftOverConfirmed, TxNotConfirmed, TxConfirmed, Checked,
                            GateChecked, Cleared, At
<1>1. Live = {} /\ Live' = {}
    BY <1>0, NoneLive, SameLive
<1>2. ASSUME run'[r].pc = "idle" PROVE Flying(r)'
    BY <1>1, <1>2, Quiet DEF Executing
<1>3. ASSUME NEW cause, NEW it, NEW m, Ended(r, cause, it, m) PROVE Flying(r)'
    <2>1. run'[r].pc = "idle"
        BY <1>0, <1>3 DEF Ended, Idle
    <2> QED BY <1>2, <2>1
<1>4. PlanCleared(r).phase = tab[TabOf[r]].phase /\ PlanCleared(r).gate = tab[TabOf[r]].gate
    BY <1>0 DEF PlanCleared, TabType
<1>5. ASSUME NEW you, run' = [run EXCEPT ![r] = you], you.pc \in {"sign", "fetch"},
             you.mine = run[r].mine, run[r].who \in {"left", "tx"}, tab' = tab \/ ClearPlanHash(r)
      PROVE  Flying(r)'
    <2>1. run'[r].pc \in {"sign", "fetch"} /\ run'[r].mine = run[r].mine
        BY <1>0, <1>5
    <2>2. tab'[TabOf[r]].phase = tab[TabOf[r]].phase /\ tab'[TabOf[r]].gate = tab[TabOf[r]].gate
        BY <1>0, <1>4, <1>5 DEF ClearPlanHash
    <2> QED BY <1>0, <1>5, <2>1, <2>2, QuietStep DEF Executing
<1>6. CASE LeftOverGone(r) \/ LeftOverConfirmed(r)
    <2>1. CASE \E hash : run' = [run EXCEPT ![r] = Begin(@, hash)] /\ (tab' = tab \/ ClearPlanHash(r))
        <3>1. PICK hash : run' = [run EXCEPT ![r] = Begin(run[r], hash)]
            BY <1>0, <2>1
        <3>2. Begin(run[r], hash).pc \in {"sign", "fetch"} /\ Begin(run[r], hash).mine = run[r].mine
            BY <1>0, BeginGoesOn
        <3>3. run[r].who = "left"
            BY <1>6 DEF LeftOverGone, LeftOverConfirmed, Cleared
        <3> QED BY <1>5, <2>1, <3>1, <3>2, <3>3
    <2> QED BY <1>3, <1>6, <2>1 DEF LeftOverGone, LeftOverConfirmed, End
<1>7. CASE TxNotConfirmed(r)
    BY <1>3, <1>7 DEF TxNotConfirmed, End
<1>8. CASE TxConfirmed(r)
    <2> DEFINE m == IF tx[run[r].sub].merge THEN run[r].sub ELSE run[r].merge
               after == [run[r] EXCEPT !.queue = Tail(run[r].queue), !.merge = m, !.hash = NoPlan,
                                       !.sub = 0, !.attempt = 0, !.paused = FALSE]
               next == [after EXCEPT !.pc = "sign"]
               again == [after EXCEPT !.pc = "fetch", !.round = after.round + 1, !.bound = NextBound(r)]
    <2>1. \/ run' = [run EXCEPT ![r] = next] /\ ClearPlanHash(r)
          \/ \E cause : Ended(r, cause, PlanCleared(r), m)
          \/ run' = [run EXCEPT ![r] = again] /\ ClearPlanHash(r)
        BY <1>0, <1>8 DEF TxConfirmed
    <2>2. next.pc = "sign" /\ again.pc = "fetch" /\ next.mine = run[r].mine /\ again.mine = run[r].mine
        BY <1>0 DEF RunType
    <2>3. run[r].who = "tx"
        BY <1>8 DEF TxConfirmed, Cleared
    <2> HIDE DEF m, next, again
    <2> QED BY <1>3, <1>5, <2>1, <2>2, <2>3
<1>9. CASE Checked(r) \/ GateChecked(r)
    <2>1. run'[r].pc = "idle"
        BY <1>0, <1>9 DEF Checked, GateChecked, Idle
    <2> QED BY <1>2, <2>1
<1> QED BY <1>6, <1>7, <1>8, <1>9

-----------------------------------------------------------------------------
LEMMA InitFlight == ASSUME OneAtATime PROVE Init => Flight
<1> SUFFICES ASSUME Init PROVE Flight
    OBVIOUS
<1>1. Expiry
    BY InitExpiry
<1>2. Live = {}
    BY DEF Init, LedgerInit, Live, Ids
<1>3. ASSUME NEW r \in Runs PROVE Flying(r) /\ Alone(r)
    <2>1. run[r] = Idle /\ TabOf[r] \in Tabs
        BY EngineAssumption DEF Init
    <2>2. ~Executing(run[r]) /\ run[r].pc = "idle"
        BY <2>1 DEF Executing, Idle
    <2>3. Flying(r)
        BY <1>2, <2>2 DEF Flying, FlightOK
    <2>4. Alone(r)
        BY DEF Init, SavedInit, FreshTab, Alone
    <2> QED BY <2>3, <2>4
<1> QED BY <1>1, <1>3 DEF Flight

LEMMA FlightStays ==
    ASSUME OneAtATime, ~ReadFails, Remembers, Flight, [Next]_vars
    PROVE  Flight'
<1>1. Expiry' /\ Grounded /\ Timely
    BY ExpiryStays DEF Flight, Expiry
<1>2. PICK r \in Runs : Runs = {r}
    BY DEF OneAtATime
<1>3. Flying(r) /\ Alone(r)
    BY DEF Flight
<1>4. Alone(r)'
    BY <1>1, <1>2, <1>3, AloneStays
<1>5. ASSUME Network PROVE Flying(r)'
    BY <1>1, <1>2, <1>3, <1>5, NetworkFlies
<1>6. ASSUME Person PROVE Flying(r)'
    <2>1. ASSUME NEW t \in Tabs, GateRead(t) \/ Review(t) \/ Leave(t) \/ Crash(t) PROVE Flying(r)'
        BY <1>1, <1>3, <2>1, GateReadFlies, ReviewFlies, LeaveFlies
    <2>2. ASSUME Start(r) \/ StartRefused(r) \/ AskCheck(r) \/ AskGate(r) PROVE Flying(r)'
        BY <1>1, <1>3, <2>2, StartFlies, AskFlies
    <2>3. ASSUME NEW s \in Sessions, Dismiss(s) PROVE Flying(r)'
        BY <1>1, <1>3, <2>3, DismissFlies
    <2> QED BY <1>2, <1>6, <2>1, <2>2, <2>3 DEF Person
<1>7. ASSUME Engine(r) PROVE Flying(r)'
    <2>1. CASE Answered(r) \/ ReadRecorded(r) \/ EnsureSession(r) \/ SettleLeftOver(r)
        BY <1>1, <1>3, <2>1, AnsweredFlies, ReadRecordedFlies, EnsureSessionFlies, SettleLeftOverFlies
    <2>2. CASE EnsureFails(r)
        <3>1. run[r].pc = "ensure" /\ Live = {}
            BY <1>3, <2>2, NoneLive DEF EnsureFails, At
        <3> QED BY <1>1, <1>3, <2>2, <3>1, EndFlies DEF EnsureFails
    <2>3. CASE Fetching(r)
        BY <1>1, <1>3, <2>3, FetchingFlies
    <2>4. CASE Submitting(r)
        BY <1>1, <1>2, <1>3, <2>4, PreparingFlies, KeepHashFlies, HoldInStoreFlies, SendFlies,
           AnswersFly, LookUpFlies DEF Submitting
    <2>5. CASE Clearing(r)
        BY <1>1, <1>3, <2>5, ListingFlies, DroppedFlies DEF Clearing
    <2> QED BY <1>7, <2>1, <2>2, <2>3, <2>4, <2>5 DEF Engine
<1>8. ASSUME UNCHANGED vars PROVE Flying(r)'
    <2>1. UNCHANGED <<run, tab, unconfirmed>> /\ Live' = Live
        BY <1>8, SameLive DEF vars, savedVars
    <2> QED BY <1>3, <2>1 DEF Flying
<1>9. Flying(r)'
    BY <1>2, <1>5, <1>6, <1>7, <1>8 DEF Next
<1> QED BY <1>1, <1>2, <1>4, <1>9 DEF Flight

\* In one tab, with one thing done at a time, whatever the network, the API, the signer and
\* other wallets do, and however often the tab crashes or the close is left.
THEOREM FlightHolds ==
    ASSUME OneAtATime, ~ReadFails, Remembers
    PROVE  Spec => []Flight
BY InitFlight, FlightStays, PTL DEF Spec

LEMMA LiveIsKnown ==
    ASSUME OneAtATime, Flight, NEW i \in Ids, CanLand(i)
    PROVE  \E r \in Runs : /\ Runs = {r}
                           /\ Known(run[r], tab[TabOf[r]], unconfirmed[SessionOf[r]], i)
<1>1. PICK r \in Runs : Runs = {r}
    BY DEF OneAtATime
<1>2. i \in Live
    BY DEF Live
<1> QED BY <1>1, <1>2 DEF Flight, Flying, FlightOK

\* At most one transaction of the account can still reach a ledger: the loop never signs
\* and sends one (keepDurably, submitUnlessSubmitted) while an earlier one is unsettled.
THEOREM OnlyOneInFlight ==
    ASSUME OneAtATime, ~ReadFails, Remembers
    PROVE  Spec => []OneInFlight
<1>1. Flight => OneInFlight
    <2> SUFFICES ASSUME Flight, NEW i \in Ids, NEW j \in Ids, CanLand(i), CanLand(j) PROVE i = j
        BY DEF OneInFlight
    <2>1. PICK r \in Runs : Runs = {r} /\ unconfirmed[SessionOf[r]] = i
        BY LiveIsKnown DEF Known
    <2>2. PICK q \in Runs : unconfirmed[SessionOf[q]] = j
        BY LiveIsKnown DEF Known
    <2> QED BY <2>1, <2>2
<1> QED BY <1>1, FlightHolds, PTL

\* What may still land is named by a saved close: recordSubmission writes the hash before
\* the first send, and clearUnconfirmedFor drops it only once it is settled.
THEOREM FlightIsHeld ==
    ASSUME OneAtATime, ~ReadFails, Remembers
    PROVE  Spec => []InFlightIsHeld
<1>1. Flight => InFlightIsHeld
    BY LiveIsKnown, EngineAssumption DEF InFlightIsHeld, Known
<1> QED BY <1>1, FlightHolds, PTL

\* A page that says the close failed, and offers a retry, does so only once nothing of it
\* can land any more.
THEOREM FailedIsSettled ==
    ASSUME OneAtATime, ~ReadFails, Remembers
    PROVE  Spec => []FailedMeansSettled
<1>1. Flight => FailedMeansSettled
    <2> SUFFICES ASSUME Flight, NEW t \in Tabs, tab[t].phase = "failed", NEW i \in Ids, CanLand(i)
                 PROVE  FALSE
        BY DEF FailedMeansSettled
    <2>1. PICK r \in Runs : Known(run[r], tab[TabOf[r]], unconfirmed[SessionOf[r]], i)
        BY LiveIsKnown
    <2>2. t = TabOf[r]
        BY DEF Flight, Alone
    <2> QED BY <2>1, <2>2 DEF Known
<1> QED BY <1>1, FlightHolds, PTL
-----------------------------------------------------------------------------
(***************************************************************************)
(* The loop implements the contract of a close: a send is the hand-over, a *)
(* ledger, a bound that passes or a refusal settles it, and a page tells.  *)
(***************************************************************************)

MergeApplied == \E i \in Ids : Closed(i)

Told == \E t \in Tabs : SaysClosed(t)

\* A merge that applied stays so; only a ledger applies one.
LEMMA MergeStep ==
    ASSUME Grounded, [Next]_vars
    PROVE  /\ MergeApplied => MergeApplied'
           /\ (\A i \in Ids : ~Land(i)) => MergeApplied' = MergeApplied
<1>0. /\ Len(tx) \in Nat /\ Len(tx') \in Nat /\ Len(tx) <= Len(tx')
      /\ \A i \in 1 .. Len(tx) : tx'[i].merge = tx[i].merge
    BY EnvelopesTyped, LedgerStep DEF Follows
<1>1. ASSUME NEW i \in Ids, Closed(i) PROVE i \in Ids' /\ Closed(i)'
    <2>1. tx[i].fate = "success" /\ tx[i].merge /\ i \in 1 .. Len(tx)
        BY <1>1 DEF Closed, Ids
    <2>2. tx'[i] = tx[i]
        BY <2>1, LedgerStep DEF CanLand, Waiting
    <2> QED BY <1>0, <2>1, <2>2 DEF Closed, Ids
<1>2. ASSUME \A i \in Ids : ~Land(i), NEW i \in Ids', Closed(i)' PROVE i \in Ids /\ Closed(i)
    <2>0. tx'[i].fate = "success" /\ tx'[i].merge /\ i \in 1 .. Len(tx')
        BY <1>2 DEF Closed, Ids
    <2>1. i \in 1 .. Len(tx)
        BY <2>0, LedgerStep
    <2>2. tx[i].fate = "success"
        <3>1. CASE UNCHANGED ledgerVars \/ Network
            BY <1>2, <2>0, <3>1 DEF ledgerVars, Network, Disturb, Tick
        <3>2. ASSUME NEW r \in Runs, KeepHash(r) PROVE tx[i].fate = "success"
            BY <2>0, <2>1, <3>2, KeepHashAppends
        <3>3. ASSUME NEW r \in Runs, Send(r) PROVE tx[i].fate = "success"
            <4>1. PICK f : run[r].sub \in 1 .. Len(tx) /\ tx' = [tx EXCEPT ![run[r].sub].fate = f]
                           /\ f = IF tx[run[r].sub].fate = "kept" THEN "sent" ELSE tx[run[r].sub].fate
                BY <3>3, SendFate
            <4>2. CASE i = run[r].sub
                BY <2>0, <4>1, <4>2, FateReplaced
            <4>3. CASE i # run[r].sub
                <5>1. \A j \in 1 .. Len(tx) : j # run[r].sub => tx'[j] = tx[j]
                    BY <4>1, FateReplaced
                <5> QED BY <2>0, <2>1, <4>3, <5>1
            <4> QED BY <4>2, <4>3
        <3>4. ASSUME NEW r \in Runs, AnswerRefused(r), tx' # tx PROVE tx[i].fate = "success"
            <4>1. PICK f : run[r].sub \in 1 .. Len(tx) /\ tx' = [tx EXCEPT ![run[r].sub].fate = f]
                           /\ f = IF tx[run[r].sub].fate = "sent" THEN "kept" ELSE tx[run[r].sub].fate
                BY <3>4, RefusedFate
            <4>2. /\ tx'[run[r].sub].fate = f
                  /\ \A j \in 1 .. Len(tx) : j # run[r].sub => tx'[j] = tx[j]
                BY <4>1, FateReplaced
            <4> QED BY <2>0, <2>1, <4>1, <4>2
        <3>5. CASE tx' = tx
            BY <2>0, <3>5
        <3> QED BY <3>1, <3>2, <3>3, <3>4, <3>5, WhoTouchesLedger
    <2> QED BY <1>0, <2>0, <2>1, <2>2 DEF Closed, Ids
<1>3. MergeApplied => MergeApplied'
    BY <1>1 DEF MergeApplied
<1>4. ASSUME \A i \in Ids : ~Land(i) PROVE MergeApplied' => MergeApplied
    BY <1>2, <1>4 DEF MergeApplied
<1>5. MergeApplied \in BOOLEAN /\ MergeApplied' \in BOOLEAN
    BY DEF MergeApplied
<1> QED BY <1>3, <1>4, <1>5

LEMMA ContractStep ==
    ASSUME OneAtATime, ~ReadFails, Remembers, Flight, CompleteMeansClosed', [Next]_vars
    PROVE  [Promise!ContractNext]_(Promise!contractVars)
<1> DEFINE stays == UNCHANGED <<Live, MergeApplied, Told>>
           handOver == Live = {} /\ Live' # {} /\ (\A h, k \in Live' : h = k)
                       /\ UNCHANGED <<MergeApplied, Told>>
           settle == Live # {} /\ Live' = {} /\ MergeApplied' \in {MergeApplied, TRUE} /\ UNCHANGED Told
           tell == MergeApplied /\ Told' = TRUE /\ UNCHANGED <<Live, MergeApplied>>
           forget == Told' = FALSE /\ UNCHANGED <<Live, MergeApplied>>
           step == stays \/ handOver \/ settle \/ tell \/ forget
<1>0. Grounded /\ Timely
    BY DEF Flight, Expiry
<1>1. PICK r \in Runs : Runs = {r}
    BY DEF OneAtATime
<1>2. /\ Flying(r) /\ TabOf[r] \in Tabs /\ run[r] \in RunType /\ run \in [Runs -> RunType]
      /\ tab \in [Tabs -> TabType]
    BY <1>0, RunIsOK, TabIsOK DEF Flight
<1>3. \A i, j \in Live : i = j
    BY <1>2 DEF Flying, FlightOK, Known
<1>4. MergeApplied' \in {MergeApplied, TRUE} /\ (~(\E i \in Ids : Land(i)) => MergeApplied' = MergeApplied)
    <2>1. MergeApplied \in BOOLEAN /\ MergeApplied' \in BOOLEAN
        BY DEF MergeApplied
    <2> QED BY <1>0, <2>1, MergeStep
<1>5. UNCHANGED tab => Told' = Told
    BY DEF Told, SaysClosed
<1>6. ~Send(r) => Live' \subseteq Live
    BY <1>0, <1>1, LiveStep
<1>7. ASSUME UNCHANGED ledgerVars PROVE step
    <2>1. Live' = Live /\ MergeApplied' = MergeApplied
        BY <1>7, SameLive DEF ledgerVars, MergeApplied, Closed, Ids
    <2>2. Told' => MergeApplied'
        BY DEF CompleteMeansClosed, Told, MergeApplied
    <2>3. Told' \in BOOLEAN /\ Told \in BOOLEAN
        BY DEF Told
    <2> HIDE DEF Live
    <2>4. tell \/ forget
        BY <2>1, <2>2, <2>3
    <2> QED BY <2>4
<1>8. ASSUME Network PROVE step
    <2>1. UNCHANGED <<tab, run>> /\ Told' = Told
        BY <1>5, <1>8 DEF Network
    <2>2. ~Send(r)
        <3>1. Send(r) => run[r].pc = "send" /\ run'[r].pc = "answer"
            BY <1>2 DEF Send, At, RunType
        <3> QED BY <2>1, <3>1
    <2>3. Live' \subseteq Live
        BY <1>6, <2>2
    <2>4. ASSUME NEW i \in Ids, Land(i) PROVE settle
        <3>1. i \in Live /\ i \notin Live'
            <4>1. CanLand(i) /\ tx'[i].fate # "sent"
                BY <1>0, <2>4, LandFate
            <4> QED BY <4>1 DEF Live, CanLand
        <3> HIDE DEF Live
        <3>2. Live' = {}
            BY <1>3, <2>3, <3>1
        <3> QED BY <1>4, <2>1, <3>1, <3>2
    <2>5. ASSUME \A i \in Ids : ~Land(i) PROVE stays \/ settle
        <3>1. MergeApplied' = MergeApplied
            BY <1>4, <2>5
        <3> HIDE DEF Live
        <3>2. Live' = Live \/ (Live # {} /\ Live' = {})
            BY <1>3, <2>3
        <3> QED BY <2>1, <3>1, <3>2
    <2> QED BY <2>4, <2>5
<1>9. ASSUME KeepHash(r) PROVE step
    <2>1. run[r].pc = "save" /\ Told' = Told
        BY <1>5, <1>9 DEF KeepHash, At
    <2>2. Live = {} /\ ~Send(r)
        BY <1>2, <2>1, NoneLive DEF Send, At
    <2>3. Live' = {}
        BY <1>6, <2>2
    <2>4. \A i \in Ids : ~Land(i)
        <3>1. ASSUME NEW i \in Ids, Land(i) PROVE FALSE
            BY <2>2, <3>1 DEF Land, Live
        <3> QED BY <3>1
    <2> HIDE DEF Live
    <2> QED BY <1>4, <2>1, <2>2, <2>3, <2>4
<1>10. ASSUME Send(r) PROVE step
    <2>1. run[r].pc = "send" /\ Told' = Told /\ run[r].sub \in 1 .. Len(tx) /\ UNCHANGED <<seqNum, ltime, open>>
        BY <1>0, <1>5, <1>10, SendFate DEF Send, At
    <2>2. \A i \in Ids : ~Land(i)
        <3>1. ASSUME NEW i \in Ids, Land(i) PROVE FALSE
            <4>1. seqNum' = seqNum + 1 /\ seqNum \in Nat
                BY <1>0, <3>1, LandFate, EnvelopesTyped
            <4> QED BY <2>1, <4>1
        <3> QED BY <3>1
    <2>3. MergeApplied' = MergeApplied
        BY <1>4, <2>2
    <2>4. \A i \in Live : i = run[r].sub
        BY <1>2, <2>1 DEF Flying, FlightOK, Known
    <2>5. \A i \in Live' : i = run[r].sub
        BY <1>0, <1>1, <2>4, LiveStep
    <2>6. Live = {} \/ Live' = Live
        <3> SUFFICES ASSUME Live # {} PROVE Live' = Live
            OBVIOUS
        <3>1. PICK i \in Live : i = run[r].sub
            BY <2>4
        <3>2. i \in 1 .. Len(tx) /\ tx[i].fate = "sent" /\ ~Spent(i)
            BY <3>1 DEF Live, CanLand, Ids
        <3>3. tx' = [tx EXCEPT ![i].fate = tx[i].fate]
            <4>1. tx' = [tx EXCEPT ![run[r].sub].fate =
                        IF tx[run[r].sub].fate = "kept" THEN "sent" ELSE tx[run[r].sub].fate]
                BY <1>0, <1>10, SendFate
            <4> QED BY <3>1, <3>2, <4>1
        <3>4. Len(tx') = Len(tx) /\ Follows(tx, tx') /\ tx'[i].fate = tx[i].fate
            BY <1>0, <3>2, <3>3, FateReplaced
        <3>5. i \in Live'
            BY <2>1, <3>2, <3>4 DEF Live, CanLand, Spent, Ids, Follows
        <3> HIDE DEF Live
        <3> QED BY <2>4, <2>5, <3>1, <3>5
    <2> HIDE DEF Live
    <2>7. stays \/ handOver
        BY <2>1, <2>3, <2>5, <2>6
    <2> QED BY <2>7
<1>11. ASSUME AnswerRefused(r) PROVE step
    <2>1. ~Send(r) /\ run[r].pc = "answer" /\ run[r].sub \in 1 .. Len(tx) /\ seqNum' = seqNum
        BY <1>0, <1>11, RefusedFate DEF Send, AnswerRefused, At
    <2>2. \A i \in Ids : ~Land(i)
        <3>1. ASSUME NEW i \in Ids, Land(i) PROVE FALSE
            <4>1. seqNum' = seqNum + 1 /\ seqNum \in Nat
                BY <1>0, <3>1, LandFate, EnvelopesTyped
            <4> QED BY <2>1, <4>1
        <3> QED BY <3>1
    <2>3. MergeApplied' = MergeApplied /\ Live' \subseteq Live
        BY <1>4, <1>6, <2>1, <2>2
    <2>4. Told' = Told
        <3>1. \A t \in Tabs : tab'[t].phase = tab[t].phase /\ tab'[t].finished = tab[t].finished
            BY <1>2, <1>11 DEF AnswerRefused, ClearHold, TabType
        <3> QED BY <3>1 DEF Told, SaysClosed
    <2> HIDE DEF Live
    <2>5. Live' = Live \/ (Live # {} /\ Live' = {})
        BY <1>3, <2>3
    <2> QED BY <2>3, <2>4, <2>5
<1>12. step
    BY <1>0, <1>1, <1>7, <1>8, <1>9, <1>10, <1>11, WhoTouchesLedger
<1> QED BY <1>12 DEF Promise!ContractNext, Promise!contractVars, Promise!HandOver, Promise!Settle,
           Promise!Tell, Promise!Forget, Live, MergeApplied, Told

\* The close loop implements the contract of a close: at most one of the person's
\* transactions is open at any time, and the account is called closed only once a merge of
\* theirs applied.
THEOREM KeepsTheContract ==
    ASSUME OneAtATime, ~ReadFails, Remembers
    PROVE  Spec => KeepsContract
<1>1. Init => Promise!ContractInit
    <2> SUFFICES ASSUME Init PROVE Promise!ContractInit
        OBVIOUS
    <2>1. Ids = {}
        BY DEF Init, LedgerInit, Ids
    <2>2. \A t \in Tabs : ~SaysClosed(t)
        BY DEF Init, FreshTab, SaysClosed
    <2> QED BY <2>1, <2>2 DEF Promise!ContractInit
<1>2. Flight /\ CompleteMeansClosed' /\ [Next]_vars => [Promise!ContractNext]_(Promise!contractVars)
    BY ContractStep
<1> QED BY <1>1, <1>2, FlightHolds, CompleteIsTrue, PTL DEF Spec, KeepsContract, Promise!Contract
-----------------------------------------------------------------------------
(***************************************************************************)
(* The plan's hash: a round is asked for with the hash of the plan that    *)
(* was reviewed, until a transaction of this browser changed the account.  *)
(***************************************************************************)

\* While nobody else changes the account, its cleanup goes one sequence number at a time, and
\* its merge comes after the last of it: the sequence number of that last one.
LastCleanup == seqNum + work - IF open THEN 0 ELSE 1

Fits(e, last) == IF e.merge THEN e.seq = last + 1 ELSE e.seq <= last

\* So what was built fits what is left of the account, and what lands succeeds.
LedgerFits ==
    disturbed = 0 =>
        \A i \in 1 .. Len(tx) : Fits(tx[i], LastCleanup) /\ tx[i].fate # "failed"

QueueFits(q) == disturbed = 0 => \A k \in 1 .. Len(q) : Fits(q[k], LastCleanup)

AnySuccess(T) == \E i \in 1 .. Len(T) : T[i].fate = "success"

Checking(me) == me.mine /\ me.pc \in {"asked", "list", "drop"}

\* What a page shows while a check of it is under way, or the run of a close that was left.
PageOK(me, it) ==
    /\ it.gate # NoSession => it.phase = "planning"
    /\ me.pc # "idle" /\ ~me.mine => it.phase \in {"loading", "planning", "review"}
    /\ Checking(me) /\ me.who = "gate" => it.gate # NoSession
    /\ Checking(me) /\ me.who = "check" => it.phase = "unconfirmed"
    /\ me.pc = "fetch" => ~me.paused

\* Until a round is asked for, the run's hash is the one the page has.
HashOK(me, it) ==
    me.mine /\ ~me.paused /\ (me.pc \in {"left", "fetch"} \/ (me.pc \in {"list", "drop"} /\ me.who = "left"))
        => me.hash = it.plan

\* A transaction of the plan succeeded, and the page is about to learn of it: it is the one the
\* page holds, or a lookup has just confirmed it.
Due(me, it, T) ==
    \/ /\ it.held # 0 /\ T[it.held].fate = "success"
       /\ it.phase \in {"executing", "unconfirmed", "failed"}
       /\ me.pc = "idle" \/ (me.mine /\ me.pc \in {"asked", "recorded", "ensure", "left", "send", "answer", "lookup"})
       /\ me.pc \in {"asked", "left", "send", "answer", "lookup"} => me.sub = it.held
    \/ me.mine /\ me.pc \in {"list", "drop"} /\ me.who # "gate" /\ me.outcome = "confirmed"

PlanOK(me, it, T, s, d) ==
    it.phase \notin {"loading", "planning"} =>
        IF it.plan = NoPlan THEN AnySuccess(T) ELSE d = 0 => it.plan = s \/ Due(me, it, T)

Followed(me, it, T, s, d) == PageOK(me, it) /\ HashOK(me, it) /\ PlanOK(me, it, T, s, d)

Following(r) == Followed(run[r], tab[TabOf[r]], tx, seqNum, disturbed)

Planned == Flight /\ LedgerFits /\ \A r \in Runs : Following(r) /\ QueueFits(run[r].queue)

-----------------------------------------------------------------------------
(***************************************************************************)
(* What was built keeps fitting the account.                               *)
(***************************************************************************)

\* Only a ledger gives a transaction its outcome.
LEMMA NoLanding ==
    ASSUME Grounded, [Next]_vars, \A i \in Ids : ~Land(i)
    PROVE  \A i \in 1 .. Len(tx) : tx'[i].fate = tx[i].fate \/ (Waiting(tx, i) /\ Waiting(tx', i))
<1>1. CASE UNCHANGED ledgerVars \/ Network
    BY <1>1 DEF ledgerVars, Network, Disturb, Tick
<1>2. ASSUME NEW r \in Runs, KeepHash(r)
      PROVE  \A i \in 1 .. Len(tx) : tx'[i].fate = tx[i].fate
    BY <1>2, KeepHashAppends
<1>3. ASSUME NEW r \in Runs, Send(r) \/ AnswerRefused(r), tx' # tx
      PROVE  \A i \in 1 .. Len(tx) : tx'[i].fate = tx[i].fate \/ (Waiting(tx, i) /\ Waiting(tx', i))
    <2>1. PICK f : /\ run[r].sub \in 1 .. Len(tx) /\ tx' = [tx EXCEPT ![run[r].sub].fate = f]
                   /\ f = tx[run[r].sub].fate \/ (Waiting(tx, run[r].sub) /\ f \in {"kept", "sent"})
        BY <1>3, SendFate, RefusedFate DEF Waiting
    <2>2. tx'[run[r].sub].fate = f /\ \A j \in 1 .. Len(tx) : j # run[r].sub => tx'[j] = tx[j]
        BY <2>1, FateReplaced
    <2> QED BY <2>1, <2>2 DEF Waiting
<1> QED BY <1>1, <1>2, <1>3, WhoTouchesLedger

LEMMA SuccessStays ==
    ASSUME Grounded, [Next]_vars
    PROVE  /\ \A i \in 1 .. Len(tx) : tx[i].fate = "success" => i \in 1 .. Len(tx') /\ tx'[i].fate = "success"
           /\ AnySuccess(tx) => AnySuccess(tx')
<1>1. Len(tx) \in Nat /\ Len(tx') \in Nat /\ Len(tx) <= Len(tx')
    BY EnvelopesTyped, LedgerStep DEF Follows
<1>2. ASSUME NEW i \in 1 .. Len(tx), tx[i].fate = "success"
      PROVE  i \in 1 .. Len(tx') /\ tx'[i].fate = "success"
    BY <1>1, <1>2, LedgerStep DEF CanLand, Waiting
<1> QED BY <1>2 DEF AnySuccess

\* What lands fits, and then it succeeds.
LEMMA LandFits ==
    ASSUME Grounded, LedgerFits, disturbed = 0, NEW i \in Ids, Land(i)
    PROVE  tx'[i].fate = "success" /\ LastCleanup' = LastCleanup
<1>0. /\ tx \in Seq(TxType) /\ i \in 1 .. Len(tx) /\ tx[i] \in TxType /\ Len(tx) \in Nat
      /\ seqNum \in Nat /\ work \in Nat /\ open
    BY EnvelopesTyped DEF Ids, Land, CanLand, Spent
<1>1. tx[i].merge \in BOOLEAN /\ tx[i].seq \in Nat
    BY <1>0 DEF TxType
<1>2. tx[i].seq = seqNum + 1 /\ seqNum' = seqNum + 1
    BY DEF Land
<1>3. LastCleanup = seqNum + work
    BY <1>0 DEF LastCleanup
<1>4. IF tx[i].merge THEN work = 0 ELSE work > 0
    BY <1>0, <1>1, <1>2, <1>3 DEF LedgerFits, Fits
<1>5. /\ tx' = [tx EXCEPT ![i].fate = "success", ![i].at = ltime]
      /\ open' = ~tx[i].merge /\ work' = IF tx[i].merge THEN work ELSE work - 1
    BY <1>1, <1>4 DEF Land
<1>6. tx'[i].fate = "success"
    BY <1>0, <1>5 DEF TxType
<1>7. CASE tx[i].merge
    <2>1. ~open' /\ work' = 0 /\ work = 0
        BY <1>4, <1>5, <1>7
    <2> QED BY <1>0, <1>2, <1>3, <1>6, <2>1 DEF LastCleanup
<1>8. CASE ~tx[i].merge
    <2>1. open' /\ work' = work - 1
        BY <1>5, <1>8
    <2> QED BY <1>0, <1>2, <1>3, <1>6, <2>1 DEF LastCleanup
<1> QED BY <1>7, <1>8

LEMMA UndisturbedStep ==
    ASSUME Grounded, LedgerFits, [Next]_vars, disturbed' = 0
    PROVE  /\ disturbed = 0 /\ LastCleanup' = LastCleanup
           /\ \A i \in 1 .. Len(tx) : tx'[i].fate # "failed"
<1>0. disturbed \in Nat /\ \A i \in Ids : i \in 1 .. Len(tx)
    BY DEF Grounded, TypeOK, LedgerTypeOK, Ids
<1>1. CASE UNCHANGED ledgerVars
    BY <1>1 DEF ledgerVars, LastCleanup, LedgerFits
<1>2. CASE Disturb
    BY <1>0, <1>2 DEF Disturb
<1>3. CASE Tick
    BY <1>3 DEF Tick, LastCleanup, LedgerFits
<1>4. ASSUME NEW i \in Ids, Land(i)
      PROVE  disturbed = 0 /\ LastCleanup' = LastCleanup /\ \A j \in 1 .. Len(tx) : tx'[j].fate # "failed"
    <2>1. disturbed = 0
        BY <1>4 DEF Land
    <2>2. tx'[i].fate = "success" /\ LastCleanup' = LastCleanup
        BY <1>4, <2>1, LandFits
    <2>3. \A j \in 1 .. Len(tx) : j # i => tx'[j] = tx[j]
        BY <1>4, LandFate
    <2> QED BY <2>1, <2>2, <2>3 DEF LedgerFits
<1>5. ASSUME NEW r \in Runs, KeepHash(r) \/ Send(r) \/ AnswerRefused(r)
      PROVE  disturbed = 0 /\ LastCleanup' = LastCleanup /\ \A j \in 1 .. Len(tx) : tx'[j].fate # "failed"
    <2>1. UNCHANGED <<open, seqNum, work, disturbed>>
        BY <1>5, KeepHashAppends, SendFate, RefusedFate
    <2>2. \A i \in Ids : ~Land(i)
        BY <2>1, EnvelopesTyped DEF Land
    <2> QED BY <2>1, <2>2, NoLanding DEF LastCleanup, LedgerFits, Waiting
<1> QED BY <1>1, <1>2, <1>3, <1>4, <1>5, WhoTouchesLedger DEF Network

LEMMA LedgerFitsStays ==
    ASSUME Grounded, LedgerFits, [Next]_vars, NEW r \in Runs, Runs = {r}, QueueFits(run[r].queue)
    PROVE  LedgerFits'
<1> SUFFICES ASSUME disturbed' = 0, NEW i \in 1 .. Len(tx')
             PROVE  Fits(tx'[i], LastCleanup') /\ tx'[i].fate # "failed"
    BY DEF LedgerFits
<1>0. disturbed = 0 /\ LastCleanup' = LastCleanup
    BY UndisturbedStep
<1>1. CASE i \in 1 .. Len(tx)
    BY <1>0, <1>1, UndisturbedStep, LedgerStep DEF Follows, Fits, LedgerFits
<1>2. CASE i \notin 1 .. Len(tx)
    <2>0. tx \in Seq(TxType) /\ Len(tx) \in Nat
        BY EnvelopesTyped
    <2>1. KeepHash(r)
        <3>1. CASE UNCHANGED ledgerVars \/ Disturb \/ Tick
            BY <1>2, <3>1 DEF ledgerVars, Disturb, Tick
        <3>2. ASSUME NEW j \in Ids, Land(j) PROVE FALSE
            BY <1>2, <3>2, LandFate
        <3>3. ASSUME Send(r) \/ AnswerRefused(r) PROVE FALSE
            <4>1. Len(tx') = Len(tx)
                BY <3>3, SendFate, RefusedFate, FateReplaced
            <4> QED BY <1>2, <4>1
        <3> QED BY <3>1, <3>2, <3>3, WhoTouchesLedger DEF Network
    <2>2. run[r] \in RunType /\ run[r].queue # <<>>
        BY <2>1, RunIsOK DEF KeepHash, At, RunOK, Signing
    <2>3. run[r].queue \in Seq(Item) /\ Len(run[r].queue) \in Nat \ {0}
        BY <2>2 DEF RunType
    <2>4. Fits(Head(run[r].queue), LastCleanup)
        BY <1>0, <2>3 DEF QueueFits
    <2>5. tx' = Append(tx, NewTx(r))
        BY <2>1 DEF KeepHash
    <2>6. i = Len(tx) + 1 /\ tx'[i] = NewTx(r)
        BY <1>2, <2>0, <2>5
    <2> QED BY <1>0, <2>4, <2>6 DEF NewTx, Fits
<1> QED BY <1>1, <1>2

\* What is built from the live account fits it.
LEMMA RoundsFit ==
    ASSUME Grounded, open, NEW b \in Rounds
    PROVE  \A k \in 1 .. Len(b.txs) : Fits(b.txs[k], LastCleanup)
<1>0. seqNum \in Nat /\ work \in Nat /\ LastCleanup = seqNum + work
    BY EnvelopesTyped DEF LastCleanup
<1> PICK until : b \in RoundsUntil(until)
    BY DEF Rounds
<1>1. ASSUME NEW n \in Nat, n <= work
      PROVE  \A k \in 1 .. Len(Cleanup(n, until)) : Fits(Cleanup(n, until)[k], LastCleanup)
    BY <1>0, <1>1 DEF Cleanup, BuildItem, Fits
<1>2. CASE work = 0
    BY <1>0, <1>2 DEF RoundsUntil, BuildItem, Fits
<1>3. CASE work # 0
    BY <1>0, <1>1, <1>3 DEF RoundsUntil
<1> QED BY <1>2, <1>3

\* A round's transactions leave its queue one by one.
Shrinks(p, q) == q \in {p, <<>>} \/ (p # <<>> /\ q = Tail(p))

LEMMA QueueShrinks ==
    ASSUME Grounded, LedgerFits, [Next]_vars, NEW r \in Runs, QueueFits(run[r].queue),
           Shrinks(run[r].queue, run'[r].queue)
    PROVE  QueueFits(run[r].queue)'
<1> SUFFICES ASSUME disturbed' = 0, NEW k \in 1 .. Len(run'[r].queue)
             PROVE  Fits(run'[r].queue[k], LastCleanup')
    BY DEF QueueFits
<1>0. disturbed = 0 /\ LastCleanup' = LastCleanup
    BY UndisturbedStep
<1>1. run[r].queue \in Seq(Item)
    BY RunIsOK DEF RunType
<1>2. CASE run'[r].queue = Tail(run[r].queue) /\ run[r].queue # <<>>
    <2>1. k + 1 \in 1 .. Len(run[r].queue) /\ run'[r].queue[k] = run[r].queue[k + 1]
        BY <1>1, <1>2
    <2> QED BY <1>0, <2>1 DEF QueueFits
<1> QED BY <1>0, <1>2 DEF QueueFits, Shrinks
-----------------------------------------------------------------------------
(***************************************************************************)
(* A run that goes on, one that ends, and a ledger that moves on.          *)
(***************************************************************************)

LEMMA GoesOn ==
    ASSUME NEW me, NEW it, NEW T, NEW s, NEW d, Followed(me, it, T, s, d),
           NEW you, NEW then, me.pc # "idle", you.mine = me.mine,
           then.phase = it.phase, then.gate = it.gate, then.plan = it.plan,
           Checking(you) => you.who \in {"left", "tx"} \/ (Checking(me) /\ you.who = me.who),
           you.pc = "fetch" => ~you.paused,
           HashOK(you, then),
           Due(me, it, T) => Due(you, then, T)
    PROVE  Followed(you, then, T, s, d)
<1>1. PageOK(you, then)
    BY DEF Followed, PageOK
<1>2. PlanOK(you, then, T, s, d)
    BY DEF Followed, PlanOK
<1> QED BY <1>1, <1>2 DEF Followed

\* The same, of a run that has nothing to learn of.
LEMMA GoesOnQuietly ==
    ASSUME NEW me, NEW it, NEW T, NEW s, NEW d, Followed(me, it, T, s, d),
           NEW you, NEW then, me.pc \in {"fetch", "explain", "sign", "keep", "save", "saved"},
           you.pc \in {"explain", "sign", "keep", "save", "saved", "send"}, you.mine = me.mine,
           then.phase = it.phase, then.gate = it.gate, then.plan = it.plan
    PROVE  Followed(you, then, T, s, d)
<1>1. ~Checking(you) /\ HashOK(you, then) /\ ~Due(me, it, T)
    BY DEF Checking, HashOK, Due
<1> QED BY <1>1, GoesOn

LEMMA MovesOn ==
    ASSUME NEW me, NEW it, NEW T, NEW U, NEW s, NEW d, Followed(me, it, T, s, d),
           \A i \in 1 .. Len(T) : T[i].fate = "success" => i \in 1 .. Len(U) /\ U[i].fate = "success",
           it.held # 0 => it.held \in 1 .. Len(T)
    PROVE  Followed(me, it, U, s, d)
<1>1. AnySuccess(T) => AnySuccess(U)
    BY DEF AnySuccess
<1>2. Due(me, it, T) => Due(me, it, U)
    BY DEF Due
<1> QED BY <1>1, <1>2 DEF Followed, PlanOK

\* A run that executes its close.
LEMMA PageOfRun ==
    ASSUME NEW r \in Runs, Flying(r), Executing(run[r])
    PROVE  tab[TabOf[r]].phase = "executing" /\ tab[TabOf[r]].gate = NoSession
BY DEF Flying, FlightOK

LEMMA Stops ==
    ASSUME Grounded, NEW r \in Runs, Flying(r), Following(r), UNCHANGED ledgerVars,
           run[r].pc # "idle", run[r].mine => Executing(run[r]),
           NEW cause \in Causes, NEW it \in TabType, NEW m, Ended(r, cause, it, m),
           \/ /\ it = tab[TabOf[r]]
              /\ Due(run[r], it, tx) => /\ it.held # 0 /\ tx[it.held].fate = "success"
                                        /\ cause \in {"unknown", "failed"}
           \/ /\ run[r].mine /\ it.plan = NoPlan /\ AnySuccess(tx)
              /\ it.phase = tab[TabOf[r]].phase /\ it.gate = tab[TabOf[r]].gate
    PROVE  Following(r)' /\ run'[r].queue \in {<<>>, run[r].queue}
<1> DEFINE t == TabOf[r]
<1>0. /\ run \in [Runs -> RunType] /\ tab \in [Tabs -> TabType] /\ t \in Tabs /\ run[r] \in RunType
      /\ UNCHANGED <<tx, seqNum, disturbed>> /\ it.held \in Nat
    BY RunIsOK, TabIsOK DEF ledgerVars, TabType
<1>1. run'[r].pc = "idle" /\ run'[r].queue \in {<<>>, run[r].queue}
    BY <1>0 DEF Ended, Idle
<1>2. ~Checking(run'[r]) /\ HashOK(run'[r], tab'[t])
    BY <1>1 DEF Checking, HashOK
<1>3. CASE ~run[r].mine
    <2>1. tab'[t] = it /\ it = tab[t] /\ ~Due(run[r], it, tx)
        BY <1>0, <1>3 DEF Ended, Owns, Due
    <2>2. Followed(run[r], it, tx, seqNum, disturbed)
        BY <2>1 DEF Following
    <2> HIDE DEF t
    <2>3. Followed(run'[r], it, tx, seqNum, disturbed)
        BY <1>1, <1>2, <2>1, <2>2 DEF Followed, PageOK, PlanOK
    <2> QED BY <1>0, <1>1, <2>1, <2>3 DEF Following, t
<1>4. CASE run[r].mine
    <2>1. it.phase = "executing" /\ it.gate = NoSession /\ tab[t].phase = "executing"
        BY <1>4, PageOfRun
    <2>2. /\ tab'[t].gate = NoSession /\ tab'[t].held = it.held
          /\ tab'[t].phase = EndPhase(cause, it.held, m)
          /\ tab'[t].plan = IF cause = "changed" /\ it.held = 0 THEN NoPlan ELSE it.plan
        <3>1. tab' = [tab EXCEPT ![t] =
                        [it EXCEPT !.phase = EndPhase(cause, it.held, m),
                                   !.plan = IF cause = "changed" /\ it.held = 0 THEN NoPlan ELSE it.plan]]
            BY <1>0, <1>4 DEF Ended, Owns, TabType
        <3> QED BY <1>0, <2>1, <3>1 DEF TabType
    <2>3. /\ cause = "changed" /\ it.held = 0 => tab'[t].phase = "planning"
          /\ cause \in {"unknown", "failed"} => tab'[t].phase \in {"unconfirmed", "failed"}
        BY <2>2 DEF EndPhase
    <2>4. PageOK(run'[r], tab'[t])
        BY <1>1, <1>2, <2>2 DEF PageOK
    <2>5. PlanOK(run'[r], tab'[t], tx, seqNum, disturbed)
        <3>1. CASE it.plan = NoPlan
            <4>1. AnySuccess(tx)
                BY <2>1, <3>1 DEF Following, Followed, PlanOK, t
            <4>2. tab'[t].plan = NoPlan
                BY <2>2, <3>1
            <4> QED BY <4>1, <4>2 DEF PlanOK
        <3>2. CASE it.plan # NoPlan
            <4>1. it = tab[t] /\ PlanOK(run[r], it, tx, seqNum, disturbed)
                BY <3>2 DEF Following, Followed
            <4>2. Due(run[r], it, tx) => Due(run'[r], tab'[t], tx)
                BY <1>1, <2>2, <2>3, <3>2 DEF Due
            <4>3. tab'[t].phase # "planning" => tab'[t].plan = it.plan
                BY <2>2, <2>3
            <4> HIDE DEF t
            <4> QED BY <2>1, <3>2, <4>1, <4>2, <4>3 DEF PlanOK
        <3> QED BY <3>1, <3>2
    <2> QED BY <1>0, <1>1, <1>2, <2>4, <2>5 DEF Following, Followed
<1> QED BY <1>3, <1>4

LEMMA StopsAsItIs ==
    ASSUME Grounded, NEW r \in Runs, Flying(r), Following(r), UNCHANGED ledgerVars,
           run[r].pc # "idle", run[r].mine => Executing(run[r]),
           NEW cause \in Causes, End(r, cause),
           Due(run[r], tab[TabOf[r]], tx) =>
               /\ tab[TabOf[r]].held # 0 /\ tx[tab[TabOf[r]].held].fate = "success"
               /\ cause \in {"unknown", "failed"}
    PROVE  Following(r)' /\ Shrinks(run[r].queue, run'[r].queue)
<1>1. tab[TabOf[r]] \in TabType
    BY RunIsOK, TabIsOK
<1> QED BY <1>1, Stops DEF End, Shrinks
-----------------------------------------------------------------------------
(***************************************************************************)
(* One step of the ledger, or of the pages.                                *)
(***************************************************************************)

\* What lands is what the page holds, or belongs to a page that has no plan.
LEMMA LandFollows ==
    ASSUME Grounded, LedgerFits, NEW r \in Runs, Flying(r), Following(r),
           NEW i \in Ids, Land(i), UNCHANGED <<run, tab>>, [Next]_vars
    PROVE  Following(r)'
<1> DEFINE me == run[r]
           it == tab[TabOf[r]]
<1>0. /\ CanLand(i) /\ i \in 1 .. Len(tx) /\ i # 0 /\ disturbed' = disturbed
      /\ TabOK(it, tx)
    BY LandFate, RunIsOK, TabIsOK DEF Ids
<1>1. Known(me, it, unconfirmed[SessionOf[r]], i)
    BY <1>0 DEF Flying, FlightOK, Live
<1>2. PageOK(me, it) /\ HashOK(me, it) /\ PlanOK(me, it, tx, seqNum, disturbed)
    BY DEF Following, Followed
<1>3. ASSUME it.phase \notin {"loading", "planning"}
      PROVE  IF it.plan = NoPlan THEN AnySuccess(tx') ELSE disturbed = 0 => Due(me, it, tx')
    <2>1. CASE it.plan = NoPlan
        BY <1>2, <1>3, <2>1, SuccessStays DEF PlanOK
    <2>2. ASSUME it.plan # NoPlan, disturbed = 0 PROVE Due(me, it, tx')
        <3>1. tx'[i].fate = "success"
            BY <2>2, LandFits
        <3>2. it.held = i /\ it.phase \in {"executing", "unconfirmed"}
            BY <1>1, <1>3 DEF Known
        <3>3. me.pc = "idle" \/ me.mine
            BY <1>2, <3>2 DEF PageOK
        <3> HIDE DEF me, it
        <3> QED BY <1>0, <1>1, <3>1, <3>2, <3>3 DEF Known, Due
    <2> QED BY <2>1, <2>2
<1>4. PlanOK(me, it, tx', seqNum', disturbed')
    BY <1>0, <1>3 DEF PlanOK
<1> QED BY <1>2, <1>4 DEF Following, Followed

LEMMA NetworkFollows ==
    ASSUME Grounded, LedgerFits, NEW r \in Runs, Flying(r), Following(r), Network
    PROVE  Following(r)'
<1>0. UNCHANGED <<run, tab>> /\ [Next]_vars /\ disturbed \in Nat
    BY DEF Network, Next, Grounded, TypeOK, LedgerTypeOK
<1>1. CASE Disturb
    <2>1. disturbed' # 0 /\ tx' = tx
        BY <1>0, <1>1 DEF Disturb
    <2> QED BY <1>0, <2>1 DEF Following, Followed, PlanOK
<1>2. CASE Tick
    BY <1>0, <1>2 DEF Tick, Following
<1> QED BY <1>0, <1>1, <1>2, LandFollows DEF Network

LEMMA PagesFollow ==
    ASSUME Grounded, NEW r \in Runs, Flying(r), Following(r),
           NEW t \in Tabs, GateRead(t) \/ Review(t) \/ Leave(t) \/ Crash(t)
    PROVE  Following(r)' /\ Shrinks(run[r].queue, run'[r].queue)
<1> DEFINE u == TabOf[r]
<1>0. /\ run \in [Runs -> RunType] /\ tab \in [Tabs -> TabType] /\ u \in Tabs /\ run[r] \in RunType
      /\ tab[t] \in TabType /\ UNCHANGED <<tx, seqNum, disturbed>>
    BY RunIsOK, TabIsOK DEF GateRead, Review, Leave, Crash, ledgerVars
<1>1. CASE t # u
    <2>1. tab'[u] = tab[u] /\ run'[r] = run[r]
        BY <1>0, <1>1 DEF GateRead, Review, Leave, Crash
    <2> QED BY <1>0, <2>1 DEF Following, Shrinks
<1>2. CASE t = u /\ (GateRead(t) \/ Review(t))
    <2>1. /\ tab[u].phase \in {"loading", "planning"} /\ run' = run
          /\ \/ tab'[u].phase = "planning" /\ tab[u].phase = "loading"
             \/ /\ tab'[u].phase = "review" /\ tab'[u].gate = NoSession /\ tab[u].gate = NoSession
                /\ tab'[u].plan = seqNum /\ seqNum \in Nat
        <3>1. CASE GateRead(t)
            <4>1. PICK s \in FindUnresolved :
                      tab' = [tab EXCEPT ![t].phase = "planning", ![t].held = 0, ![t].gate = s,
                                         ![t].gateTx = IF s = NoSession THEN 0 ELSE unconfirmed[s]]
                BY <3>1 DEF GateRead
            <4>2. tab'[t].phase = "planning"
                BY <1>0, <4>1 DEF TabType
            <4> QED BY <1>2, <3>1, <4>2 DEF GateRead
        <3>2. CASE Review(t)
            BY <1>0, <1>2, <3>2, EnvelopesTyped DEF Review, Shown, TabType
        <3> QED BY <1>2, <3>1, <3>2
    <2>2. ~Executing(run[r])
        BY <2>1, PageOfRun
    <2>3. PageOK(run[r], tab[u])
        BY DEF Following, Followed
    <2> HIDE DEF u
    <2>4. PageOK(run'[r], tab'[u])
        BY <2>1, <2>3 DEF PageOK
    <2>5. HashOK(run'[r], tab'[u])
        BY <2>1, <2>2 DEF HashOK, Executing
    <2>6. PlanOK(run'[r], tab'[u], tx, seqNum, disturbed)
        BY <2>1, EngineAssumption DEF PlanOK
    <2> QED BY <1>0, <2>1, <2>4, <2>5, <2>6 DEF Following, Followed, Shrinks, u
<1>3. CASE t = u /\ (Leave(t) \/ Crash(t))
    <2>1. tab'[u].phase = "loading" /\ tab'[u].gate = NoSession
        BY <1>0, <1>3 DEF Leave, Crash, FreshTab
    <2>2. run'[r] = Idle \/ run'[r] = [run[r] EXCEPT !.mine = FALSE]
        BY <1>0, <1>3 DEF Leave, Crash
    <2>3. /\ ~run'[r].mine /\ run'[r].queue \in {<<>>, run[r].queue}
          /\ run'[r].pc = "idle" \/ (run'[r].pc = run[r].pc /\ run'[r].paused = run[r].paused)
        BY <1>0, <2>2 DEF Idle, RunType
    <2>4. PageOK(run[r], tab[u])
        BY DEF Following, Followed
    <2> HIDE DEF u
    <2>5. Followed(run'[r], tab'[u], tx, seqNum, disturbed)
        BY <2>1, <2>3, <2>4 DEF Followed, PageOK, HashOK, PlanOK, Checking
    <2> QED BY <1>0, <2>3, <2>5 DEF Following, Shrinks, u
<1> QED BY <1>1, <1>2, <1>3

LEMMA ClicksFollow ==
    ASSUME Grounded, NEW r \in Runs, Flying(r), Following(r),
           Start(r) \/ StartRefused(r) \/ AskCheck(r) \/ AskGate(r)
    PROVE  Following(r)' /\ Shrinks(run[r].queue, run'[r].queue)
<1> DEFINE t == TabOf[r]
<1>0. /\ run \in [Runs -> RunType] /\ tab \in [Tabs -> TabType] /\ t \in Tabs /\ run[r] \in RunType
      /\ tab[t] \in TabType /\ UNCHANGED <<tx, seqNum, disturbed>> /\ run[r].pc = "idle"
    BY RunIsOK, TabIsOK DEF Start, StartRefused, AskCheck, AskGate, ledgerVars, CanBegin, At
<1>1. PageOK(run[r], tab[t]) /\ PlanOK(run[r], tab[t], tx, seqNum, disturbed)
    BY DEF Following, Followed
<1>2. CASE Start(r) \/ StartRefused(r)
    <2>1. /\ tab[t].gate = NoSession /\ tab'[t].gate = NoSession /\ tab'[t].held = tab[t].held
          /\ tab'[t].plan = tab[t].plan /\ tab'[t].phase \in {"executing", "failed"}
          /\ tab[t].phase \in {"review", "failed", "executing", "unconfirmed"}
        BY <1>0, <1>2 DEF Start, StartRefused, Offered, Shown, TabType
    <2>2. /\ \/ run'[r].pc = "idle"
             \/ run'[r].pc = "recorded" /\ run'[r].mine
          /\ run'[r].queue \in {<<>>, run[r].queue}
        BY <1>0, <1>2 DEF Start, StartRefused, Idle, RunType
    <2> HIDE DEF t
    <2>3. PageOK(run'[r], tab'[t]) /\ HashOK(run'[r], tab'[t])
        BY <2>1, <2>2 DEF PageOK, HashOK, Checking
    <2>4. Due(run[r], tab[t], tx) => Due(run'[r], tab'[t], tx)
        BY <1>0, <2>1, <2>2 DEF Due
    <2>5. PlanOK(run'[r], tab'[t], tx, seqNum, disturbed)
        BY <1>1, <2>1, <2>4 DEF PlanOK
    <2> QED BY <1>0, <2>2, <2>3, <2>5 DEF Following, Followed, Shrinks, t
<1>3. CASE AskCheck(r) \/ AskGate(r)
    <2>1. PICK who, i, s : /\ Ask(r, who, i, s)
                           /\ \/ who = "check" /\ i = tab[t].held /\ tab[t].phase = "unconfirmed"
                              \/ who = "gate" /\ tab[t].gate # NoSession
        BY <1>3 DEF AskCheck, AskGate
    <2>2. /\ run'[r].pc = "asked" /\ run'[r].mine /\ run'[r].who = who /\ run'[r].sub = i
          /\ run'[r].queue = <<>>
        BY <1>0, <2>1 DEF Ask, Idle
    <2>3. tab' = tab
        BY <1>3 DEF AskCheck, AskGate
    <2> HIDE DEF t
    <2>4. PageOK(run'[r], tab[t]) /\ HashOK(run'[r], tab[t])
        BY <1>1, <2>1, <2>2 DEF PageOK, HashOK, Checking
    <2>5. PlanOK(run'[r], tab[t], tx, seqNum, disturbed)
        BY <1>0, <1>1, <2>1, <2>2 DEF PageOK, PlanOK, Due
    <2> QED BY <1>0, <2>2, <2>3, <2>4, <2>5 DEF Following, Followed, Shrinks, t
<1> QED BY <1>2, <1>3
-----------------------------------------------------------------------------
(***************************************************************************)
(* One step of the run.                                                    *)
(***************************************************************************)

\* What a lookup settles of a transaction that succeeded is that it did.
LEMMA SuccessIsConfirmed ==
    ASSUME Remembers, Grounded, Timely, NEW i \in 1 .. Len(tx), tx[i].fate = "success",
           NEW o \in Resolution(i), o # "unknown"
    PROVE  o = "confirmed"
<1>1. o # "expired"
    BY ExpiredIsLapsed DEF Lapsed, Applied
<1>2. o # "failed"
    BY DEF Resolution
<1> QED BY <1>1, <1>2, ResolutionSettles

LEMMA AnsweredFollows ==
    ASSUME Remembers, Grounded, Timely, NEW r \in Runs, Flying(r), Following(r), Answered(r)
    PROVE  Following(r)' /\ Shrinks(run[r].queue, run'[r].queue)
<1> DEFINE t == TabOf[r]
<1>0. /\ run \in [Runs -> RunType] /\ tab \in [Tabs -> TabType] /\ t \in Tabs /\ run[r] \in RunType
      /\ tab[t] \in TabType /\ UNCHANGED <<tx, seqNum, disturbed>>
      /\ run[r].pc = "asked" /\ run[r].who \in {"check", "gate"} /\ run[r].sub \in 1 .. Len(tx)
    BY RunIsOK, TabIsOK DEF Answered, ledgerVars, At, RunOK, Settling, Names
<1>1. PageOK(run[r], tab[t]) /\ PlanOK(run[r], tab[t], tx, seqNum, disturbed)
    BY DEF Following, Followed
<1>2. CASE run' = [run EXCEPT ![r] = Idle] /\ tab' = tab
    <2>1. run'[r].pc = "idle" /\ run'[r].queue = <<>> /\ tab'[t] = tab[t]
        BY <1>0, <1>2 DEF Idle
    <2> HIDE DEF t
    <2>2. PageOK(run'[r], tab[t]) /\ HashOK(run'[r], tab[t])
        BY <1>1, <2>1 DEF PageOK, HashOK, Checking
    <2>3. Due(run[r], tab[t], tx) => Due(run'[r], tab[t], tx)
        BY <1>0, <2>1 DEF Due
    <2>4. PlanOK(run'[r], tab[t], tx, seqNum, disturbed)
        BY <1>1, <2>3 DEF PlanOK
    <2> QED BY <1>0, <2>1, <2>2, <2>4 DEF Following, Followed, Shrinks, t
<1>3. CASE \E o \in Resolution(run[r].sub) :
              /\ o # "unknown" /\ run' = [run EXCEPT ![r].pc = "list", ![r].outcome = o]
              /\ tab' = tab \/ tab' = [tab EXCEPT ![t].held = 0]
    <2>1. PICK o \in Resolution(run[r].sub) :
              /\ o # "unknown" /\ run' = [run EXCEPT ![r].pc = "list", ![r].outcome = o]
              /\ tab' = tab \/ tab' = [tab EXCEPT ![t].held = 0]
        BY <1>3
    <2>2. /\ run'[r].pc = "list" /\ run'[r].outcome = o /\ run'[r].who = run[r].who
          /\ run'[r].mine = run[r].mine /\ run'[r].queue = run[r].queue
        BY <1>0, <2>1 DEF RunType
    <2>3. tab'[t].phase = tab[t].phase /\ tab'[t].gate = tab[t].gate /\ tab'[t].plan = tab[t].plan
        BY <1>0, <2>1 DEF TabType
    <2> HIDE DEF t
    <2>4. ASSUME tab[t].phase \notin {"loading", "planning"}, Due(run[r], tab[t], tx)
          PROVE  Due(run'[r], tab'[t], tx)
        <3>1. run[r].mine /\ run[r].sub = tab[t].held /\ tx[run[r].sub].fate = "success"
            BY <1>0, <2>4 DEF Due
        <3>2. o = "confirmed"
            BY <1>0, <2>1, <3>1, SuccessIsConfirmed
        <3>3. run[r].who # "gate"
            BY <1>0, <1>1, <2>4, <3>1 DEF PageOK, Checking
        <3> QED BY <2>2, <3>1, <3>2, <3>3 DEF Due
    <2>5. PlanOK(run'[r], tab'[t], tx, seqNum, disturbed)
        BY <1>1, <2>3, <2>4 DEF PlanOK
    <2>6. PageOK(run'[r], tab'[t]) /\ HashOK(run'[r], tab'[t])
        BY <1>0, <1>1, <2>2, <2>3 DEF PageOK, HashOK, Checking
    <2> QED BY <1>0, <2>2, <2>5, <2>6 DEF Following, Followed, Shrinks, t
<1> QED BY <1>2, <1>3 DEF Answered

LEMMA StartsFollow ==
    ASSUME Grounded, NEW r \in Runs, Flying(r), Following(r),
           ReadRecorded(r) \/ EnsureSession(r) \/ EnsureFails(r)
    PROVE  Following(r)' /\ Shrinks(run[r].queue, run'[r].queue)
<1> DEFINE t == TabOf[r]
<1>0. /\ run \in [Runs -> RunType] /\ tab \in [Tabs -> TabType] /\ t \in Tabs /\ run[r] \in RunType
      /\ tab[t] \in TabType /\ UNCHANGED ledgerVars /\ UNCHANGED <<tx, seqNum, disturbed>>
      /\ run[r].pc \in {"recorded", "ensure"} /\ SessionOf[r] \in Sessions
    BY RunIsOK, TabIsOK DEF ReadRecorded, EnsureSession, EnsureFails, End, Ended, ledgerVars, At
<1>1. Followed(run[r], tab[t], tx, seqNum, disturbed)
    BY DEF Following
<1>2. CASE ReadRecorded(r)
    <2>1. /\ run'[r].pc = "ensure" /\ run'[r].mine = run[r].mine /\ run'[r].queue = run[r].queue
          /\ run[r].pc = "recorded"
        BY <1>0, <1>2 DEF ReadRecorded, At, RunType
    <2>2. /\ tab'[t].phase = tab[t].phase /\ tab'[t].gate = tab[t].gate /\ tab'[t].plan = tab[t].plan
          /\ tab[t].held # 0 => tab'[t].held = tab[t].held
        BY <1>0, <1>2 DEF ReadRecorded, TabType
    <2> HIDE DEF t
    <2>3. HashOK(run'[r], tab'[t]) /\ ~Checking(run'[r])
        BY <2>1 DEF HashOK, Checking
    <2>4. Due(run[r], tab[t], tx) => Due(run'[r], tab'[t], tx)
        BY <2>1, <2>2 DEF Due
    <2> QED BY <1>0, <1>1, <2>1, <2>2, <2>3, <2>4, GoesOn DEF Following, Shrinks, t
<1>3. CASE EnsureSession(r)
    <2> DEFINE mine == [run[r] EXCEPT !.rec = IF Owns(r) THEN SessionOf[r] ELSE NoSession]
               left == [mine EXCEPT !.pc = "left", !.sub = tab[t].held,
                                    !.hash = IF mine.paused THEN NoPlan ELSE tab[t].plan]
               next == Begin(mine, tab[t].plan)
    <2>1. /\ mine \in RunType /\ mine.mine = run[r].mine /\ mine.queue = run[r].queue
          /\ mine.paused = run[r].paused
        BY <1>0 DEF RunType
    <2>2. run' = [run EXCEPT ![r] = IF tab[t].held = 0 THEN next ELSE left] /\ tab' = tab
          /\ run[r].pc = "ensure"
        BY <1>0, <1>3 DEF EnsureSession, At
    <2> HIDE DEF mine
    <2>3. /\ left.pc = "left" /\ left.sub = tab[t].held /\ left.mine = mine.mine
          /\ left.queue = mine.queue /\ left.paused = mine.paused
          /\ ~mine.paused => left.hash = tab[t].plan
        BY <2>1 DEF RunType
    <2>4. /\ next.mine = mine.mine /\ next.queue = mine.queue
          /\ next.pc = "sign" \/ (next.pc = "fetch" /\ ~next.paused /\ next.hash = tab[t].plan)
        BY <2>1 DEF RunType, Begin
    <2> HIDE DEF left, next, t
    <2>5. /\ run'[r].mine = run[r].mine /\ run'[r].queue = run[r].queue
          /\ ~Checking(run'[r]) /\ HashOK(run'[r], tab[t]) /\ (run'[r].pc = "fetch" => ~run'[r].paused)
          /\ tab[t].held # 0 => run'[r].pc = "left" /\ run'[r].sub = tab[t].held
        BY <1>0, <2>1, <2>2, <2>3, <2>4 DEF Checking, HashOK
    <2>6. Due(run[r], tab[t], tx) => Due(run'[r], tab[t], tx)
        BY <2>2, <2>5 DEF Due
    <2> QED BY <1>0, <1>1, <2>2, <2>5, <2>6, GoesOn DEF Following, Shrinks, t
<1>4. CASE EnsureFails(r)
    <2>1. Executing(run[r]) /\ run[r].pc = "ensure" /\ "failed" \in Causes
        BY <1>4 DEF EnsureFails, Executing, Owns, At, Causes
    <2>2. Due(run[r], tab[t], tx) => tab[t].held # 0 /\ tx[tab[t].held].fate = "success"
        BY <2>1 DEF Due
    <2> QED BY <1>0, <1>4, <2>1, <2>2, StopsAsItIs DEF EnsureFails
<1> QED BY <1>2, <1>3, <1>4

\* A hash is settled: what the page holds succeeded only if it is confirmed.
LEMMA ClearHoldFollows ==
    ASSUME Grounded, NEW r \in Runs, Following(r), UNCHANGED <<seqNum, disturbed>>,
           run[r].pc \in {"left", "answer", "lookup"},
           NEW who, who = IF run[r].pc = "left" THEN "left" ELSE "tx", NEW o, ClearHold(r, who, o),
           tx[run[r].sub].fate = "success" => o = "confirmed",
           \A i \in 1 .. Len(tx) : tx[i].fate = "success" => i \in 1 .. Len(tx') /\ tx'[i].fate = "success"
    PROVE  Following(r)' /\ Shrinks(run[r].queue, run'[r].queue)
<1> DEFINE t == TabOf[r]
<1>0. /\ run \in [Runs -> RunType] /\ tab \in [Tabs -> TabType] /\ t \in Tabs /\ run[r] \in RunType
      /\ tab[t] \in TabType /\ TabOK(tab[t], tx)
    BY RunIsOK, TabIsOK
<1>1. Followed(run[r], tab[t], tx, seqNum, disturbed)
    BY DEF Following
<1>2. /\ run'[r].pc = "list" /\ run'[r].outcome = o /\ run'[r].who = who
      /\ run'[r].mine = run[r].mine /\ run'[r].queue = run[r].queue
      /\ run'[r].paused = run[r].paused /\ run'[r].hash = run[r].hash
    BY <1>0 DEF ClearHold, RunType
<1>3. /\ tab'[t].phase = tab[t].phase /\ tab'[t].gate = tab[t].gate /\ tab'[t].plan = tab[t].plan
      /\ tab'[t].held \in {0, tab[t].held}
    BY <1>0 DEF ClearHold, TabType
<1> HIDE DEF t
<1>4. HashOK(run'[r], tab'[t])
    BY <1>1, <1>2, <1>3 DEF Followed, HashOK
<1>5. Due(run[r], tab[t], tx) => Due(run'[r], tab'[t], tx)
    BY <1>2 DEF Due
<1>6. Followed(run'[r], tab'[t], tx, seqNum, disturbed)
    BY <1>1, <1>2, <1>3, <1>4, <1>5, GoesOn
<1>7. tab'[t].held # 0 => tab'[t].held \in 1 .. Len(tx)
    BY <1>0, <1>3 DEF TabOK, Names
<1>8. Followed(run'[r], tab'[t], tx', seqNum, disturbed)
    BY <1>6, <1>7, MovesOn
<1> QED BY <1>2, <1>8 DEF Following, Shrinks, t

LEMMA LeftFollows ==
    ASSUME Remembers, Grounded, Timely, NEW r \in Runs, Flying(r), Following(r), SettleLeftOver(r)
    PROVE  Following(r)' /\ Shrinks(run[r].queue, run'[r].queue)
<1>0. /\ run[r].pc = "left" /\ run[r].sub \in 1 .. Len(tx) /\ UNCHANGED ledgerVars
      /\ UNCHANGED <<tx, seqNum, disturbed>>
    BY RunIsOK DEF SettleLeftOver, At, RunOK, Settling, Names, GiveUp, Clear, ledgerVars
<1>1. CASE GiveUp(r)
    <2>1. run[r].mine => Executing(run[r])
        BY <1>0 DEF Executing
    <2>2. Due(run[r], tab[TabOf[r]], tx) =>
              tab[TabOf[r]].held # 0 /\ tx[tab[TabOf[r]].held].fate = "success"
        BY <1>0 DEF Due
    <2> QED BY <1>0, <1>1, <2>1, <2>2, StopsAsItIs DEF GiveUp, Causes
<1>2. ASSUME NEW o \in Resolution(run[r].sub), o # "unknown", Clear(r, "left", o)
      PROVE  Following(r)' /\ Shrinks(run[r].queue, run'[r].queue)
    <2>1. tx[run[r].sub].fate = "success" => o = "confirmed"
        BY <1>0, <1>2, SuccessIsConfirmed
    <2> QED BY <1>0, <1>2, <2>1, ClearHoldFollows DEF Clear
<1> QED BY <1>1, <1>2 DEF SettleLeftOver
\* Any step of a round that ends the run, or moves it on without the page.
LEMMA EndsAtOnce ==
    ASSUME Grounded, NEW r \in Runs, Flying(r), Following(r), UNCHANGED ledgerVars,
           run[r].pc \in {"fetch", "explain", "sign", "keep", "save"},
           NEW cause \in Causes, End(r, cause)
    PROVE  Following(r)' /\ Shrinks(run[r].queue, run'[r].queue)
<1>1. (run[r].mine => Executing(run[r])) /\ ~Due(run[r], tab[TabOf[r]], tx)
    BY DEF Executing, Due
<1> QED BY <1>1, StopsAsItIs

LEMMA FetchingFollows ==
    ASSUME Grounded, NEW r \in Runs, Flying(r), Following(r), QueueFits(run[r].queue), Fetching(r)
    PROVE  Following(r)' /\ (FetchRound(r) \/ Shrinks(run[r].queue, run'[r].queue))
<1>0. /\ run \in [Runs -> RunType] /\ run[r] \in RunType /\ run[r].pc \in {"fetch", "explain"}
      /\ UNCHANGED ledgerVars /\ UNCHANGED <<tx, seqNum, disturbed>>
      /\ Followed(run[r], tab[TabOf[r]], tx, seqNum, disturbed)
    BY RunIsOK DEF Fetching, FetchRound, FetchStateChanged, FetchAccountNotFound, MergeExplainsMissingAccount,
       FetchFails, At, OnlyRun, ledgerVars, Following
<1>1. CASE FetchRound(r) \/ run' = [run EXCEPT ![r].pc = "explain"]
    <2>1. CASE tab' = tab
        <3>1. run'[r].pc \in {"sign", "explain"} /\ run'[r].mine = run[r].mine
            <4>1. CASE FetchRound(r)
                BY <1>0, <4>1 DEF FetchRound, RunType
            <4>2. CASE run' = [run EXCEPT ![r].pc = "explain"]
                BY <1>0, <4>2 DEF RunType
            <4> QED BY <1>1, <4>1, <4>2
        <3>2. FetchRound(r) \/ run'[r].queue = run[r].queue
            BY <1>0, <1>1 DEF RunType
        <3> QED BY <1>0, <2>1, <3>1, <3>2, GoesOnQuietly DEF Following, Shrinks
    <2> QED BY <1>0, <1>1, <2>1, EndsAtOnce DEF FetchRound, OnlyRun, Fetching, FetchStateChanged,
           FetchAccountNotFound, MergeExplainsMissingAccount, FetchFails, Causes
<1>2. CASE run' = [run EXCEPT ![r].attempt = @ + 1] /\ tab' = tab
    <2>1. /\ \A f \in {"pc", "mine", "who", "outcome", "sub", "hash", "paused", "queue"} : run'[r][f] = run[r][f]
        BY <1>0, <1>2 DEF RunType
    <2>2. Followed(run'[r], tab[TabOf[r]], tx, seqNum, disturbed)
        BY <1>0, <2>1 DEF Followed, PageOK, HashOK, PlanOK, Checking, Due
    <2> QED BY <1>0, <1>2, <2>1, <2>2 DEF Following, Shrinks
<1> QED BY <1>0, <1>1, <1>2, EndsAtOnce DEF Fetching, FetchStateChanged, FetchAccountNotFound,
           MergeExplainsMissingAccount, FetchFails, Causes

\* Up to the first send there is nothing to learn of.
LEMMA PreparingFollows ==
    ASSUME Grounded, NEW r \in Runs, Flying(r), Following(r), [Next]_vars,
           \/ Sign(r) \/ SignShort(r) \/ SignFails(r) \/ KeepSession(r) \/ NotKept(r) \/ KeepHash(r)
           \/ HoldInStore(r)
    PROVE  Following(r)' /\ Shrinks(run[r].queue, run'[r].queue)
<1> DEFINE t == TabOf[r]
<1>0. /\ run \in [Runs -> RunType] /\ tab \in [Tabs -> TabType] /\ t \in Tabs /\ run[r] \in RunType
      /\ tab[t] \in TabType /\ TabOK(tab[t], tx) /\ Followed(run[r], tab[t], tx, seqNum, disturbed)
    BY RunIsOK, TabIsOK DEF Following
<1>1. CASE SignShort(r) \/ SignFails(r) \/ NotKept(r)
    BY <1>1, EndsAtOnce DEF SignShort, SignFails, NotKept, At, Causes
<1>2. CASE Sign(r) \/ KeepSession(r) \/ KeepHash(r) \/ HoldInStore(r)
    <2>1. /\ run[r].pc \in {"sign", "keep", "save", "saved"}
          /\ run'[r].pc \in {"keep", "save", "saved", "send"} /\ run'[r].mine = run[r].mine
          /\ run'[r].queue = run[r].queue /\ UNCHANGED <<seqNum, disturbed>>
        <3>1. CASE Sign(r) \/ KeepSession(r)
            BY <1>0, <3>1 DEF Sign, KeepSession, At, OnlyRun, RunType, ledgerVars
        <3>2. CASE KeepHash(r)
            BY <1>0, <3>2 DEF KeepHash, At, RunType
        <3>3. CASE HoldInStore(r)
            BY <1>0, <3>3 DEF HoldInStore, At, RunType, ledgerVars
        <3> QED BY <1>2, <3>1, <3>2, <3>3
    <2>2. /\ tab'[t].phase = tab[t].phase /\ tab'[t].gate = tab[t].gate /\ tab'[t].plan = tab[t].plan
          /\ tab' = tab \/ HoldInStore(r)
        <3>1. CASE Sign(r) \/ KeepSession(r) \/ KeepHash(r)
            BY <3>1 DEF Sign, KeepSession, KeepHash, OnlyRun
        <3>2. CASE HoldInStore(r)
            <4>1. tab' = [tab EXCEPT ![t].held = run[r].sub]
                BY <3>2 DEF HoldInStore
            <4> QED BY <1>0, <3>2, <4>1 DEF TabType
        <3> QED BY <1>2, <3>1, <3>2
    <2> HIDE DEF t
    <2>3. Followed(run'[r], tab'[t], tx, seqNum, disturbed)
        BY <1>0, <2>1, <2>2, GoesOnQuietly
    <2>4. HoldInStore(r) => tx' = tx
        BY DEF HoldInStore, ledgerVars
    <2>5. Followed(run'[r], tab'[t], tx', seqNum, disturbed)
        <3>1. tab' = tab => Followed(run'[r], tab'[t], tx', seqNum, disturbed)
            BY <1>0, <2>3, SuccessStays, MovesOn DEF TabOK, Names
        <3> QED BY <2>2, <2>3, <2>4, <3>1
    <2> QED BY <2>1, <2>5 DEF Following, Shrinks, t
<1> QED BY <1>1, <1>2

\* While its outcome is open, a transaction that succeeded stays the one in hand.
LEMMA AwaitingFollows ==
    ASSUME Grounded, NEW r \in Runs, Flying(r), Following(r), [Next]_vars,
           \/ Send(r) \/ SendNotOwner(r) \/ AnswerUnknown(r)
           \/ AnswerRefused(r) /\ run' = [run EXCEPT ![r].pc = "lookup"] /\ tab' = tab
    PROVE  Following(r)' /\ Shrinks(run[r].queue, run'[r].queue)
<1> DEFINE t == TabOf[r]
<1>0. /\ run \in [Runs -> RunType] /\ t \in Tabs /\ run[r] \in RunType
      /\ tab[t] \in TabType /\ TabOK(tab[t], tx) /\ Followed(run[r], tab[t], tx, seqNum, disturbed)
    BY RunIsOK, TabIsOK DEF Following
<1>1. /\ run[r].pc \in {"send", "answer"} /\ run'[r].pc \in {"send", "answer", "lookup"}
      /\ run'[r].mine = run[r].mine /\ run'[r].sub = run[r].sub /\ run'[r].queue = run[r].queue
      /\ tab' = tab /\ UNCHANGED <<seqNum, disturbed>>
    <2>1. CASE Send(r)
        BY <1>0, <2>1 DEF Send, At, RunType
    <2>2. CASE SendNotOwner(r)
        BY <1>0, <2>2 DEF SendNotOwner, At, OnlyRun, RunType, ledgerVars
    <2>3. CASE AnswerUnknown(r)
        BY <1>0, <2>3 DEF AnswerUnknown, At, OnlyRun, RunType, ledgerVars
    <2>4. CASE AnswerRefused(r) /\ run' = [run EXCEPT ![r].pc = "lookup"] /\ tab' = tab
        BY <1>0, <2>4 DEF AnswerRefused, At, RunType
    <2> QED BY <2>1, <2>2, <2>3, <2>4
<1> HIDE DEF t
<1>2. HashOK(run'[r], tab[t]) /\ ~Checking(run'[r])
    BY <1>1 DEF HashOK, Checking
<1>3. Due(run[r], tab[t], tx) => Due(run'[r], tab[t], tx)
    BY <1>1 DEF Due
<1>4. Followed(run'[r], tab[t], tx, seqNum, disturbed)
    BY <1>0, <1>1, <1>2, <1>3, GoesOn
<1>5. Followed(run'[r], tab[t], tx', seqNum, disturbed)
    BY <1>0, <1>4, SuccessStays, MovesOn DEF TabOK, Names
<1> QED BY <1>1, <1>5 DEF Following, Shrinks, t

LEMMA AnswersFollow ==
    ASSUME Remembers, Grounded, Timely, NEW r \in Runs, Flying(r), Following(r), [Next]_vars,
           AnswerConfirmed(r) \/ AnswerRefused(r) \/ LookUp(r)
    PROVE  Following(r)' /\ Shrinks(run[r].queue, run'[r].queue)
<1>0. run[r].pc \in {"answer", "lookup"} /\ run[r].sub \in 1 .. Len(tx) /\ UNCHANGED <<seqNum, disturbed>>
    BY RunIsOK, RefusedFate DEF AnswerConfirmed, AnswerRefused, LookUp, At, RunOK, Settling, Names, Clear,
                                GiveUp, ledgerVars
<1>1. ASSUME NEW o, ClearHold(r, "tx", o), tx[run[r].sub].fate = "success" => o = "confirmed"
      PROVE  Following(r)' /\ Shrinks(run[r].queue, run'[r].queue)
    BY <1>0, <1>1, SuccessStays, ClearHoldFollows
<1>2. CASE AnswerConfirmed(r)
    BY <1>1, <1>2 DEF AnswerConfirmed, Clear
<1>3. CASE AnswerRefused(r)
    <2>1. CASE ClearHold(r, "tx", "refused") /\ tx[run[r].sub].fate \in {"sent", "failed"}
        BY <1>1, <2>1
    <2> QED BY <1>3, <2>1, AwaitingFollows DEF AnswerRefused
<1>4. CASE LookUp(r)
    <2>0. UNCHANGED ledgerVars
        BY <1>4 DEF LookUp, Clear, GiveUp
    <2>1. CASE GiveUp(r)
        <3>1. run[r].mine => Executing(run[r])
            BY <1>0 DEF Executing
        <3>2. Due(run[r], tab[TabOf[r]], tx) =>
                  tab[TabOf[r]].held # 0 /\ tx[tab[TabOf[r]].held].fate = "success"
            BY <1>0 DEF Due
        <3> QED BY <1>0, <2>0, <2>1, <3>1, <3>2, StopsAsItIs DEF GiveUp, Causes
    <2>2. ASSUME NEW o \in Resolution(run[r].sub), o \in {"confirmed", "failed"}, Clear(r, "tx", o)
          PROVE  Following(r)' /\ Shrinks(run[r].queue, run'[r].queue)
        <3>1. tx[run[r].sub].fate = "success" => o = "confirmed"
            BY <1>0, <2>2, SuccessIsConfirmed
        <3> QED BY <1>1, <2>2, <3>1 DEF Clear
    <2> QED BY <1>4, <2>1, <2>2 DEF LookUp
<1> QED BY <1>2, <1>3, <1>4
LEMMA ListingFollows ==
    ASSUME Grounded, NEW r \in Runs, Following(r), ListHeld(r) \/ DropHeld(r) \/ DropFails(r)
    PROVE  Following(r)' /\ Shrinks(run[r].queue, run'[r].queue)
<1>0. /\ run \in [Runs -> RunType] /\ run[r] \in RunType /\ run[r].pc \in {"list", "drop"}
      /\ UNCHANGED <<tx, seqNum, disturbed, tab>>
      /\ Followed(run[r], tab[TabOf[r]], tx, seqNum, disturbed)
    BY RunIsOK DEF ListHeld, DropHeld, DropFails, At, OnlyRun, ledgerVars, Following
<1>1. /\ run'[r].pc = "drop"
      /\ \A f \in {"mine", "who", "outcome", "sub", "hash", "paused", "queue"} : run'[r][f] = run[r][f]
    <2>1. CASE ListHeld(r)
        BY <1>0, <2>1 DEF ListHeld, RunType
    <2>2. CASE DropHeld(r)
        BY <1>0, <2>2 DEF DropHeld, At, RunType
    <2>3. CASE DropFails(r)
        BY <1>0, <2>3 DEF DropFails, RunType
    <2> QED BY <2>1, <2>2, <2>3
<1>2. Followed(run'[r], tab[TabOf[r]], tx, seqNum, disturbed)
    BY <1>0, <1>1 DEF Followed, PageOK, HashOK, PlanOK, Checking, Due
<1> QED BY <1>0, <1>1, <1>2 DEF Following, Shrinks

\* A round is over, or goes on: what was confirmed is known, and the plan is no longer the page's.
LEMMA LearnedGoesOn ==
    ASSUME Grounded, NEW r \in Runs, Following(r), UNCHANGED ledgerVars, ClearPlanHash(r),
           run[r].pc = "drop", AnySuccess(tx), NEW you, run' = [run EXCEPT ![r] = you],
           you.pc = "sign" \/ (you.pc = "fetch" /\ ~you.paused /\ you.hash = NoPlan),
           you.mine = run[r].mine, Shrinks(run[r].queue, you.queue)
    PROVE  Following(r)' /\ Shrinks(run[r].queue, run'[r].queue)
<1> DEFINE t == TabOf[r]
<1>0. /\ run \in [Runs -> RunType] /\ tab \in [Tabs -> TabType] /\ t \in Tabs /\ tab[t] \in TabType
      /\ UNCHANGED <<tx, seqNum, disturbed>> /\ run'[r] = you
    BY RunIsOK, TabIsOK DEF ledgerVars
<1>1. Followed(run[r], tab[t], tx, seqNum, disturbed)
    BY DEF Following
<1>2. tab'[t] = PlanCleared(r)
    BY <1>0 DEF ClearPlanHash
<1>3. CASE run[r].mine
    <2>1. /\ tab'[t].phase = tab[t].phase /\ tab'[t].gate = tab[t].gate /\ tab'[t].plan = NoPlan
        BY <1>0, <1>2, <1>3 DEF PlanCleared, Owns, TabType
    <2> HIDE DEF t
    <2>2. Followed(you, tab'[t], tx, seqNum, disturbed)
        BY <1>1, <1>3, <2>1 DEF Followed, PageOK, HashOK, PlanOK, Checking
    <2> QED BY <1>0, <2>2 DEF Following, t
<1>4. CASE ~run[r].mine
    <2>1. tab'[t] = tab[t]
        BY <1>2, <1>4 DEF PlanCleared, Owns
    <2> HIDE DEF t
    <2>2. HashOK(you, tab[t]) /\ ~Checking(you) /\ ~Due(run[r], tab[t], tx)
        BY <1>4 DEF HashOK, Checking, Due
    <2>3. Followed(you, tab[t], tx, seqNum, disturbed)
        BY <1>1, <2>2, GoesOn
    <2> QED BY <1>0, <2>1, <2>3 DEF Following, t
<1> QED BY <1>3, <1>4

LEMMA LearnedEnds ==
    ASSUME Grounded, NEW r \in Runs, Flying(r), Following(r), UNCHANGED ledgerVars,
           run[r].pc = "drop", run[r].who \in {"left", "tx"}, AnySuccess(tx),
           NEW cause \in Causes, NEW m, Ended(r, cause, PlanCleared(r), m)
    PROVE  Following(r)' /\ Shrinks(run[r].queue, run'[r].queue)
<1>1. PlanCleared(r) \in TabType
    BY RunIsOK, TabIsOK, PlanClearedIsTab
<1>2. run[r].mine => Executing(run[r])
    BY DEF Executing
<1>3. \/ PlanCleared(r) = tab[TabOf[r]] /\ ~Due(run[r], PlanCleared(r), tx)
      \/ /\ run[r].mine /\ PlanCleared(r).plan = NoPlan
         /\ PlanCleared(r).phase = tab[TabOf[r]].phase /\ PlanCleared(r).gate = tab[TabOf[r]].gate
    BY RunIsOK, TabIsOK DEF PlanCleared, Owns, TabType, Due
<1> QED BY <1>1, <1>2, <1>3, Stops DEF Shrinks

\* A hash that was dropped everywhere, and was not confirmed.
LEMMA RefusedFollows ==
    ASSUME Grounded, NEW r \in Runs, Flying(r), Following(r), LeftOverGone(r) \/ TxNotConfirmed(r)
    PROVE  Following(r)' /\ Shrinks(run[r].queue, run'[r].queue)
<1>0. /\ run \in [Runs -> RunType] /\ run[r] \in RunType /\ run[r].pc = "drop"
      /\ run[r].who \in {"left", "tx"} /\ run[r].outcome # "confirmed"
      /\ UNCHANGED ledgerVars /\ UNCHANGED <<tx, seqNum, disturbed>>
      /\ Followed(run[r], tab[TabOf[r]], tx, seqNum, disturbed)
    BY RunIsOK DEF LeftOverGone, TxNotConfirmed, Cleared, At, ledgerVars, Following
<1>1. ~Due(run[r], tab[TabOf[r]], tx) /\ (run[r].mine => Executing(run[r]))
    BY <1>0 DEF Due, Executing
<1>2. CASE End(r, "failed")
    BY <1>0, <1>1, <1>2, StopsAsItIs DEF Causes
<1>3. CASE run' = [run EXCEPT ![r] = Begin(@, @.hash)] /\ tab' = tab /\ run[r].who = "left"
    <2> DEFINE you == Begin(run[r], run[r].hash)
    <2>1. run'[r] = you
        BY <1>0, <1>3
    <2>2. /\ you.mine = run[r].mine /\ you.queue = run[r].queue
          /\ you.pc = "sign" \/ (you.pc = "fetch" /\ ~you.paused /\ ~run[r].paused /\ you.hash = run[r].hash)
        BY <1>0 DEF RunType, Begin
    <2> HIDE DEF you
    <2>3. HashOK(you, tab[TabOf[r]])
        BY <1>0, <1>3, <2>2 DEF Followed, HashOK
    <2>4. ~Checking(you)
        BY <2>2 DEF Checking
    <2>5. Followed(you, tab[TabOf[r]], tx, seqNum, disturbed)
        BY <1>0, <1>1, <2>2, <2>3, <2>4, GoesOn
    <2> QED BY <1>0, <1>3, <2>1, <2>2, <2>5 DEF Following, Shrinks
<1> QED BY <1>2, <1>3 DEF LeftOverGone, TxNotConfirmed, Cleared

LEMMA ConfirmedFollows ==
    ASSUME Grounded, NEW r \in Runs, Flying(r), Following(r), LeftOverConfirmed(r) \/ TxConfirmed(r)
    PROVE  Following(r)' /\ Shrinks(run[r].queue, run'[r].queue)
<1>0. /\ run \in [Runs -> RunType] /\ run[r] \in RunType /\ run[r].pc = "drop"
      /\ run[r].who \in {"left", "tx"} /\ run[r].outcome = "confirmed" /\ UNCHANGED ledgerVars
      /\ RunOK(run[r], tx)
    BY RunIsOK DEF LeftOverConfirmed, TxConfirmed, Cleared, At
<1>1. AnySuccess(tx)
    BY <1>0 DEF RunOK, Succeeded, Names, AnySuccess
<1>2. CASE LeftOverConfirmed(r)
    <2> DEFINE you == Begin(run[r], NoPlan)
    <2>1. /\ you.mine = run[r].mine /\ you.queue = run[r].queue
          /\ you.pc = "sign" \/ (you.pc = "fetch" /\ ~you.paused /\ you.hash = NoPlan)
        BY <1>0 DEF RunType, Begin
    <2>2. \/ Ended(r, "done", PlanCleared(r), run[r].sub)
          \/ run' = [run EXCEPT ![r] = you] /\ ClearPlanHash(r)
        BY <1>0, <1>2 DEF LeftOverConfirmed
    <2> HIDE DEF you
    <2> QED BY <1>0, <1>1, <2>1, <2>2, LearnedEnds, LearnedGoesOn DEF Causes, Shrinks
<1>3. CASE TxConfirmed(r)
    <2> DEFINE m == IF tx[run[r].sub].merge THEN run[r].sub ELSE run[r].merge
               after == [run[r] EXCEPT !.queue = Tail(run[r].queue), !.merge = m, !.hash = NoPlan,
                                       !.sub = 0, !.attempt = 0, !.paused = FALSE]
               next == [after EXCEPT !.pc = "sign"]
               again == [after EXCEPT !.pc = "fetch", !.round = after.round + 1, !.bound = NextBound(r)]
    <2>1. \/ run' = [run EXCEPT ![r] = next] /\ ClearPlanHash(r)
          \/ \E cause \in Causes : Ended(r, cause, PlanCleared(r), m)
          \/ run' = [run EXCEPT ![r] = again] /\ ClearPlanHash(r)
        BY <1>0, <1>3 DEF TxConfirmed, Causes
    <2>2. run[r].who = "tx" /\ run[r].queue # <<>>
        BY <1>0, <1>3 DEF TxConfirmed, Cleared, RunOK, Signing
    <2>3. /\ next.pc = "sign" /\ next.mine = run[r].mine /\ next.queue = Tail(run[r].queue)
          /\ again.pc = "fetch" /\ again.mine = run[r].mine /\ again.queue = Tail(run[r].queue)
          /\ ~again.paused /\ again.hash = NoPlan
        BY <1>0 DEF RunType
    <2> HIDE DEF m, next, again
    <2> QED BY <1>0, <1>1, <2>1, <2>2, <2>3, LearnedEnds, LearnedGoesOn DEF Shrinks
<1> QED BY <1>2, <1>3

LEMMA ChecksFollow ==
    ASSUME Grounded, NEW r \in Runs, Following(r), Checked(r) \/ GateChecked(r)
    PROVE  Following(r)' /\ Shrinks(run[r].queue, run'[r].queue)
<1> DEFINE t == TabOf[r]
<1>0. /\ run \in [Runs -> RunType] /\ tab \in [Tabs -> TabType] /\ t \in Tabs /\ tab[t] \in TabType
      /\ run[r].pc = "drop" /\ RunOK(run[r], tx) /\ UNCHANGED <<tx, seqNum, disturbed>>
      /\ run' = [run EXCEPT ![r] = Idle]
    BY RunIsOK, TabIsOK DEF Checked, GateChecked, Cleared, At, ledgerVars
<1>1. run'[r].pc = "idle" /\ run'[r].queue = <<>>
    BY <1>0 DEF Idle
<1>2. PageOK(run[r], tab[t]) /\ PlanOK(run[r], tab[t], tx, seqNum, disturbed)
    BY DEF Following, Followed
<1>3. CASE tab' = tab /\ ~run[r].mine
    <2> HIDE DEF t
    <2>1. PageOK(run'[r], tab[t]) /\ HashOK(run'[r], tab[t])
        BY <1>1, <1>2 DEF PageOK, HashOK, Checking
    <2>2. PlanOK(run'[r], tab[t], tx, seqNum, disturbed)
        BY <1>0, <1>2, <1>3 DEF PlanOK, Due
    <2> QED BY <1>0, <1>1, <1>3, <2>1, <2>2 DEF Following, Followed, Shrinks, t
<1>4. CASE Checked(r) /\ run[r].mine
    <2> DEFINE confirmed == run[r].outcome = "confirmed"
               phase == CASE run[r].outcome = "failed" -> "failed"
                          [] confirmed /\ tx[run[r].sub].merge -> "complete"
                          [] OTHER -> "executing"
    <2>1. run[r].who = "check" /\ tab[t].phase = "unconfirmed" /\ tab[t].gate = NoSession
        BY <1>0, <1>2, <1>4 DEF Checked, Cleared, PageOK, Checking
    <2>2. phase \in {"failed", "complete", "executing"}
        OBVIOUS
    <2>3. tab' = [tab EXCEPT ![t].phase = phase, ![t].plan = IF confirmed THEN NoPlan ELSE @]
        BY <1>4 DEF Checked, Owns
    <2> HIDE DEF phase
    <2>4. /\ tab'[t].phase = phase /\ tab'[t].gate = NoSession
          /\ tab'[t].plan = IF confirmed THEN NoPlan ELSE tab[t].plan
        BY <1>0, <2>1, <2>3 DEF TabType
    <2>5. confirmed => AnySuccess(tx)
        BY <1>0 DEF RunOK, Succeeded, Names, AnySuccess
    <2>6. ~confirmed => ~Due(run[r], tab[t], tx)
        BY <1>0 DEF Due
    <2> HIDE DEF confirmed, t
    <2>7. PageOK(run'[r], tab'[t]) /\ HashOK(run'[r], tab'[t])
        BY <1>1, <2>4 DEF PageOK, HashOK, Checking
    <2>8. PlanOK(run'[r], tab'[t], tx, seqNum, disturbed)
        BY <1>2, <2>1, <2>4, <2>5, <2>6 DEF PlanOK
    <2> QED BY <1>0, <1>1, <2>7, <2>8 DEF Following, Followed, Shrinks, t
<1>5. CASE GateChecked(r) /\ run[r].mine
    <2>1. tab[t].phase = "planning"
        BY <1>0, <1>2, <1>5 DEF GateChecked, Cleared, PageOK, Checking
    <2>2. tab'[t].phase = "planning"
        BY <1>0, <1>5, <2>1 DEF GateChecked, Owns, TabType
    <2> HIDE DEF t
    <2>3. Followed(run'[r], tab'[t], tx, seqNum, disturbed)
        BY <1>1, <2>2 DEF Followed, PageOK, HashOK, PlanOK, Checking
    <2> QED BY <1>0, <1>1, <2>3 DEF Following, Shrinks, t
<1> QED BY <1>3, <1>4, <1>5 DEF Checked, GateChecked, Owns

-----------------------------------------------------------------------------
LEMMA InitPlanned == ASSUME OneAtATime PROVE Init => Planned
<1> SUFFICES ASSUME Init PROVE Planned
    OBVIOUS
<1>1. Flight
    BY InitFlight
<1>2. LedgerFits
    BY DEF Init, LedgerInit, LedgerFits
<1>3. ASSUME NEW r \in Runs PROVE Following(r) /\ QueueFits(run[r].queue)
    <2>1. run[r] = Idle /\ tab[TabOf[r]] = FreshTab
        BY EngineAssumption DEF Init
    <2>2. /\ run[r].pc = "idle" /\ run[r].queue = <<>>
          /\ tab[TabOf[r]].phase = "loading" /\ tab[TabOf[r]].gate = NoSession
        BY <2>1 DEF Idle, FreshTab
    <2> QED BY <2>2 DEF Following, Followed, PageOK, HashOK, PlanOK, Checking, QueueFits
<1> QED BY <1>1, <1>2, <1>3 DEF Planned

LEMMA PlannedStays ==
    ASSUME OneAtATime, ~ReadFails, Remembers, Planned, [Next]_vars
    PROVE  Planned'
<1>1. Flight' /\ Grounded /\ Timely /\ LedgerFits
    BY FlightStays DEF Planned, Flight, Expiry
<1>2. PICK r \in Runs : Runs = {r}
    BY DEF OneAtATime
<1>3. Flying(r) /\ Following(r) /\ QueueFits(run[r].queue)
    BY DEF Planned, Flight
<1> DEFINE Steps == Following(r)' /\ (FetchRound(r) \/ Shrinks(run[r].queue, run'[r].queue))
<1>4. ASSUME Network \/ UNCHANGED vars PROVE Steps
    <2>1. run' = run
        BY <1>4 DEF Network, vars
    <2>2. UNCHANGED vars => Following(r)'
        BY <1>3 DEF vars, ledgerVars, Following
    <2> QED BY <1>1, <1>3, <1>4, <2>1, <2>2, NetworkFollows DEF Shrinks
<1>5. ASSUME Person PROVE Steps
    <2>1. ASSUME NEW s \in Sessions, Dismiss(s) PROVE Steps
        BY <1>3, <2>1 DEF Dismiss, ledgerVars, Following, Shrinks
    <2> QED BY <1>1, <1>2, <1>3, <1>5, <2>1, PagesFollow, ClicksFollow DEF Person
<1>6. ASSUME Engine(r) PROVE Steps
    <2>1. CASE Answered(r) \/ ReadRecorded(r) \/ EnsureSession(r) \/ EnsureFails(r) \/ SettleLeftOver(r)
        BY <1>1, <1>3, <2>1, AnsweredFollows, StartsFollow, LeftFollows
    <2>2. CASE Fetching(r)
        BY <1>1, <1>3, <2>2, FetchingFollows
    <2>3. CASE Submitting(r)
        BY <1>1, <1>3, <2>3, PreparingFollows, AwaitingFollows, AnswersFollow DEF Submitting
    <2>4. CASE Clearing(r)
        BY <1>1, <1>3, <2>4, ListingFollows, RefusedFollows, ConfirmedFollows, ChecksFollow DEF Clearing
    <2> QED BY <1>6, <2>1, <2>2, <2>3, <2>4 DEF Engine
<1>7. Steps
    BY <1>2, <1>4, <1>5, <1>6 DEF Next
<1>8. LedgerFits'
    BY <1>1, <1>2, <1>3, LedgerFitsStays
<1>9. QueueFits(run[r].queue)'
    <2>1. CASE FetchRound(r)
        <3>1. PICK b \in Rounds :
                  run' = [run EXCEPT ![r].pc = "sign", ![r].queue = b.txs, ![r].another = b.another,
                                     ![r].steps = b.steps, ![r].attempt = 0]
            BY <2>1 DEF FetchRound
        <3>2. run'[r].queue = b.txs /\ open /\ UNCHANGED ledgerVars
            BY <1>1, <2>1, <3>1, RunIsOK DEF FetchRound, OnlyRun, RunType
        <3>3. \A k \in 1 .. Len(run'[r].queue) : Fits(run'[r].queue[k], LastCleanup)
            BY <1>1, <3>2, RoundsFit
        <3> QED BY <3>2, <3>3 DEF QueueFits, LastCleanup, ledgerVars
    <2>2. CASE Shrinks(run[r].queue, run'[r].queue)
        BY <1>1, <1>3, <2>2, QueueShrinks
    <2> QED BY <1>7, <2>1, <2>2
<1> QED BY <1>1, <1>2, <1>7, <1>8, <1>9 DEF Planned

\* A round goes without the reviewed plan's hash only after a transaction of this browser
\* changed the account (runClose drops planHash with the first that is confirmed), and while
\* nobody else changes it, the hash that goes is still the account's.
THEOREM PlanIsFollowed ==
    ASSUME OneAtATime, ~ReadFails, Remembers
    PROVE  Spec => []PlanHashFollows
<1>1. Planned => PlanHashFollows
    <2> SUFFICES ASSUME Planned, NEW r \in Runs, At(r, "fetch"), Owns(r)
                 PROVE  IF run[r].hash = NoPlan
                        THEN \E i \in Ids : tx[i].fate = "success"
                        ELSE disturbed = 0 => run[r].hash = seqNum
        BY DEF PlanHashFollows
    <2>1. Flying(r) /\ Followed(run[r], tab[TabOf[r]], tx, seqNum, disturbed)
        BY DEF Planned, Flight, Following
    <2>2. tab[TabOf[r]].phase = "executing"
        BY <2>1, PageOfRun DEF Executing, At, Owns
    <2>3. run[r].hash = tab[TabOf[r]].plan
        BY <2>1 DEF Followed, PageOK, HashOK, At, Owns
    <2>4. ~Due(run[r], tab[TabOf[r]], tx)
        BY DEF Due, At
    <2> QED BY <2>1, <2>2, <2>3, <2>4 DEF Followed, PlanOK, AnySuccess, Ids
<1> QED BY <1>1, InitPlanned, PlannedStays, PTL DEF Spec
=============================================================================
