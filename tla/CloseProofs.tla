---------------------------- MODULE CloseProofs ----------------------------
(***************************************************************************)
(* Proofs about the close loop, for every number of tabs, runs and saved   *)
(* closes, every schedule of the ledger and every value of the bounds.     *)
(*                                                                         *)
(* Only what a transaction of this browser is known to have done matters   *)
(* here: the invariant says that every hash kept anywhere names an         *)
(* envelope that was hashed, and that wherever the loop takes one as       *)
(* confirmed, or as the merge it saw through, the ledger applied it.       *)
(***************************************************************************)
EXTENDS CloseSafety, SequenceTheorems, TLAPS

\* Of two states of the hashed envelopes, U comes after T: none is forgotten, none
\* changes what it is, and a success stays one.
Extends(T, U) ==
    /\ Len(T) <= Len(U)
    /\ \A i \in 1 .. Len(T) :
          /\ U[i].merge = T[i].merge
          /\ T[i].fate = "success" => U[i].fate = "success"

Names(T, i) == i \in 1 .. Len(T)

Succeeded(T, i) == Names(T, i) /\ T[i].fate = "success"

Merged(T, i) == Succeeded(T, i) /\ T[i].merge

\* Where a run has a transaction of its round in hand.
Signing(me) ==
    \/ me.pc \in {"sign", "keep", "save", "saved", "send", "answer", "lookup"}
    \/ me.pc \in {"list", "drop"} /\ me.who = "tx"
    \/ me.paused

\* Where a run has a hash of its own or of the store in hand.
Settling(me) == me.pc \in {"asked", "left", "saved", "send", "answer", "lookup", "list", "drop"}

RunOK(me, T) ==
    /\ Signing(me) => me.queue # <<>>
    /\ Settling(me) => Names(T, me.sub)
    /\ me.pc = "asked" => me.who \in {"check", "gate"}
    /\ me.pc \in {"list", "drop"} /\ me.outcome = "confirmed" => Succeeded(T, me.sub)
    /\ me.merge # 0 => Merged(T, me.merge)

TabOK(t, T) ==
    /\ t.held # 0 => Names(T, t.held)
    /\ t.gate # NoSession => Names(T, t.gateTx)
    /\ t.phase = "complete" \/ t.finished => \E i \in 1 .. Len(T) : Merged(T, i)

SavedOK(u, d, T) ==
    \A s \in Sessions :
        /\ u[s] # 0 => Names(T, u[s])
        /\ \A i \in d[s] : Succeeded(T, i)

\* The inductive invariant.
Grounded ==
    /\ TypeOK
    /\ \A r \in Runs : RunOK(run[r], tx)
    /\ \A t \in Tabs : TabOK(tab[t], tx)
    /\ SavedOK(unconfirmed, done, tx)
-----------------------------------------------------------------------------
(***************************************************************************)
(* What the parts of the invariant keep when envelopes are added or land.  *)
(***************************************************************************)

LEMMA RunKept ==
    ASSUME NEW T, NEW U, Extends(T, U), Len(T) \in Nat, Len(U) \in Nat,
           NEW me, RunOK(me, T)
    PROVE  RunOK(me, U)
BY DEF RunOK, Extends, Names, Succeeded, Merged

LEMMA TabKept ==
    ASSUME NEW T, NEW U, Extends(T, U), Len(T) \in Nat, Len(U) \in Nat,
           NEW t, TabOK(t, T)
    PROVE  TabOK(t, U)
BY DEF TabOK, Extends, Names, Succeeded, Merged

LEMMA SavedKept ==
    ASSUME NEW T, NEW U, Extends(T, U), Len(T) \in Nat, Len(U) \in Nat,
           NEW u, NEW d, SavedOK(u, d, T)
    PROVE  SavedOK(u, d, U)
BY DEF SavedOK, Extends, Names, Succeeded

LEMMA IdleIsRun == Idle \in RunType /\ \A T : RunOK(Idle, T)
BY EngineAssumption DEF Idle, RunType, PC, Plan, RunOK, Signing, Settling

LEMMA FreshIsTab == FreshTab \in TabType /\ \A T : TabOK(FreshTab, T)
BY EngineAssumption DEF FreshTab, TabType, Phase, Plan, TabOK

LEMMA EndPhaseIsPhase ==
    ASSUME NEW cause \in {"short", "done", "unknown", "changed", "failed"},
           NEW h \in Nat, NEW m \in Nat
    PROVE  /\ EndPhase(cause, h, m) \in Phase
           /\ EndPhase(cause, h, m) = "complete" => m # 0
BY DEF EndPhase, Phase

LEMMA InitGrounded == Init => Grounded
<1> SUFFICES ASSUME Init PROVE Grounded
    OBVIOUS
<1>1. LedgerTypeOK /\ SavedTypeOK
    BY LedgerAssumption DEF Init, LedgerInit, SavedInit, LedgerTypeOK, SavedTypeOK
<1>2. run \in [Runs -> RunType] /\ tab \in [Tabs -> TabType]
    BY IdleIsRun, FreshIsTab DEF Init
<1>3. \A r \in Runs : RunOK(run[r], tx)
    BY IdleIsRun DEF Init
<1>4. \A t \in Tabs : TabOK(tab[t], tx)
    BY FreshIsTab DEF Init
<1>5. SavedOK(unconfirmed, done, tx)
    BY DEF Init, SavedInit, SavedOK
<1> QED BY <1>1, <1>2, <1>3, <1>4, <1>5 DEF Grounded, TypeOK
-----------------------------------------------------------------------------
(***************************************************************************)
(* How a step is shown to keep the invariant: it moves one run, one tab,   *)
(* or both, and leaves what it does not name as it was.                    *)
(***************************************************************************)

LEMMA LenIsNat == ASSUME Grounded PROVE tx \in Seq(TxType) /\ Len(tx) \in Nat
BY LenProperties DEF Grounded, TypeOK, LedgerTypeOK

LEMMA SameLedger ==
    ASSUME Grounded, UNCHANGED ledgerVars
    PROVE  LedgerTypeOK' /\ Extends(tx, tx') /\ tx' = tx
<1>1. LedgerTypeOK'
    BY DEF Grounded, TypeOK, LedgerTypeOK, ledgerVars
<1>2. tx' = tx
    BY DEF ledgerVars
<1>3. Extends(tx, tx)
    BY LenIsNat DEF Extends
<1> QED BY <1>1, <1>2, <1>3

LEMMA SameSaved ==
    ASSUME Grounded, UNCHANGED savedVars, Extends(tx, tx'), Len(tx') \in Nat
    PROVE  SavedTypeOK' /\ SavedOK(unconfirmed', done', tx')
<1>1. SavedTypeOK'
    BY DEF Grounded, TypeOK, SavedTypeOK, savedVars
<1>2. SavedOK(unconfirmed, done, tx')
    BY SavedKept, LenIsNat DEF Grounded
<1> QED BY <1>1, <1>2 DEF savedVars

LEMMA Moves ==
    ASSUME Grounded, LedgerTypeOK', Extends(tx, tx'),
           SavedTypeOK', SavedOK(unconfirmed', done', tx'),
           run' \in [Runs -> RunType],
           \A r \in Runs : run'[r] = run[r] \/ RunOK(run'[r], tx'),
           tab' \in [Tabs -> TabType],
           \A t \in Tabs : tab'[t] = tab[t] \/ TabOK(tab'[t], tx')
    PROVE  Grounded'
<1>1. Len(tx) \in Nat /\ Len(tx') \in Nat
    BY LenIsNat, LenProperties DEF LedgerTypeOK
<1>2. \A r \in Runs : RunOK(run[r], tx')
    BY <1>1, RunKept DEF Grounded
<1>3. \A t \in Tabs : TabOK(tab[t], tx')
    BY <1>1, TabKept DEF Grounded
<1>4. \A r \in Runs : RunOK(run'[r], tx')
    BY <1>2
<1>5. \A t \in Tabs : TabOK(tab'[t], tx')
    BY <1>3
<1> QED BY <1>4, <1>5 DEF Grounded, TypeOK

LEMMA OneRun ==
    ASSUME run \in [Runs -> RunType], NEW T, NEW r \in Runs, NEW me \in RunType, RunOK(me, T),
           run' = [run EXCEPT ![r] = me]
    PROVE  /\ run' \in [Runs -> RunType]
           /\ \A q \in Runs : run'[q] = run[q] \/ RunOK(run'[q], T)
OBVIOUS

LEMMA OneTab ==
    ASSUME tab \in [Tabs -> TabType], NEW T, NEW t \in Tabs, NEW it \in TabType, TabOK(it, T),
           tab' = [tab EXCEPT ![t] = it]
    PROVE  /\ tab' \in [Tabs -> TabType]
           /\ \A u \in Tabs : tab'[u] = tab[u] \/ TabOK(tab'[u], T)
OBVIOUS

LEMMA RunIsOK ==
    ASSUME Grounded, NEW r \in Runs
    PROVE  /\ run \in [Runs -> RunType] /\ run[r] \in RunType /\ RunOK(run[r], tx)
           /\ TabOf[r] \in Tabs /\ SessionOf[r] \in Sessions
BY EngineAssumption DEF Grounded, TypeOK

LEMMA TabIsOK ==
    ASSUME Grounded, NEW t \in Tabs
    PROVE  tab \in [Tabs -> TabType] /\ tab[t] \in TabType /\ TabOK(tab[t], tx)
BY DEF Grounded, TypeOK

\* A step of one run in its own memory.
LEMMA RunMoves ==
    ASSUME Grounded, NEW r \in Runs, NEW me \in RunType, RunOK(me, tx),
           run' = [run EXCEPT ![r] = me], UNCHANGED <<ledgerVars, savedVars, tab>>
    PROVE  Grounded'
<1>1. LedgerTypeOK' /\ Extends(tx, tx') /\ tx' = tx
    BY SameLedger
<1>2. SavedTypeOK' /\ SavedOK(unconfirmed', done', tx')
    BY <1>1, SameSaved, LenIsNat
<1>3. run' \in [Runs -> RunType] /\ \A q \in Runs : run'[q] = run[q] \/ RunOK(run'[q], tx')
    BY <1>1, OneRun, RunIsOK
<1>4. tab' \in [Tabs -> TabType] /\ tab' = tab
    BY DEF Grounded, TypeOK
<1> QED BY <1>1, <1>2, <1>3, <1>4, Moves

\* A step of a run that also changes the store of a tab, and may write a record.
LEMMA RunAndTabMove ==
    ASSUME Grounded, NEW r \in Runs, NEW me \in RunType, RunOK(me, tx),
           NEW t \in Tabs, NEW it \in TabType, TabOK(it, tx),
           run' = [run EXCEPT ![r] = me], tab' = [tab EXCEPT ![t] = it],
           UNCHANGED ledgerVars, SavedTypeOK', SavedOK(unconfirmed', done', tx)
    PROVE  Grounded'
<1>1. LedgerTypeOK' /\ Extends(tx, tx') /\ tx' = tx
    BY SameLedger
<1>2. run' \in [Runs -> RunType] /\ \A q \in Runs : run'[q] = run[q] \/ RunOK(run'[q], tx')
    BY <1>1, OneRun, RunIsOK
<1>3. tab' \in [Tabs -> TabType] /\ \A u \in Tabs : tab'[u] = tab[u] \/ TabOK(tab'[u], tx')
    BY <1>1, OneTab, TabIsOK
<1> QED BY <1>1, <1>2, <1>3, Moves

\* A step of a tab alone.
LEMMA TabMoves ==
    ASSUME Grounded, NEW t \in Tabs, NEW it \in TabType, TabOK(it, tx),
           tab' = [tab EXCEPT ![t] = it], UNCHANGED <<ledgerVars, savedVars, run>>
    PROVE  Grounded'
<1>1. LedgerTypeOK' /\ Extends(tx, tx') /\ tx' = tx
    BY SameLedger
<1>2. SavedTypeOK' /\ SavedOK(unconfirmed', done', tx')
    BY <1>1, SameSaved, LenIsNat
<1>3. tab' \in [Tabs -> TabType] /\ \A u \in Tabs : tab'[u] = tab[u] \/ TabOK(tab'[u], tx')
    BY <1>1, OneTab, TabIsOK
<1>4. run' \in [Runs -> RunType] /\ run' = run
    BY DEF Grounded, TypeOK
<1> QED BY <1>1, <1>2, <1>3, <1>4, Moves
-----------------------------------------------------------------------------
(***************************************************************************)
(* What a lookup answers: a hash it calls confirmed did succeed.           *)
(***************************************************************************)

LEMMA ResolutionSettles ==
    ASSUME NEW i PROVE Resolution(i) \subseteq {"unknown", "confirmed", "failed", "expired"}
BY DEF Resolution

LEMMA ResolutionConfirms ==
    ASSUME NEW i, Names(tx, i), "confirmed" \in Resolution(i)
    PROVE  Succeeded(tx, i)
BY DEF Resolution, Succeeded

-----------------------------------------------------------------------------
(***************************************************************************)
(* The end of a run.                                                       *)
(***************************************************************************)

Causes == {"short", "done", "unknown", "changed", "failed"}

LEMMA Ends ==
    ASSUME Grounded, NEW r \in Runs, NEW cause \in Causes,
           cause = "short" => run[r].queue # <<>>,
           NEW it \in TabType, TabOK(it, tx), NEW m \in Nat, m # 0 => Merged(tx, m),
           Ended(r, cause, it, m),
           UNCHANGED ledgerVars, SavedTypeOK', SavedOK(unconfirmed', done', tx)
    PROVE  Grounded'
<1> DEFINE paused == [Idle EXCEPT !.mine = TRUE, !.queue = run[r].queue,
                                  !.another = run[r].another, !.paused = TRUE]
           me == IF cause = "short" /\ Owns(r) THEN paused ELSE Idle
           phase == EndPhase(cause, it.held, m)
           shown == [it EXCEPT !.phase = phase,
                               !.plan = IF cause = "changed" /\ it.held = 0 THEN NoPlan ELSE @]
           then == IF Owns(r) THEN shown ELSE it
<1>1. run' = [run EXCEPT ![r] = me] /\ tab' = [tab EXCEPT ![TabOf[r]] = then]
    BY DEF Ended
<1>2. paused \in RunType
    BY RunIsOK, IdleIsRun DEF RunType
<1>3. cause = "short" => RunOK(paused, tx)
    BY RunIsOK DEF Idle, RunOK, Signing, Settling
<1>4. me \in RunType /\ RunOK(me, tx)
    BY <1>2, <1>3, IdleIsRun
<1>5. it.held \in Nat
    BY DEF TabType
<1>6. phase \in Phase /\ (phase = "complete" => m # 0)
    BY <1>5, EndPhaseIsPhase DEF Causes
<1>7. shown \in TabType
    BY <1>6 DEF TabType, Plan
<1>8. TabOK(shown, tx)
    <2>1. /\ shown.held = it.held /\ shown.gate = it.gate /\ shown.gateTx = it.gateTx
          /\ shown.finished = it.finished /\ shown.phase = phase
        BY <1>6 DEF TabType
    <2>2. phase = "complete" => \E i \in 1 .. Len(tx) : Merged(tx, i)
        BY <1>6 DEF Merged, Succeeded, Names
    <2> HIDE DEF shown, phase
    <2> QED BY <2>1, <2>2 DEF TabOK
<1>9. then \in TabType /\ TabOK(then, tx)
    BY <1>7, <1>8
<1> HIDE DEF me, then
<1> QED BY <1>1, <1>4, <1>9, RunIsOK, RunAndTabMove

\* The end of a run that changes nothing else.
LEMMA EndKeeps ==
    ASSUME Grounded, NEW r \in Runs, NEW cause \in Causes,
           cause = "short" => run[r].queue # <<>>,
           End(r, cause), UNCHANGED <<ledgerVars, savedVars>>
    PROVE  Grounded'
<1>1. LedgerTypeOK' /\ Extends(tx, tx') /\ tx' = tx
    BY SameLedger
<1>2. SavedTypeOK' /\ SavedOK(unconfirmed', done', tx)
    BY <1>1, SameSaved, LenIsNat
<1>3. tab[TabOf[r]] \in TabType /\ TabOK(tab[TabOf[r]], tx)
    BY RunIsOK, TabIsOK
<1>4. run[r].merge \in Nat /\ (run[r].merge # 0 => Merged(tx, run[r].merge))
    BY RunIsOK DEF RunType, RunOK
<1> QED BY <1>2, <1>3, <1>4, Ends DEF End

LEMMA GiveUpKeeps == ASSUME Grounded, NEW r \in Runs, GiveUp(r) PROVE Grounded'
BY EndKeeps DEF GiveUp, Causes

\* A hash that settled: the store's hold goes, and the run lists the records.
LEMMA ClearKeeps ==
    ASSUME Grounded, NEW r \in Runs, NEW who \in {"left", "tx"},
           NEW o \in {"confirmed", "failed", "expired", "refused"},
           Settling(run[r]), who = "tx" => Signing(run[r]),
           o = "confirmed" => Succeeded(tx, run[r].sub),
           Clear(r, who, o)
    PROVE  Grounded'
<1> DEFINE me == [run[r] EXCEPT !.pc = "list", !.who = who, !.outcome = o]
           it == IF Owns(r) THEN [tab[TabOf[r]] EXCEPT !.held = 0] ELSE tab[TabOf[r]]
<1>0. UNCHANGED ledgerVars /\ UNCHANGED savedVars
    BY DEF Clear
<1>1. LedgerTypeOK' /\ Extends(tx, tx') /\ tx' = tx
    BY <1>0, SameLedger
<1>2. SavedTypeOK' /\ SavedOK(unconfirmed', done', tx)
    BY <1>0, <1>1, SameSaved, LenIsNat
<1>3. run' = [run EXCEPT ![r] = me]
    BY RunIsOK DEF Clear, ClearHold
<1>4. tab' = [tab EXCEPT ![TabOf[r]] = it]
    BY RunIsOK, TabIsOK DEF Clear, ClearHold
<1>5. me \in RunType
    <2>1. run[r] \in RunType
        BY RunIsOK
    <2>2. "list" \in PC /\ who \in {"left", "tx", "check", "gate"}
        BY DEF PC
    <2> QED BY <2>1, <2>2 DEF RunType
<1>6. RunOK(me, tx)
    BY RunIsOK DEF RunType, RunOK, Signing, Settling
<1>7. it \in TabType /\ TabOK(it, tx)
    BY RunIsOK, TabIsOK DEF TabType, TabOK
<1> HIDE DEF me, it
<1> QED BY <1>0, <1>2, <1>3, <1>4, <1>5, <1>6, <1>7, RunIsOK, RunAndTabMove
-----------------------------------------------------------------------------
(***************************************************************************)
(* The pages around the loop.                                              *)
(***************************************************************************)

LEMMA GateReadKeeps == ASSUME Grounded, NEW t \in Tabs, GateRead(t) PROVE Grounded'
<1> DEFINE it(s) == [tab[t] EXCEPT !.phase = "planning", !.held = 0, !.gate = s,
                                   !.gateTx = IF s = NoSession THEN 0 ELSE unconfirmed[s]]
<1>1. PICK s \in {NoSession} \cup Held : tab' = [tab EXCEPT ![t] = it(s)]
    BY TabIsOK DEF GateRead, FindUnresolved
<1>2. UNCHANGED <<ledgerVars, savedVars, run>>
    BY DEF GateRead
<1>3. /\ s # NoSession => s \in Sessions /\ unconfirmed[s] \in Nat /\ Names(tx, unconfirmed[s])
      /\ s \in Sessions \cup {NoSession}
    BY DEF Held, Grounded, TypeOK, SavedTypeOK, SavedOK
<1>4. tab[t] \in TabType /\ TabOK(tab[t], tx)
    BY TabIsOK
<1>5. it(s) \in TabType
    BY <1>3, <1>4 DEF TabType, Phase
<1>6. TabOK(it(s), tx)
    BY <1>3, <1>4 DEF TabType, TabOK
<1> HIDE DEF it
<1> QED BY <1>1, <1>2, <1>5, <1>6, TabMoves

LEMMA ReviewKeeps == ASSUME Grounded, NEW t \in Tabs, Review(t) PROVE Grounded'
<1> DEFINE it == [tab[t] EXCEPT !.phase = "review", !.plan = seqNum]
<1>1. tab' = [tab EXCEPT ![t] = it] /\ UNCHANGED <<ledgerVars, savedVars, run>>
    BY TabIsOK DEF Review
<1>2. tab[t] \in TabType /\ TabOK(tab[t], tx) /\ seqNum \in Nat
    BY TabIsOK DEF Grounded, TypeOK, LedgerTypeOK
<1>3. it \in TabType
    BY <1>2 DEF TabType, Phase, Plan
<1>4. TabOK(it, tx)
    BY <1>2 DEF TabType, TabOK
<1> HIDE DEF it
<1> QED BY <1>1, <1>3, <1>4, TabMoves

\* A tab that loses its close, or the page: its runs are orphaned, or gone.
LEMMA TabResets ==
    ASSUME Grounded, NEW t \in Tabs,
           tab' = [tab EXCEPT ![t] = FreshTab],
           run' \in [Runs -> RunType],
           \A r \in Runs : run'[r] = run[r] \/ RunOK(run'[r], tx),
           UNCHANGED <<ledgerVars, savedVars>>
    PROVE  Grounded'
<1>1. LedgerTypeOK' /\ Extends(tx, tx') /\ tx' = tx
    BY SameLedger
<1>2. SavedTypeOK' /\ SavedOK(unconfirmed', done', tx')
    BY <1>1, SameSaved, LenIsNat
<1>3. tab' \in [Tabs -> TabType] /\ \A u \in Tabs : tab'[u] = tab[u] \/ TabOK(tab'[u], tx')
    BY OneTab, TabIsOK, FreshIsTab
<1> QED BY <1>1, <1>2, <1>3, Moves

LEMMA LeaveKeeps == ASSUME Grounded, NEW t \in Tabs, Leave(t) PROVE Grounded'
<1> DEFINE orphan(r) == [run[r] EXCEPT !.mine = FALSE]
<1>1. \A r \in Runs : run[r] \in RunType
    BY RunIsOK
<1>2. ASSUME NEW r \in Runs PROVE orphan(r) \in RunType
    BY <1>1 DEF RunType
<1>3. \A r \in Runs : RunOK(orphan(r), tx)
    BY RunIsOK DEF RunType, RunOK, Signing, Settling
<1> HIDE DEF orphan
<1>4. run' = [r \in Runs |-> IF TabOf[r] # t THEN run[r]
                             ELSE IF At(r, "idle") THEN Idle ELSE orphan(r)]
    BY DEF Leave, orphan
<1>5. run' \in [Runs -> RunType] /\ \A r \in Runs : run'[r] = run[r] \/ RunOK(run'[r], tx)
    BY <1>1, <1>2, <1>3, <1>4, IdleIsRun
<1> QED BY <1>5, TabResets DEF Leave

LEMMA CrashKeeps == ASSUME Grounded, NEW t \in Tabs, Crash(t) PROVE Grounded'
<1>1. \A r \in Runs : run[r] \in RunType
    BY RunIsOK
<1>2. run' \in [Runs -> RunType] /\ \A r \in Runs : run'[r] = run[r] \/ RunOK(run'[r], tx)
    BY <1>1, IdleIsRun DEF Crash
<1> QED BY <1>2, TabResets DEF Crash

LEMMA StartKeeps == ASSUME Grounded, NEW r \in Runs, Start(r) PROVE Grounded'
<1> DEFINE me == [run[r] EXCEPT !.pc = "recorded", !.mine = TRUE]
           it == [tab[TabOf[r]] EXCEPT !.phase = "executing"]
<1>1. run[r] \in RunType /\ tab[TabOf[r]] \in TabType /\ TabOK(tab[TabOf[r]], tx)
    BY RunIsOK, TabIsOK
<1>2. run' = [run EXCEPT ![r] = me] /\ tab' = [tab EXCEPT ![TabOf[r]] = it]
    BY RunIsOK, TabIsOK DEF Start
<1>3. me \in RunType
    BY <1>1 DEF RunType, PC
<1>4. RunOK(me, tx)
    BY <1>1, RunIsOK DEF RunType, RunOK, Signing, Settling
<1>5. it \in TabType
    BY <1>1 DEF TabType, Phase
<1>6. TabOK(it, tx)
    BY <1>1 DEF TabType, TabOK
<1>7. UNCHANGED ledgerVars /\ SavedTypeOK' /\ SavedOK(unconfirmed', done', tx)
    BY SameLedger, SameSaved, LenIsNat DEF Start
<1> HIDE DEF me, it
<1> QED BY <1>2, <1>3, <1>4, <1>5, <1>6, <1>7, RunIsOK, RunAndTabMove

LEMMA StartRefusedKeeps == ASSUME Grounded, NEW r \in Runs, StartRefused(r) PROVE Grounded'
<1> DEFINE it == [tab[TabOf[r]] EXCEPT !.phase = "failed"]
<1>1. tab[TabOf[r]] \in TabType /\ TabOK(tab[TabOf[r]], tx)
    BY RunIsOK, TabIsOK
<1>2. run' = [run EXCEPT ![r] = Idle] /\ tab' = [tab EXCEPT ![TabOf[r]] = it]
    BY RunIsOK, TabIsOK DEF StartRefused
<1>3. it \in TabType
    BY <1>1 DEF TabType, Phase
<1>4. TabOK(it, tx)
    BY <1>1 DEF TabType, TabOK
<1>5. UNCHANGED ledgerVars /\ SavedTypeOK' /\ SavedOK(unconfirmed', done', tx)
    BY SameLedger, SameSaved, LenIsNat DEF StartRefused
<1> HIDE DEF it
<1> QED BY <1>2, <1>3, <1>4, <1>5, IdleIsRun, RunIsOK, RunAndTabMove

LEMMA AskKeeps ==
    ASSUME Grounded, NEW r \in Runs, NEW who \in {"check", "gate"},
           NEW i \in 1 .. Len(tx), NEW s \in Sessions, Ask(r, who, i, s),
           UNCHANGED <<ledgerVars, savedVars, tab>>
    PROVE  Grounded'
<1> DEFINE me == [Idle EXCEPT !.pc = "asked", !.mine = TRUE, !.who = who, !.sub = i, !.rec = s]
<1>1. "asked" \in PC /\ who \in {"left", "tx", "check", "gate"} /\ i \in Nat
    BY LenIsNat DEF PC
<1>2. me \in RunType
    BY <1>1, IdleIsRun DEF RunType
<1>3. RunOK(me, tx)
    BY DEF Idle, RunOK, Signing, Settling, Names
<1>4. run' = [run EXCEPT ![r] = me]
    BY DEF Ask
<1> HIDE DEF me
<1> QED BY <1>2, <1>3, <1>4, RunMoves

LEMMA AskCheckKeeps == ASSUME Grounded, NEW r \in Runs, AskCheck(r) PROVE Grounded'
<1>1. tab[TabOf[r]].held \in 1 .. Len(tx)
    BY RunIsOK, TabIsOK DEF AskCheck, TabOK, Names
<1> QED BY <1>1, RunIsOK, AskKeeps DEF AskCheck

LEMMA AskGateKeeps == ASSUME Grounded, NEW r \in Runs, AskGate(r) PROVE Grounded'
<1>1. tab[TabOf[r]].gateTx \in 1 .. Len(tx) /\ tab[TabOf[r]].gate \in Sessions
    BY RunIsOK, TabIsOK DEF AskGate, TabOK, Names, TabType
<1> QED BY <1>1, AskKeeps DEF AskGate
-----------------------------------------------------------------------------
(***************************************************************************)
(* From the click to runClose, and the left-over of an earlier run.        *)
(***************************************************************************)

LEMMA AnsweredKeeps == ASSUME Grounded, NEW r \in Runs, Answered(r) PROVE Grounded'
<1> DEFINE t == TabOf[r]
           it == [tab[t] EXCEPT !.held = 0]
<1>0. /\ run[r] \in RunType /\ RunOK(run[r], tx) /\ t \in Tabs
      /\ tab \in [Tabs -> TabType] /\ tab[t] \in TabType /\ TabOK(tab[t], tx)
    BY RunIsOK, TabIsOK
<1>1. UNCHANGED ledgerVars /\ SavedTypeOK' /\ SavedOK(unconfirmed', done', tx)
    BY SameLedger, SameSaved, LenIsNat DEF Answered
<1>2. it \in TabType /\ TabOK(it, tx)
    BY <1>0 DEF TabType, TabOK
<1> HIDE DEF t, it
<1>3. PICK o \in Resolution(run[r].sub) :
          \/ /\ run' = [run EXCEPT ![r] = Idle] /\ tab' = tab
          \/ /\ o # "unknown"
             /\ run' = [run EXCEPT ![r].pc = "list", ![r].outcome = o]
             /\ tab' = tab \/ tab' = [tab EXCEPT ![t].held = 0]
    BY DEF Answered, t
<1>4. tab' = [tab EXCEPT ![t] = tab[t]] \/ tab' = [tab EXCEPT ![t] = it]
    BY <1>0, <1>3 DEF it
<1>5. CASE run' = [run EXCEPT ![r] = Idle]
    BY <1>0, <1>1, <1>2, <1>4, <1>5, IdleIsRun, RunAndTabMove
<1>6. CASE o # "unknown" /\ run' = [run EXCEPT ![r].pc = "list", ![r].outcome = o]
    <2> DEFINE me == [run[r] EXCEPT !.pc = "list", !.outcome = o]
    <2>1. o \in {"confirmed", "failed", "expired"}
        BY <1>6, ResolutionSettles
    <2>2. o = "confirmed" => Succeeded(tx, run[r].sub)
        BY <1>0, ResolutionConfirms DEF Answered, At, RunOK, Settling
    <2>3. "list" \in PC
        BY DEF PC
    <2>4. me \in RunType
        BY <1>0, <2>1, <2>3 DEF RunType
    <2>5. RunOK(me, tx)
        BY <1>0, <2>2 DEF Answered, At, RunType, RunOK, Signing, Settling
    <2>6. run' = [run EXCEPT ![r] = me]
        BY <1>6, RunIsOK
    <2> HIDE DEF me
    <2> QED BY <1>0, <1>1, <1>2, <1>4, <2>4, <2>5, <2>6, RunAndTabMove
<1> QED BY <1>3, <1>5, <1>6
LEMMA ReadRecordedKeeps == ASSUME Grounded, NEW r \in Runs, ReadRecorded(r) PROVE Grounded'
<1> DEFINE t == TabOf[r]
           me == [run[r] EXCEPT !.pc = "ensure"]
           it(h) == [tab[t] EXCEPT !.held = h]
<1>0. /\ run[r] \in RunType /\ RunOK(run[r], tx) /\ t \in Tabs
      /\ tab \in [Tabs -> TabType] /\ tab[t] \in TabType /\ TabOK(tab[t], tx)
    BY RunIsOK, TabIsOK
<1>1. UNCHANGED ledgerVars /\ SavedTypeOK' /\ SavedOK(unconfirmed', done', tx)
    BY SameLedger, SameSaved, LenIsNat DEF ReadRecorded
<1>2. me \in RunType
    BY <1>0 DEF RunType, PC
<1>3. RunOK(me, tx)
    BY <1>0 DEF ReadRecorded, At, RunType, RunOK, Signing, Settling
<1>4. run' = [run EXCEPT ![r] = me]
    BY RunIsOK DEF ReadRecorded
<1>5. PICK h \in {tab[t].held} \cup {unconfirmed[s] : s \in Held} :
          tab' = tab \/ tab' = [tab EXCEPT ![t].held = h]
    BY DEF ReadRecorded, FindUnresolved
<1>6. h \in Nat /\ (h # 0 => Names(tx, h))
    BY <1>0, <1>5 DEF TabType, TabOK, Held, Grounded, TypeOK, SavedTypeOK, SavedOK
<1>7. it(h) \in TabType
    BY <1>0, <1>6 DEF TabType
<1>8. TabOK(it(h), tx)
    BY <1>0, <1>6 DEF TabType, TabOK
<1>9. tab' = [tab EXCEPT ![t] = tab[t]] \/ tab' = [tab EXCEPT ![t] = it(h)]
    BY <1>0, <1>5
<1> HIDE DEF t, me, it
<1> QED BY <1>0, <1>1, <1>2, <1>3, <1>4, <1>7, <1>8, <1>9, RunAndTabMove

\* What Begin makes of a run that is fit to begin.
LEMMA BeginIsRun ==
    ASSUME NEW T, NEW me \in RunType, RunOK(me, T), NEW hash \in Plan
    PROVE  Begin(me, hash) \in RunType /\ RunOK(Begin(me, hash), T)
<1> DEFINE paused == [me EXCEPT !.pc = "sign", !.round = -1, !.hash = NoPlan]
           fresh == [me EXCEPT !.pc = "fetch", !.round = 0, !.hash = hash]
<1>1. "sign" \in PC /\ "fetch" \in PC /\ NoPlan \in Plan /\ -1 \in Int /\ 0 \in Int
    BY DEF PC, Plan
<1>2. paused \in RunType
    BY <1>1 DEF RunType
<1>3. fresh \in RunType
    BY <1>1 DEF RunType
<1>4. me.paused => RunOK(paused, T)
    BY DEF RunType, RunOK, Signing, Settling
<1>5. ~me.paused => RunOK(fresh, T)
    BY DEF RunType, RunOK, Signing, Settling
<1> QED BY <1>2, <1>3, <1>4, <1>5 DEF Begin

LEMMA SaveSessionKeeps ==
    ASSUME Grounded, NEW s \in Sessions, SaveSession(s) \/ UNCHANGED savedVars
    PROVE  SavedTypeOK' /\ SavedOK(unconfirmed', done', tx)
BY DEF Grounded, TypeOK, SavedTypeOK, SaveSession, savedVars

LEMMA EnsureSessionKeeps == ASSUME Grounded, NEW r \in Runs, EnsureSession(r) PROVE Grounded'
<1> DEFINE t == TabOf[r]
           mine == [run[r] EXCEPT !.rec = IF Owns(r) THEN SessionOf[r] ELSE NoSession]
           left == [mine EXCEPT !.pc = "left", !.sub = tab[t].held,
                                !.hash = IF mine.paused THEN NoPlan ELSE tab[t].plan]
           me == IF tab[t].held = 0 THEN Begin(mine, tab[t].plan) ELSE left
<1>0. /\ run[r] \in RunType /\ RunOK(run[r], tx) /\ t \in Tabs /\ SessionOf[r] \in Sessions
      /\ tab \in [Tabs -> TabType] /\ tab[t] \in TabType /\ TabOK(tab[t], tx)
    BY RunIsOK, TabIsOK
<1>1. mine \in RunType
    BY <1>0 DEF RunType
<1>2. RunOK(mine, tx)
    BY <1>0 DEF EnsureSession, At, RunType, RunOK, Signing, Settling
<1>3. /\ tab[t].held \in Nat /\ tab[t].plan \in Plan /\ NoPlan \in Plan
      /\ tab[t].held # 0 => Names(tx, tab[t].held)
    BY <1>0 DEF TabType, TabOK, Plan
<1>4. run' = [run EXCEPT ![r] = me]
    BY <1>0 DEF EnsureSession
<1>5. SavedTypeOK' /\ SavedOK(unconfirmed', done', tx)
    BY <1>0, SaveSessionKeeps DEF EnsureSession
<1>6. "left" \in PC
    BY DEF PC
<1> HIDE DEF t, mine
<1>7. left \in RunType
    BY <1>1, <1>3, <1>6 DEF RunType
<1>8. tab[t].held # 0 => RunOK(left, tx)
    BY <1>1, <1>2, <1>3 DEF RunType, RunOK, Signing, Settling
<1>9. me \in RunType /\ RunOK(me, tx)
    BY <1>1, <1>2, <1>3, <1>7, <1>8, BeginIsRun
<1>10. tab' = [tab EXCEPT ![t] = tab[t]] /\ UNCHANGED ledgerVars
    BY <1>0 DEF EnsureSession
<1> HIDE DEF me
<1> QED BY <1>0, <1>4, <1>5, <1>9, <1>10, RunAndTabMove

LEMMA EnsureFailsKeeps == ASSUME Grounded, NEW r \in Runs, EnsureFails(r) PROVE Grounded'
BY EndKeeps DEF EnsureFails, Causes

LEMMA SettleLeftOverKeeps == ASSUME Grounded, NEW r \in Runs, SettleLeftOver(r) PROVE Grounded'
<1>1. Settling(run[r]) /\ Names(tx, run[r].sub)
    BY RunIsOK DEF SettleLeftOver, At, Settling, RunOK
<1>2. PICK o \in Resolution(run[r].sub) :
          IF o = "unknown" THEN GiveUp(r) ELSE Clear(r, "left", o)
    BY DEF SettleLeftOver
<1>3. o = "confirmed" => Succeeded(tx, run[r].sub)
    BY <1>1, ResolutionConfirms
<1>4. o \in {"unknown", "confirmed", "failed", "expired"}
    BY ResolutionSettles
<1> QED BY <1>1, <1>2, <1>3, <1>4, GiveUpKeeps, ClearKeeps
-----------------------------------------------------------------------------
(***************************************************************************)
(* A round.                                                                *)
(***************************************************************************)

LEMMA SingleIsSeq == ASSUME NEW S, NEW e \in S PROVE <<e>> \in Seq(S) /\ <<e>> # <<>>
OBVIOUS

LEMMA CleanupIsSeq ==
    ASSUME LedgerTypeOK, NEW n \in Nat, n > 0, NEW until \in Nat
    PROVE  Cleanup(n, until) \in Seq(Item) /\ Cleanup(n, until) # <<>>
<1>1. Cleanup(n, until) \in [1 .. n -> Item]
    BY DEF Cleanup, BuildItem, Item, LedgerTypeOK
<1>2. Cleanup(n, until) \in Seq(Item) /\ Len(Cleanup(n, until)) = n
    BY <1>1
<1>3. Len(<<>>) = 0
    OBVIOUS
<1> QED BY <1>2, <1>3

LEMMA AnswerIsRound ==
    ASSUME NEW txs \in Seq(Item), txs # <<>>, NEW another \in BOOLEAN, NEW steps \in Nat, NEW b,
           b = [txs |-> txs, another |-> another, steps |-> steps]
    PROVE  b.txs \in Seq(Item) /\ b.txs # <<>> /\ b.another \in BOOLEAN /\ b.steps \in Nat
OBVIOUS

\* Every round the API may answer with holds a transaction.
LEMMA RoundsHoldWork ==
    ASSUME LedgerTypeOK, NEW b \in Rounds
    PROVE  b.txs \in Seq(Item) /\ b.txs # <<>> /\ b.another \in BOOLEAN /\ b.steps \in Nat
<1>0. PICK until \in Nat : b \in RoundsUntil(until)
    BY LedgerAssumption DEF LedgerTypeOK, Rounds, NoEnd
<1>1. CASE work = 0
    <2>1. BuildItem(1, TRUE, until) \in Item
        BY DEF LedgerTypeOK, BuildItem, Item
    <2>2. PICK a \in BOOLEAN : b = [txs |-> <<BuildItem(1, TRUE, until)>>, another |-> a, steps |-> 0]
        BY <1>0, <1>1 DEF RoundsUntil
    <2> QED BY <2>1, <2>2, SingleIsSeq, AnswerIsRound
<1>2. CASE work # 0
    <2>1. work \in Nat /\ work > 0
        BY <1>2 DEF LedgerTypeOK
    <2>2. Cleanup(1, until) \in Seq(Item) /\ Cleanup(1, until) # <<>>
        BY CleanupIsSeq
    <2>3. Cleanup(work, until) \in Seq(Item) /\ Cleanup(work, until) # <<>>
        BY <2>1, CleanupIsSeq
    <2>4. CASE b = [txs |-> Cleanup(1, until), another |-> TRUE, steps |-> work]
        BY <2>1, <2>2, <2>4, AnswerIsRound
    <2>5. CASE b = [txs |-> Cleanup(work, until), another |-> TRUE, steps |-> 1]
        BY <2>3, <2>5, AnswerIsRound
    <2>6. CASE b = [txs |-> Cleanup(1, until), another |-> FALSE, steps |-> 0]
        BY <2>2, <2>6, AnswerIsRound
    <2> QED BY <1>0, <1>2, <2>4, <2>5, <2>6 DEF RoundsUntil
<1> QED BY <1>1, <1>2

LEMMA FetchRoundKeeps == ASSUME Grounded, NEW r \in Runs, FetchRound(r) PROVE Grounded'
<1>1. PICK b \in Rounds :
          run' = [run EXCEPT ![r].pc = "sign", ![r].queue = b.txs, ![r].another = b.another,
                             ![r].steps = b.steps, ![r].attempt = 0]
    BY DEF FetchRound
<1> DEFINE me == [run[r] EXCEPT !.pc = "sign", !.queue = b.txs, !.another = b.another,
                                !.steps = b.steps, !.attempt = 0]
<1>2. run[r] \in RunType /\ RunOK(run[r], tx)
    BY RunIsOK
<1>3. b.txs \in Seq(Item) /\ b.txs # <<>> /\ b.another \in BOOLEAN /\ b.steps \in Nat
    BY RoundsHoldWork DEF Grounded, TypeOK
<1>4. "sign" \in PC
    BY DEF PC
<1>5. me \in RunType
    BY <1>2, <1>3, <1>4 DEF RunType
<1>6. RunOK(me, tx)
    BY <1>2, <1>3 DEF RunType, RunOK, Signing, Settling
<1>7. run' = [run EXCEPT ![r] = me]
    BY <1>1, RunIsOK
<1> HIDE DEF me
<1> QED BY <1>5, <1>6, <1>7, RunMoves DEF FetchRound, OnlyRun

\* A step that only moves the run's pc, and perhaps its count of attempts.
LEMMA StepKeeps ==
    ASSUME Grounded, NEW r \in Runs, NEW p \in PC, NEW n \in Nat,
           p \in {"sign", "keep", "save", "send", "answer", "lookup"} => Signing(run[r]),
           p \in {"asked", "left", "saved", "send", "answer", "lookup"} => Settling(run[r]),
           p \notin {"asked", "saved", "list", "drop"},
           run' = [run EXCEPT ![r].pc = p, ![r].attempt = n],
           UNCHANGED <<ledgerVars, savedVars, tab>>
    PROVE  Grounded'
<1> DEFINE me == [run[r] EXCEPT !.pc = p, !.attempt = n]
<1>1. run[r] \in RunType /\ RunOK(run[r], tx)
    BY RunIsOK
<1>2. me \in RunType
    BY <1>1 DEF RunType
<1>3. RunOK(me, tx)
    BY <1>1 DEF RunType, RunOK, Signing, Settling
<1>4. run' = [run EXCEPT ![r] = me]
    BY RunIsOK
<1> HIDE DEF me
<1> QED BY <1>2, <1>3, <1>4, RunMoves

LEMMA FetchStateChangedKeeps ==
    ASSUME Grounded, NEW r \in Runs, FetchStateChanged(r) PROVE Grounded'
<1>1. CASE End(r, "changed")
    BY <1>1, EndKeeps DEF FetchStateChanged, Causes
<1>2. CASE run' = [run EXCEPT ![r].attempt = @ + 1] /\ tab' = tab
    <2>1. run \in [Runs -> RunType] /\ run[r] \in RunType /\ run[r].pc = "fetch"
        BY RunIsOK DEF FetchStateChanged, At
    <2>2. run[r].attempt + 1 \in Nat /\ "fetch" \in PC
        BY <2>1 DEF RunType, PC
    <2>3. run' = [run EXCEPT ![r].pc = "fetch", ![r].attempt = run[r].attempt + 1]
        BY <1>2, <2>1 DEF RunType
    <2>4. UNCHANGED <<ledgerVars, savedVars, tab>>
        BY <1>2 DEF FetchStateChanged
    <2> QED BY <2>2, <2>3, <2>4, StepKeeps
<1> QED BY <1>1, <1>2 DEF FetchStateChanged

LEMMA FetchAccountNotFoundKeeps ==
    ASSUME Grounded, NEW r \in Runs, FetchAccountNotFound(r) PROVE Grounded'
<1>1. CASE End(r, "failed")
    BY <1>1, EndKeeps DEF FetchAccountNotFound, Causes
<1>2. CASE run' = [run EXCEPT ![r].pc = "explain"] /\ tab' = tab
    <2>1. run \in [Runs -> RunType] /\ run[r] \in RunType
        BY RunIsOK
    <2>2. run[r].attempt \in Nat /\ "explain" \in PC
        BY <2>1 DEF RunType, PC
    <2>3. run' = [run EXCEPT ![r].pc = "explain", ![r].attempt = run[r].attempt]
        BY <1>2, <2>1 DEF RunType
    <2>4. UNCHANGED <<ledgerVars, savedVars, tab>>
        BY <1>2 DEF FetchAccountNotFound
    <2> QED BY <2>2, <2>3, <2>4, StepKeeps
<1> QED BY <1>1, <1>2 DEF FetchAccountNotFound

LEMMA MergeExplainsKeeps ==
    ASSUME Grounded, NEW r \in Runs, MergeExplainsMissingAccount(r) PROVE Grounded'
<1>1. PICK cause \in {"done", "failed"} : End(r, cause)
    BY DEF MergeExplainsMissingAccount
<1> QED BY <1>1, EndKeeps DEF MergeExplainsMissingAccount, Causes

LEMMA FetchFailsKeeps == ASSUME Grounded, NEW r \in Runs, FetchFails(r) PROVE Grounded'
BY EndKeeps DEF FetchFails, Causes
-----------------------------------------------------------------------------
(***************************************************************************)
(* One transaction of the round.                                           *)
(***************************************************************************)

LEMMA SignKeeps == ASSUME Grounded, NEW r \in Runs, Sign(r) PROVE Grounded'
<1>1. run \in [Runs -> RunType] /\ run[r] \in RunType /\ Signing(run[r])
    BY RunIsOK DEF Sign, At, Signing
<1>2. run[r].attempt \in Nat /\ "keep" \in PC
    BY <1>1 DEF RunType, PC
<1>3. run' = [run EXCEPT ![r].pc = "keep", ![r].attempt = run[r].attempt]
    BY <1>1 DEF Sign, RunType
<1>4. UNCHANGED <<ledgerVars, savedVars, tab>>
    BY DEF Sign, OnlyRun
<1> QED BY <1>1, <1>2, <1>3, <1>4, StepKeeps

LEMMA SignShortKeeps == ASSUME Grounded, NEW r \in Runs, SignShort(r) PROVE Grounded'
<1>1. run[r].queue # <<>>
    BY RunIsOK DEF SignShort, At, RunOK, Signing
<1> QED BY <1>1, EndKeeps DEF SignShort, Causes

LEMMA SignFailsKeeps == ASSUME Grounded, NEW r \in Runs, SignFails(r) PROVE Grounded'
BY EndKeeps DEF SignFails, Causes

LEMMA NotKeptKeeps == ASSUME Grounded, NEW r \in Runs, NotKept(r) PROVE Grounded'
BY EndKeeps DEF NotKept, Causes

LEMMA KeepSessionKeeps == ASSUME Grounded, NEW r \in Runs, KeepSession(r) PROVE Grounded'
<1> DEFINE me == [run[r] EXCEPT !.pc = "save"]
<1>0. /\ run[r] \in RunType /\ RunOK(run[r], tx) /\ TabOf[r] \in Tabs /\ SessionOf[r] \in Sessions
      /\ tab \in [Tabs -> TabType] /\ tab[TabOf[r]] \in TabType /\ TabOK(tab[TabOf[r]], tx)
    BY RunIsOK, TabIsOK
<1>1. me \in RunType
    BY <1>0 DEF RunType, PC
<1>2. RunOK(me, tx)
    BY <1>0 DEF KeepSession, At, RunType, RunOK, Signing, Settling
<1>3. run' = [run EXCEPT ![r] = me] /\ UNCHANGED ledgerVars
    BY RunIsOK DEF KeepSession
<1>4. tab' = [tab EXCEPT ![TabOf[r]] = tab[TabOf[r]]]
    BY <1>0 DEF KeepSession
<1>5. SavedTypeOK' /\ SavedOK(unconfirmed', done', tx)
    BY <1>0, SaveSessionKeeps DEF KeepSession
<1> HIDE DEF me
<1> QED BY <1>0, <1>1, <1>2, <1>3, <1>4, <1>5, RunAndTabMove

LEMMA KeepHashKeeps == ASSUME Grounded, NEW r \in Runs, KeepHash(r) PROVE Grounded'
<1> DEFINE n == Len(tx) + 1
           me == [run[r] EXCEPT !.pc = "saved", !.sub = n]
<1>0. /\ run[r] \in RunType /\ RunOK(run[r], tx) /\ SessionOf[r] \in Sessions
      /\ tx \in Seq(TxType) /\ Len(tx) \in Nat
    BY RunIsOK, LenIsNat
<1>1. NewTx(r) \in TxType
    <2>1. run[r].queue \in Seq(Item) /\ run[r].queue # <<>>
        BY <1>0 DEF KeepHash, At, RunType, RunOK, Signing
    <2>2. Head(run[r].queue) \in Item
        BY <2>1, HeadTailProperties
    <2> QED BY <2>2 DEF NewTx, Item, TxType, Fate
<1>2. /\ tx' \in Seq(TxType) /\ Len(tx') = n
      /\ \A i \in 1 .. Len(tx) : tx'[i] = tx[i]
    BY <1>0, <1>1, AppendProperties DEF KeepHash
<1>3. Extends(tx, tx')
    BY <1>0, <1>2 DEF Extends
<1>4. LedgerTypeOK'
    BY <1>2 DEF KeepHash, Grounded, TypeOK, LedgerTypeOK
<1>5. n \in Nat /\ Len(tx') \in Nat /\ "saved" \in PC
    BY <1>0, <1>2 DEF PC
<1>6. Names(tx', n)
    BY <1>0, <1>2 DEF Names
<1>7. SavedOK(unconfirmed, done, tx')
    BY <1>0, <1>3, <1>5, SavedKept DEF Grounded
<1> HIDE DEF n
<1>8. SavedTypeOK' /\ SavedOK(unconfirmed', done', tx')
    <2>1. unconfirmed' = [unconfirmed EXCEPT ![SessionOf[r]] = n] /\ UNCHANGED <<exists, done>>
        BY DEF KeepHash, SaveUnconfirmed, n
    <2>2. SavedTypeOK'
        BY <1>0, <1>5, <2>1 DEF Grounded, TypeOK, SavedTypeOK
    <2>3. unconfirmed \in [Sessions -> Nat]
        BY DEF Grounded, TypeOK, SavedTypeOK
    <2> QED BY <1>0, <1>6, <1>7, <2>1, <2>2, <2>3 DEF SavedOK
<1>9. me \in RunType
    BY <1>0, <1>5 DEF RunType
<1>10. RunOK(run[r], tx')
    BY <1>0, <1>3, <1>5, RunKept
<1>11. RunOK(me, tx')
    BY <1>0, <1>6, <1>10 DEF KeepHash, At, RunType, RunOK, Signing, Settling
<1>12. run' = [run EXCEPT ![r] = me]
    BY RunIsOK DEF KeepHash, n
<1>13. tab' = tab /\ tab' \in [Tabs -> TabType] /\ run \in [Runs -> RunType]
    BY DEF KeepHash, Grounded, TypeOK
<1> HIDE DEF me
<1>14. run' \in [Runs -> RunType] /\ \A q \in Runs : run'[q] = run[q] \/ RunOK(run'[q], tx')
    BY <1>9, <1>11, <1>12, <1>13, OneRun
<1> QED BY <1>3, <1>4, <1>8, <1>13, <1>14, Moves

LEMMA HoldInStoreKeeps == ASSUME Grounded, NEW r \in Runs, HoldInStore(r) PROVE Grounded'
<1> DEFINE me == [run[r] EXCEPT !.pc = "send", !.attempt = 0]
           it == [tab[TabOf[r]] EXCEPT !.held = run[r].sub]
<1>0. /\ run[r] \in RunType /\ RunOK(run[r], tx) /\ TabOf[r] \in Tabs
      /\ tab[TabOf[r]] \in TabType /\ TabOK(tab[TabOf[r]], tx)
    BY RunIsOK, TabIsOK
<1>1. UNCHANGED ledgerVars /\ SavedTypeOK' /\ SavedOK(unconfirmed', done', tx)
    BY SameLedger, SameSaved, LenIsNat DEF HoldInStore
<1>2. me \in RunType
    BY <1>0 DEF RunType, PC
<1>3. RunOK(me, tx)
    BY <1>0 DEF HoldInStore, At, RunType, RunOK, Signing, Settling
<1>4. it \in TabType
    BY <1>0 DEF TabType, RunType
<1>5. TabOK(it, tx)
    BY <1>0 DEF HoldInStore, At, RunOK, Settling, TabType, TabOK
<1>6. run' = [run EXCEPT ![r] = me] /\ tab' = [tab EXCEPT ![TabOf[r]] = it]
    BY RunIsOK, TabIsOK DEF HoldInStore
<1> HIDE DEF me, it
<1> QED BY <1>0, <1>1, <1>2, <1>3, <1>4, <1>5, <1>6, RunAndTabMove

LEMMA Replaced ==
    ASSUME NEW S, NEW s \in Seq(S), NEW i \in 1 .. Len(s), NEW e \in S,
           NEW u, u = [s EXCEPT ![i] = e]
    PROVE  /\ u \in Seq(S) /\ Len(u) = Len(s)
           /\ \A j \in 1 .. Len(s) : u[j] = IF j = i THEN e ELSE s[j]
<1>1. u \in Seq(S)
    BY ExceptSeq
<1>2. Len(u) = Len(s)
    OBVIOUS
<1>3. \A j \in 1 .. Len(s) : u[j] = IF j = i THEN e ELSE s[j]
    OBVIOUS
<1> QED BY <1>1, <1>2, <1>3

\* An envelope that a step hands over, or that the network refuses, changes its
\* fate and nothing else; a success stays one.
LEMMA FateChanges ==
    ASSUME Grounded, NEW i \in 1 .. Len(tx), NEW f \in Fate,
           tx[i].fate = "success" => f = "success",
           tx' = [tx EXCEPT ![i].fate = f],
           UNCHANGED <<open, seqNum, work, ltime, disturbed>>
    PROVE  LedgerTypeOK' /\ Extends(tx, tx')
<1> DEFINE e == [tx[i] EXCEPT !.fate = f]
<1>1. tx \in Seq(TxType) /\ Len(tx) \in Nat /\ tx[i] \in TxType
    BY LenIsNat, ElementOfSeq
<1>2. e \in TxType
    BY <1>1 DEF TxType
<1>3. tx' = [tx EXCEPT ![i] = e]
    BY <1>1
<1>4. e.merge = tx[i].merge /\ e.fate = f
    BY <1>1 DEF TxType
<1> HIDE DEF e
<1>5. /\ tx' \in Seq(TxType) /\ Len(tx') = Len(tx)
      /\ \A j \in 1 .. Len(tx) : tx'[j] = IF j = i THEN e ELSE tx[j]
    BY <1>1, <1>2, <1>3, Replaced
<1>6. LedgerTypeOK'
    BY <1>5 DEF Grounded, TypeOK, LedgerTypeOK
<1> QED BY <1>1, <1>4, <1>5, <1>6 DEF Extends
LEMMA SendKeeps == ASSUME Grounded, NEW r \in Runs, Send(r) PROVE Grounded'
<1> DEFINE me == [run[r] EXCEPT !.pc = "answer"]
           i == run[r].sub
           f == IF tx[i].fate = "kept" THEN "sent" ELSE tx[i].fate
<1>0. /\ run[r] \in RunType /\ RunOK(run[r], tx) /\ run \in [Runs -> RunType]
      /\ i \in 1 .. Len(tx) /\ tx \in Seq(TxType) /\ Len(tx) \in Nat
    BY RunIsOK, LenIsNat DEF Send, At, RunOK, Settling, Names
<1>1. tx[i] \in TxType
    BY <1>0, ElementOfSeq
<1>2. f \in Fate /\ (tx[i].fate = "success" => f = "success")
    BY <1>1 DEF TxType, Fate
<1>3. tx' = [tx EXCEPT ![i].fate = f]
    BY <1>0 DEF Send
<1>4. UNCHANGED <<open, seqNum, work, ltime, disturbed>>
    BY DEF Send
<1>5. me \in RunType
    BY <1>0 DEF RunType, PC
<1>6. run' = [run EXCEPT ![r] = me]
    BY <1>0 DEF Send
<1>7. UNCHANGED savedVars /\ tab' = tab /\ tab' \in [Tabs -> TabType]
    BY DEF Send, Grounded, TypeOK
<1>8. RunOK(me, tx)
    BY <1>0 DEF Send, At, RunType, RunOK, Signing, Settling
<1> HIDE DEF me, i, f
<1>9. LedgerTypeOK' /\ Extends(tx, tx')
    BY <1>0, <1>2, <1>3, <1>4, FateChanges
<1>10. Len(tx') \in Nat
    BY <1>9, LenProperties DEF LedgerTypeOK
<1>11. SavedTypeOK' /\ SavedOK(unconfirmed', done', tx')
    BY <1>7, <1>9, <1>10, SameSaved
<1>12. RunOK(me, tx')
    BY <1>0, <1>8, <1>9, <1>10, RunKept
<1>13. run' \in [Runs -> RunType] /\ \A q \in Runs : run'[q] = run[q] \/ RunOK(run'[q], tx')
    BY <1>0, <1>5, <1>6, <1>12, OneRun
<1> QED BY <1>7, <1>9, <1>11, <1>13, Moves

LEMMA SendNotOwnerKeeps == ASSUME Grounded, NEW r \in Runs, SendNotOwner(r) PROVE Grounded'
<1>1. /\ run \in [Runs -> RunType] /\ run[r] \in RunType /\ Signing(run[r]) /\ Settling(run[r])
    BY RunIsOK DEF SendNotOwner, At, Signing, Settling
<1>2. run[r].attempt \in Nat /\ "lookup" \in PC
    BY <1>1 DEF RunType, PC
<1>3. run' = [run EXCEPT ![r].pc = "lookup", ![r].attempt = run[r].attempt]
    BY <1>1 DEF SendNotOwner, RunType
<1>4. UNCHANGED <<ledgerVars, savedVars, tab>>
    BY DEF SendNotOwner, OnlyRun
<1> QED BY <1>1, <1>2, <1>3, <1>4, StepKeeps

LEMMA AnswerUnknownKeeps == ASSUME Grounded, NEW r \in Runs, AnswerUnknown(r) PROVE Grounded'
<1> DEFINE p == IF run[r].attempt < Resends THEN "send" ELSE "lookup"
           n == IF run[r].attempt < Resends THEN run[r].attempt + 1 ELSE run[r].attempt
<1>1. /\ run \in [Runs -> RunType] /\ run[r] \in RunType /\ Signing(run[r]) /\ Settling(run[r])
    BY RunIsOK DEF AnswerUnknown, At, Signing, Settling
<1>2. p \in PC /\ p \in {"send", "lookup"}
    BY DEF PC
<1>3. n \in Nat
    BY <1>1 DEF RunType
<1>4. run' = [run EXCEPT ![r].pc = p, ![r].attempt = n]
    BY <1>1 DEF AnswerUnknown, RunType
<1>5. UNCHANGED <<ledgerVars, savedVars, tab>>
    BY DEF AnswerUnknown, OnlyRun
<1> HIDE DEF p, n
<1> QED BY <1>1, <1>2, <1>3, <1>4, <1>5, StepKeeps

LEMMA AnswerConfirmedKeeps == ASSUME Grounded, NEW r \in Runs, AnswerConfirmed(r) PROVE Grounded'
<1>1. Signing(run[r]) /\ Settling(run[r])
    BY DEF AnswerConfirmed, At, Signing, Settling
<1>2. Succeeded(tx, run[r].sub)
    BY <1>1, RunIsOK DEF AnswerConfirmed, RunOK, Succeeded
<1> QED BY <1>1, <1>2, ClearKeeps DEF AnswerConfirmed

LEMMA AnswerRefusedKeeps == ASSUME Grounded, NEW r \in Runs, AnswerRefused(r) PROVE Grounded'
<1> DEFINE i == run[r].sub
           f == IF tx[i].fate = "sent" THEN "kept" ELSE tx[i].fate
           me == [run[r] EXCEPT !.pc = "list", !.who = "tx", !.outcome = "refused"]
           it == IF Owns(r) THEN [tab[TabOf[r]] EXCEPT !.held = 0] ELSE tab[TabOf[r]]
<1>0. /\ run[r] \in RunType /\ RunOK(run[r], tx) /\ run \in [Runs -> RunType]
      /\ Signing(run[r]) /\ Settling(run[r])
      /\ TabOf[r] \in Tabs /\ tab \in [Tabs -> TabType]
      /\ tab[TabOf[r]] \in TabType /\ TabOK(tab[TabOf[r]], tx)
    BY RunIsOK, TabIsOK DEF AnswerRefused, At, Signing, Settling
<1>1. i \in 1 .. Len(tx) /\ tx \in Seq(TxType) /\ Len(tx) \in Nat
    BY <1>0, LenIsNat DEF RunOK, Names
<1>2. CASE run[r].attempt > 0 /\ run' = [run EXCEPT ![r].pc = "lookup"] /\ UNCHANGED <<tx, tab>>
    <2>1. run[r].attempt \in Nat /\ "lookup" \in PC
        BY <1>0 DEF RunType, PC
    <2>2. run' = [run EXCEPT ![r].pc = "lookup", ![r].attempt = run[r].attempt]
        BY <1>0, <1>2 DEF RunType
    <2>3. UNCHANGED <<ledgerVars, savedVars, tab>>
        BY <1>2 DEF AnswerRefused, ledgerVars
    <2> QED BY <1>0, <2>1, <2>2, <2>3, StepKeeps
<1>3. CASE tx' = [tx EXCEPT ![i].fate = IF @ = "sent" THEN "kept" ELSE @]
              /\ ClearHold(r, "tx", "refused")
    <2>1. tx[i] \in TxType
        BY <1>1, ElementOfSeq
    <2>2. f \in Fate /\ (tx[i].fate = "success" => f = "success")
        BY <2>1 DEF TxType, Fate
    <2>3. tx' = [tx EXCEPT ![i].fate = f]
        BY <1>1, <1>3
    <2>4. UNCHANGED <<open, seqNum, work, ltime, disturbed>> /\ UNCHANGED savedVars
        BY DEF AnswerRefused
    <2>5. me \in RunType
        BY <1>0 DEF RunType, PC
    <2>6. RunOK(me, tx)
        BY <1>0 DEF RunType, RunOK, Signing, Settling
    <2>7. it \in TabType /\ TabOK(it, tx)
        BY <1>0 DEF TabType, TabOK
    <2>8. run' = [run EXCEPT ![r] = me] /\ tab' = [tab EXCEPT ![TabOf[r]] = it]
        BY <1>0, <1>3 DEF ClearHold
    <2> HIDE DEF i, f, me, it
    <2>9. LedgerTypeOK' /\ Extends(tx, tx')
        BY <1>1, <2>2, <2>3, <2>4, FateChanges
    <2>10. Len(tx') \in Nat
        BY <2>9, LenProperties DEF LedgerTypeOK
    <2>11. SavedTypeOK' /\ SavedOK(unconfirmed', done', tx')
        BY <2>4, <2>9, <2>10, SameSaved
    <2>12. RunOK(me, tx') /\ TabOK(it, tx')
        BY <1>1, <2>6, <2>7, <2>9, <2>10, RunKept, TabKept
    <2>13. run' \in [Runs -> RunType] /\ \A q \in Runs : run'[q] = run[q] \/ RunOK(run'[q], tx')
        BY <1>0, <2>5, <2>8, <2>12, OneRun
    <2>14. tab' \in [Tabs -> TabType] /\ \A u \in Tabs : tab'[u] = tab[u] \/ TabOK(tab'[u], tx')
        BY <1>0, <2>7, <2>8, <2>12, OneTab
    <2> QED BY <2>9, <2>11, <2>13, <2>14, Moves
<1> QED BY <1>2, <1>3 DEF AnswerRefused

LEMMA LookUpKeeps == ASSUME Grounded, NEW r \in Runs, LookUp(r) PROVE Grounded'
<1>1. Signing(run[r]) /\ Settling(run[r]) /\ Names(tx, run[r].sub)
    BY RunIsOK DEF LookUp, At, Signing, Settling, RunOK
<1>2. PICK o \in Resolution(run[r].sub) :
          IF o \in {"confirmed", "failed"} THEN Clear(r, "tx", o) ELSE GiveUp(r)
    BY DEF LookUp
<1>3. o = "confirmed" => Succeeded(tx, run[r].sub)
    BY <1>1, ResolutionConfirms
<1> QED BY <1>1, <1>2, <1>3, GiveUpKeeps, ClearKeeps
-----------------------------------------------------------------------------
(***************************************************************************)
(* A settled hash is dropped from the records, and the run goes on.        *)
(***************************************************************************)

LEMMA ListHeldKeeps == ASSUME Grounded, NEW r \in Runs, ListHeld(r) PROVE Grounded'
<1> DEFINE me == [run[r] EXCEPT !.pc = "drop", !.listed = Held]
<1>1. run[r] \in RunType /\ RunOK(run[r], tx)
    BY RunIsOK
<1>2. "drop" \in PC /\ Held \in SUBSET Sessions
    BY DEF PC, Held
<1>3. me \in RunType
    BY <1>1, <1>2 DEF RunType
<1>4. RunOK(me, tx)
    BY <1>1 DEF ListHeld, At, RunType, RunOK, Signing, Settling
<1>5. run' = [run EXCEPT ![r] = me]
    BY RunIsOK DEF ListHeld
<1> HIDE DEF me
<1> QED BY <1>3, <1>4, <1>5, RunMoves DEF ListHeld, OnlyRun

LEMMA DropFailsKeeps == ASSUME Grounded, NEW r \in Runs, DropFails(r) PROVE Grounded'
<1> DEFINE me == [run[r] EXCEPT !.pc = "drop", !.listed = {}]
<1>1. run[r] \in RunType /\ RunOK(run[r], tx)
    BY RunIsOK
<1>2. "drop" \in PC /\ {} \in SUBSET Sessions
    BY DEF PC
<1>3. me \in RunType
    BY <1>1, <1>2 DEF RunType
<1>4. RunOK(me, tx)
    BY <1>1 DEF DropFails, RunType, RunOK, Signing, Settling
<1>5. run' = [run EXCEPT ![r] = me]
    BY RunIsOK DEF DropFails
<1> HIDE DEF me
<1> QED BY <1>3, <1>4, <1>5, RunMoves DEF DropFails, OnlyRun

LEMMA DropHeldKeeps == ASSUME Grounded, NEW r \in Runs, DropHeld(r) PROVE Grounded'
<1>1. PICK s \in run[r].listed :
          /\ SaveUnconfirmed(s, 0)
          /\ run' = [run EXCEPT ![r].listed = @ \ {s}]
    BY DEF DropHeld
<1> DEFINE me == [run[r] EXCEPT !.listed = run[r].listed \ {s}]
<1>0. /\ run[r] \in RunType /\ RunOK(run[r], tx) /\ TabOf[r] \in Tabs
      /\ tab \in [Tabs -> TabType] /\ tab[TabOf[r]] \in TabType /\ TabOK(tab[TabOf[r]], tx)
    BY RunIsOK, TabIsOK
<1>2. s \in Sessions /\ run[r].listed \ {s} \in SUBSET Sessions
    BY <1>0, <1>1 DEF RunType
<1>3. me \in RunType
    BY <1>0, <1>2 DEF RunType
<1>4. RunOK(me, tx)
    BY <1>0 DEF RunType, RunOK, Signing, Settling
<1>5. run' = [run EXCEPT ![r] = me]
    BY <1>1, RunIsOK
<1>6. SavedTypeOK' /\ SavedOK(unconfirmed', done', tx)
    BY <1>1, <1>2 DEF SaveUnconfirmed, Grounded, TypeOK, SavedTypeOK, SavedOK
<1>7. tab' = [tab EXCEPT ![TabOf[r]] = tab[TabOf[r]]] /\ UNCHANGED ledgerVars
    BY <1>0 DEF DropHeld
<1> HIDE DEF me
<1> QED BY <1>0, <1>3, <1>4, <1>5, <1>6, <1>7, RunAndTabMove

\* Of a hash that settled, the record takes only what succeeded.
LEMMA RecordKeeps ==
    ASSUME Grounded, NEW s, NEW i, Succeeded(tx, i),
           RecordConfirmed(s, i) \/ UNCHANGED savedVars
    PROVE  SavedTypeOK' /\ SavedOK(unconfirmed', done', tx)
<1>1. i \in Nat
    BY LenIsNat DEF Succeeded, Names
<1> QED BY <1>1 DEF RecordConfirmed, savedVars, Grounded, TypeOK, SavedTypeOK, SavedOK

LEMMA SavedUntouched ==
    ASSUME Grounded, UNCHANGED savedVars
    PROVE  SavedTypeOK' /\ SavedOK(unconfirmed', done', tx)
BY DEF savedVars, Grounded, TypeOK, SavedTypeOK, SavedOK

LEMMA PlanClearedIsTab ==
    ASSUME Grounded, NEW r \in Runs
    PROVE  PlanCleared(r) \in TabType /\ TabOK(PlanCleared(r), tx)
<1>1. tab[TabOf[r]] \in TabType /\ TabOK(tab[TabOf[r]], tx)
    BY RunIsOK, TabIsOK
<1>2. [tab[TabOf[r]] EXCEPT !.plan = NoPlan] \in TabType
    BY <1>1 DEF TabType, Plan
<1>3. TabOK([tab[TabOf[r]] EXCEPT !.plan = NoPlan], tx)
    BY <1>1 DEF TabType, TabOK
<1> QED BY <1>1, <1>2, <1>3 DEF PlanCleared

LEMMA LeftOverGoneKeeps == ASSUME Grounded, NEW r \in Runs, LeftOverGone(r) PROVE Grounded'
<1>1. CASE End(r, "failed")
    BY <1>1, EndKeeps DEF LeftOverGone, Causes
<1>2. CASE run' = [run EXCEPT ![r] = Begin(@, @.hash)] /\ tab' = tab
    <2>1. run \in [Runs -> RunType] /\ run[r] \in RunType /\ RunOK(run[r], tx)
        BY RunIsOK
    <2>2. run[r].hash \in Plan
        BY <2>1 DEF RunType
    <2>3. Begin(run[r], run[r].hash) \in RunType /\ RunOK(Begin(run[r], run[r].hash), tx)
        BY <2>1, <2>2, BeginIsRun
    <2>4. run' = [run EXCEPT ![r] = Begin(run[r], run[r].hash)]
        BY <1>2, <2>1
    <2>5. UNCHANGED <<ledgerVars, savedVars, tab>>
        BY <1>2 DEF LeftOverGone
    <2> QED BY <2>3, <2>4, <2>5, RunMoves
<1> QED BY <1>1, <1>2 DEF LeftOverGone

LEMMA LeftOverConfirmedKeeps ==
    ASSUME Grounded, NEW r \in Runs, LeftOverConfirmed(r)
    PROVE  Grounded'
<1>0. run \in [Runs -> RunType] /\ run[r] \in RunType /\ RunOK(run[r], tx) /\ TabOf[r] \in Tabs
    BY RunIsOK
<1>1. Succeeded(tx, run[r].sub)
    BY <1>0 DEF LeftOverConfirmed, Cleared, At, RunOK
<1>2. SavedTypeOK' /\ SavedOK(unconfirmed', done', tx)
    BY <1>1, RecordKeeps DEF LeftOverConfirmed, RecordProgress
<1>3. PlanCleared(r) \in TabType /\ TabOK(PlanCleared(r), tx) /\ UNCHANGED ledgerVars
    BY PlanClearedIsTab DEF LeftOverConfirmed
<1>4. CASE tx[run[r].sub].merge /\ Ended(r, "done", PlanCleared(r), run[r].sub)
    <2>1. run[r].sub \in Nat /\ Merged(tx, run[r].sub)
        BY <1>0, <1>1, <1>4 DEF RunType, Merged
    <2> QED BY <1>2, <1>3, <1>4, <2>1, Ends DEF Causes
<1>5. CASE run' = [run EXCEPT ![r] = Begin(@, NoPlan)] /\ ClearPlanHash(r)
    <2>1. NoPlan \in Plan
        BY DEF Plan
    <2>2. Begin(run[r], NoPlan) \in RunType /\ RunOK(Begin(run[r], NoPlan), tx)
        BY <1>0, <2>1, BeginIsRun
    <2>3. /\ run' = [run EXCEPT ![r] = Begin(run[r], NoPlan)]
          /\ tab' = [tab EXCEPT ![TabOf[r]] = PlanCleared(r)]
        BY <1>0, <1>5 DEF ClearPlanHash
    <2> QED BY <1>0, <1>2, <1>3, <2>2, <2>3, RunAndTabMove
<1> QED BY <1>4, <1>5 DEF LeftOverConfirmed

LEMMA TxNotConfirmedKeeps == ASSUME Grounded, NEW r \in Runs, TxNotConfirmed(r) PROVE Grounded'
BY EndKeeps DEF TxNotConfirmed, Causes

LEMMA NextBoundIsNat == ASSUME NEW r, run[r] \in RunType PROVE NextBound(r) \in Nat
BY EngineAssumption DEF RunType, NextBound, Larger

LEMMA TxConfirmedKeeps == ASSUME Grounded, NEW r \in Runs, TxConfirmed(r) PROVE Grounded'
<1> DEFINE m == IF tx[run[r].sub].merge THEN run[r].sub ELSE run[r].merge
           after == [run[r] EXCEPT !.queue = Tail(run[r].queue), !.merge = m, !.hash = NoPlan,
                                   !.sub = 0, !.attempt = 0, !.paused = FALSE]
           next == [after EXCEPT !.pc = "sign"]
           again == [after EXCEPT !.pc = "fetch", !.round = after.round + 1, !.bound = NextBound(r)]
<1>0. run \in [Runs -> RunType] /\ run[r] \in RunType /\ RunOK(run[r], tx) /\ TabOf[r] \in Tabs
    BY RunIsOK
<1>1. Succeeded(tx, run[r].sub)
    BY <1>0 DEF TxConfirmed, Cleared, At, RunOK
<1>2. SavedTypeOK' /\ SavedOK(unconfirmed', done', tx)
    BY <1>1, RecordKeeps DEF TxConfirmed, RecordProgress
<1>3. PlanCleared(r) \in TabType /\ TabOK(PlanCleared(r), tx) /\ UNCHANGED ledgerVars
    BY PlanClearedIsTab DEF TxConfirmed
<1>4. m \in Nat /\ (m # 0 => Merged(tx, m))
    BY <1>0, <1>1 DEF RunType, RunOK, Merged
<1>5. Tail(run[r].queue) \in Seq(Item)
    <2>1. run[r].queue \in Seq(Item) /\ run[r].queue # <<>>
        BY <1>0 DEF TxConfirmed, Cleared, At, RunOK, Signing, RunType
    <2> QED BY <2>1, HeadTailProperties
<1>6. \/ /\ after.queue # <<>>
         /\ run' = [run EXCEPT ![r] = next] /\ ClearPlanHash(r)
      \/ Ended(r, "done", PlanCleared(r), m)
      \/ run' = [run EXCEPT ![r] = again] /\ ClearPlanHash(r)
      \/ Ended(r, "failed", PlanCleared(r), m)
    BY <1>0 DEF TxConfirmed
<1>7. NextBound(r) \in Nat /\ "sign" \in PC /\ "fetch" \in PC /\ NoPlan \in Plan
    BY <1>0, NextBoundIsNat DEF PC, Plan
<1> HIDE DEF m
<1>8. after \in RunType /\ after.merge = m /\ ~after.paused
    BY <1>0, <1>4, <1>5, <1>7 DEF RunType
<1> HIDE DEF after
<1>9. next \in RunType
    BY <1>7, <1>8 DEF RunType
<1>10. after.queue # <<>> => RunOK(next, tx)
    BY <1>4, <1>8 DEF RunType, RunOK, Signing, Settling
<1>11. again \in RunType
    <2>1. after.round + 1 \in Int
        BY <1>8 DEF RunType
    <2> QED BY <1>7, <1>8, <2>1 DEF RunType
<1>12. RunOK(again, tx)
    BY <1>4, <1>7, <1>8 DEF RunType, RunOK, Signing, Settling
<1> HIDE DEF next, again
<1>13. CASE Ended(r, "done", PlanCleared(r), m)
    BY <1>2, <1>3, <1>4, <1>13, Ends DEF Causes
<1>14. CASE Ended(r, "failed", PlanCleared(r), m)
    BY <1>2, <1>3, <1>4, <1>14, Ends DEF Causes
<1>15. CASE after.queue # <<>> /\ run' = [run EXCEPT ![r] = next] /\ ClearPlanHash(r)
    BY <1>0, <1>2, <1>3, <1>9, <1>10, <1>15, RunAndTabMove DEF ClearPlanHash
<1>16. CASE run' = [run EXCEPT ![r] = again] /\ ClearPlanHash(r)
    BY <1>0, <1>2, <1>3, <1>11, <1>12, <1>16, RunAndTabMove DEF ClearPlanHash
<1> QED BY <1>6, <1>13, <1>14, <1>15, <1>16
LEMMA CheckedKeeps == ASSUME Grounded, NEW r \in Runs, Checked(r) PROVE Grounded'
<1> DEFINE t == TabOf[r]
           confirmed == run[r].outcome = "confirmed"
           phase == CASE run[r].outcome = "failed" -> "failed"
                      [] confirmed /\ tx[run[r].sub].merge -> "complete"
                      [] OTHER -> "executing"
           shown == [tab[t] EXCEPT !.phase = phase, !.plan = IF confirmed THEN NoPlan ELSE @]
           it == IF Owns(r) THEN shown ELSE tab[t]
<1>0. /\ run[r] \in RunType /\ RunOK(run[r], tx) /\ run \in [Runs -> RunType] /\ t \in Tabs
      /\ tab \in [Tabs -> TabType] /\ tab[t] \in TabType /\ TabOK(tab[t], tx)
    BY RunIsOK, TabIsOK
<1>1. confirmed => Succeeded(tx, run[r].sub)
    BY <1>0 DEF Checked, Cleared, At, RunOK
<1>2. SavedTypeOK' /\ SavedOK(unconfirmed', done', tx)
    <2>1. CASE confirmed /\ RecordProgress(r)
        BY <1>1, <2>1, RecordKeeps, SavedUntouched DEF RecordProgress
    <2>2. CASE UNCHANGED savedVars
        BY <2>2, SavedUntouched
    <2> QED BY <2>1, <2>2 DEF Checked
<1>3. phase \in {"failed", "complete", "executing"}
    OBVIOUS
<1>4. phase = "complete" => \E i \in 1 .. Len(tx) : Merged(tx, i)
    BY <1>1 DEF Merged, Succeeded, Names
<1>5. run' = [run EXCEPT ![r] = Idle] /\ tab' = [tab EXCEPT ![t] = it] /\ UNCHANGED ledgerVars
    BY <1>0 DEF Checked
<1> HIDE DEF t, phase
<1>6. shown \in TabType
    BY <1>0, <1>3 DEF TabType, Phase, Plan
<1>7. TabOK(shown, tx)
    BY <1>0, <1>4 DEF TabType, TabOK
<1> HIDE DEF shown
<1>8. it \in TabType /\ TabOK(it, tx)
    BY <1>0, <1>6, <1>7
<1> HIDE DEF it
<1> QED BY <1>0, <1>2, <1>5, <1>8, IdleIsRun, RunAndTabMove

LEMMA GateCheckedKeeps == ASSUME Grounded, NEW r \in Runs, GateChecked(r) PROVE Grounded'
<1> DEFINE t == TabOf[r]
           confirmed == run[r].outcome = "confirmed"
           closed == confirmed /\ tx[run[r].sub].merge
           shown == [tab[t] EXCEPT !.gate = NoSession, !.gateTx = 0, !.finished = @ \/ closed]
           it == IF Owns(r) THEN shown ELSE tab[t]
<1>0. /\ run[r] \in RunType /\ RunOK(run[r], tx) /\ run \in [Runs -> RunType] /\ t \in Tabs
      /\ tab \in [Tabs -> TabType] /\ tab[t] \in TabType /\ TabOK(tab[t], tx)
    BY RunIsOK, TabIsOK
<1>1. confirmed => Succeeded(tx, run[r].sub)
    BY <1>0 DEF GateChecked, Cleared, At, RunOK
<1>2. SavedTypeOK' /\ SavedOK(unconfirmed', done', tx)
    <2>1. CASE DeleteSession(run[r].rec)
        BY <2>1 DEF DeleteSession, Grounded, TypeOK, SavedTypeOK, SavedOK
    <2>2. CASE confirmed /\ RecordProgress(r)
        BY <1>1, <2>2, RecordKeeps, SavedUntouched DEF RecordProgress
    <2>3. CASE UNCHANGED savedVars
        BY <2>3, SavedUntouched
    <2> QED BY <2>1, <2>2, <2>3 DEF GateChecked
<1>3. closed => \E i \in 1 .. Len(tx) : Merged(tx, i)
    BY <1>1 DEF Merged, Succeeded, Names
<1>4. closed \in BOOLEAN
    BY <1>0, <1>1, LenIsNat, ElementOfSeq DEF Succeeded, Names, TxType
<1>5. run' = [run EXCEPT ![r] = Idle] /\ tab' = [tab EXCEPT ![t] = it] /\ UNCHANGED ledgerVars
    BY <1>0 DEF GateChecked
<1> HIDE DEF t, closed
<1>6. shown \in TabType
    BY <1>0, <1>4 DEF TabType
<1>7. TabOK(shown, tx)
    BY <1>0, <1>3 DEF TabType, TabOK
<1> HIDE DEF shown
<1>8. it \in TabType /\ TabOK(it, tx)
    BY <1>0, <1>6, <1>7
<1> HIDE DEF it
<1> QED BY <1>0, <1>2, <1>5, <1>8, IdleIsRun, RunAndTabMove

-----------------------------------------------------------------------------
(***************************************************************************)
(* Everybody else.                                                         *)
(***************************************************************************)

\* A step that leaves the runs and the tabs alone.
LEMMA WorldMoves ==
    ASSUME Grounded, LedgerTypeOK', Extends(tx, tx'), UNCHANGED <<run, tab>>,
           SavedTypeOK', SavedOK(unconfirmed', done', tx')
    PROVE  Grounded'
<1>1. run' \in [Runs -> RunType] /\ tab' \in [Tabs -> TabType] /\ run' = run /\ tab' = tab
    BY DEF Grounded, TypeOK
<1> QED BY <1>1, Moves

LEMMA DismissKeeps == ASSUME Grounded, NEW s \in Sessions, Dismiss(s) PROVE Grounded'
<1>1. LedgerTypeOK' /\ Extends(tx, tx') /\ tx' = tx
    BY SameLedger DEF Dismiss
<1>2. SavedTypeOK' /\ SavedOK(unconfirmed', done', tx)
    BY DEF Dismiss, DeleteSettledSession, DeleteSession, Grounded, TypeOK, SavedTypeOK, SavedOK
<1> QED BY <1>1, <1>2, WorldMoves DEF Dismiss

LEMMA LandKeeps ==
    ASSUME Grounded, NEW i \in Ids, Land(i), UNCHANGED <<savedVars, run, tab>>
    PROVE  Grounded'
<1> DEFINE good == IF tx[i].merge THEN work = 0 ELSE work > 0
           e == [tx[i] EXCEPT !.fate = IF good THEN "success" ELSE "failed", !.at = ltime]
<1>1. /\ tx \in Seq(TxType) /\ Len(tx) \in Nat /\ i \in 1 .. Len(tx)
      /\ open \in BOOLEAN /\ seqNum \in Nat /\ work \in Nat /\ ltime \in Nat /\ disturbed \in Nat
    BY LenIsNat DEF Ids, Grounded, TypeOK, LedgerTypeOK
<1>2. tx[i] \in TxType /\ tx[i].merge \in BOOLEAN /\ tx[i].fate = "sent"
    <2>1. tx[i] \in TxType
        BY <1>1, ElementOfSeq
    <2>2. tx[i].merge \in BOOLEAN
        BY <2>1 DEF TxType
    <2>3. tx[i].fate = "sent"
        BY DEF Land, CanLand
    <2> QED BY <2>1, <2>2, <2>3
<1>3. e \in TxType /\ e.merge = tx[i].merge
    BY <1>1, <1>2 DEF TxType, Fate
<1>4. tx' = [tx EXCEPT ![i] = e]
    BY <1>1 DEF Land
<1>5. seqNum' \in Nat /\ ltime' \in Nat /\ disturbed' \in Nat /\ work' \in Nat /\ open' \in BOOLEAN
    BY <1>1, <1>2 DEF Land
<1> HIDE DEF e
<1>6. /\ tx' \in Seq(TxType) /\ Len(tx') = Len(tx)
      /\ \A j \in 1 .. Len(tx) : tx'[j] = IF j = i THEN e ELSE tx[j]
    BY <1>1, <1>3, <1>4, Replaced
<1>7. LedgerTypeOK'
    BY <1>5, <1>6 DEF LedgerTypeOK
<1>8. Extends(tx, tx')
    BY <1>1, <1>2, <1>3, <1>6 DEF Extends
<1>9. SavedTypeOK' /\ SavedOK(unconfirmed', done', tx')
    BY <1>1, <1>6, <1>8, SameSaved
<1> QED BY <1>7, <1>8, <1>9, WorldMoves

LEMMA LedgerAloneKeeps ==
    ASSUME Grounded, Disturb \/ Tick, UNCHANGED <<savedVars, run, tab>>
    PROVE  Grounded'
<1>1. tx' = tx /\ Extends(tx, tx')
    BY LenIsNat DEF Disturb, Tick, Extends
<1>2. /\ tx \in Seq(TxType) /\ open \in BOOLEAN /\ seqNum \in Nat /\ work \in Nat
      /\ ltime \in Nat /\ disturbed \in Nat /\ MaxWork \in Nat
    BY LedgerAssumption DEF Grounded, TypeOK, LedgerTypeOK
<1>3. open' \in BOOLEAN /\ seqNum' \in Nat /\ work' \in Nat /\ ltime' \in Nat /\ disturbed' \in Nat
    <2>1. CASE Disturb
        <3>1. \/ work' \in 0 .. MaxWork /\ seqNum' \in {seqNum, seqNum + 1} /\ open' = open
              \/ open' = FALSE /\ seqNum' = seqNum + 1 /\ work' = work
            BY <2>1 DEF Disturb
        <3>2. open' \in BOOLEAN
            BY <3>1, <1>2
        <3>3. seqNum' \in Nat /\ work' \in Nat
            BY <3>1, <1>2
        <3>4. ltime' \in Nat /\ disturbed' \in Nat
            BY <2>1, <1>2 DEF Disturb
        <3> QED BY <3>2, <3>3, <3>4
    <2>2. CASE Tick
        BY <2>2, <1>2 DEF Tick
    <2> QED BY <2>1, <2>2
<1>4. LedgerTypeOK'
    BY <1>1, <1>2, <1>3 DEF LedgerTypeOK
<1>5. SavedTypeOK' /\ SavedOK(unconfirmed', done', tx')
    BY <1>1, SavedUntouched
<1> QED BY <1>1, <1>4, <1>5, WorldMoves

-----------------------------------------------------------------------------
LEMMA NextKeeps == ASSUME Grounded, [Next]_vars PROVE Grounded'
<1>1. CASE Network
    BY <1>1, LandKeeps, LedgerAloneKeeps DEF Network
<1>2. CASE Person
    <2>1. ASSUME NEW t \in Tabs, GateRead(t) \/ Review(t) \/ Leave(t) \/ Crash(t)
          PROVE  Grounded'
        BY <2>1, GateReadKeeps, ReviewKeeps, LeaveKeeps, CrashKeeps
    <2>2. ASSUME NEW r \in Runs, Start(r) \/ StartRefused(r) \/ AskCheck(r) \/ AskGate(r)
          PROVE  Grounded'
        BY <2>2, StartKeeps, StartRefusedKeeps, AskCheckKeeps, AskGateKeeps
    <2>3. ASSUME NEW s \in Sessions, Dismiss(s) PROVE Grounded'
        BY <2>3, DismissKeeps
    <2> QED BY <1>2, <2>1, <2>2, <2>3 DEF Person
<1>3. ASSUME NEW r \in Runs, Engine(r) PROVE Grounded'
    <2>1. CASE Answered(r) \/ ReadRecorded(r) \/ EnsureSession(r) \/ EnsureFails(r)
               \/ SettleLeftOver(r)
        BY <2>1, AnsweredKeeps, ReadRecordedKeeps, EnsureSessionKeeps, EnsureFailsKeeps,
           SettleLeftOverKeeps
    <2>2. CASE Fetching(r)
        BY <2>2, FetchRoundKeeps, FetchStateChangedKeeps, FetchAccountNotFoundKeeps,
           MergeExplainsKeeps, FetchFailsKeeps DEF Fetching
    <2>3. CASE Submitting(r)
        BY <2>3, SignKeeps, SignShortKeeps, SignFailsKeeps, KeepSessionKeeps, KeepHashKeeps,
           NotKeptKeeps, HoldInStoreKeeps, SendKeeps, SendNotOwnerKeeps, AnswerConfirmedKeeps,
           AnswerRefusedKeeps, AnswerUnknownKeeps, LookUpKeeps DEF Submitting
    <2>4. CASE Clearing(r)
        BY <2>4, ListHeldKeeps, DropHeldKeeps, DropFailsKeeps, LeftOverGoneKeeps,
           LeftOverConfirmedKeeps, TxNotConfirmedKeeps, TxConfirmedKeeps, CheckedKeeps,
           GateCheckedKeeps DEF Clearing
    <2> QED BY <1>3, <2>1, <2>2, <2>3, <2>4 DEF Engine
<1>4. CASE UNCHANGED vars
    <2>1. UNCHANGED <<ledgerVars, savedVars, run, tab>>
        BY <1>4 DEF vars
    <2>2. LedgerTypeOK' /\ Extends(tx, tx') /\ tx' = tx
        BY <2>1, SameLedger
    <2>3. SavedTypeOK' /\ SavedOK(unconfirmed', done', tx')
        BY <2>1, <2>2, SavedUntouched
    <2> QED BY <2>1, <2>2, <2>3, WorldMoves
<1> QED BY <1>1, <1>2, <1>3, <1>4 DEF Next

\* Every state of the close loop is grounded.
THEOREM GroundedHolds == Spec => []Grounded
BY InitGrounded, NextKeeps, PTL DEF Spec

\* The stores, the records, the runs and the ledger keep their types.
THEOREM TypeCorrect == Spec => []TypeOK
<1>1. Grounded => TypeOK
    BY DEF Grounded
<1> QED BY <1>1, GroundedHolds, PTL

\* No page says the account is closed (phase COMPLETE, or the gate's
\* CLOSE_FINISHED_NOTICE) unless a merge this browser hashed has succeeded:
\* whatever the API claims, the network loses and other wallets do.
THEOREM CompleteIsTrue == Spec => []CompleteMeansClosed
<1>1. Grounded => CompleteMeansClosed
    BY DEF Grounded, TabOK, CompleteMeansClosed, SaysClosed, Merged, Succeeded, Names, Closed, Ids
<1> QED BY <1>1, GroundedHolds, PTL

\* A saved close never lists as confirmed what did not succeed (recordConfirmed),
\* although records are written by any tab, late, and after their close was left.
THEOREM RecordsAreTrue == Spec => []RecordedIsConfirmed
<1>1. Grounded => RecordedIsConfirmed
    BY DEF Grounded, SavedOK, RecordedIsConfirmed, Succeeded, Names, Ids
<1> QED BY <1>1, GroundedHolds, PTL

\* So nothing that is said of a close, on a page or in a record, is ahead of the ledger.
THEOREM WhatIsSaidIsTrue == Spec => []SaidIsTrue
BY CompleteIsTrue, RecordsAreTrue, PTL DEF SaidIsTrue
=============================================================================
